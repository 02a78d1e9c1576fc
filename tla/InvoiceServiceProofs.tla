------------------------ MODULE InvoiceServiceProofs ------------------------
(***************************************************************************)
(* Theorems about InvoiceService: for any number of invoices, events,      *)
(* requests and overdue workers, any totals and any clock.                 *)
(*                                                                         *)
(* The first part is about the lifecycle of a document and its numbers.    *)
(* The second, from "What a step does to one document", is about the       *)
(* ledger: what it says is owed, waived and paid, however the handlers     *)
(* interleave; that credit notes and credited invoices pair up; that the   *)
(* audit trail is true; and that the handlers implement Receivable.  Only  *)
(* where OneWorker is named is the number of overdue workers restricted.   *)
(***************************************************************************)
EXTENDS InvoiceService, StoreProofs, FiniteSetTheorems

-----------------------------------------------------------------------------
(* Type correctness                                                        *)

\* The operators of a handler that compute an amount yield one.
LEMMA InterestType ==
    ASSUME NEW g \in Int, NEW due \in Nat, NEW at \in Nat
    PROVE  InterestAt(g, due, at) \in Nat
<1>1. DaysBetween(due, at, DayLength) \in Int
  BY BoundsAssumption DEF DaysBetween
<1>2. QED
  BY <1>1, LateInterestNat DEF InterestAt

\* The clauses of TypeOK, by the variable they are about.
LEMMA RecordedType ==
    ASSUME audit \in SUBSET (AuditAction \X Docs), NEW d \in Docs,
           NEW action \in AuditAction, Recorded(action, d)
    PROVE  audit' \in SUBSET (AuditAction \X Docs)
BY DEF Recorded, Added

\* What a slot of req may be replaced by.
ReqTypeOK(rq, py) ==
    /\ rq \in [Requests -> Request]
    /\ \A s \in Requests :
        /\ rq[s].step \in DocSteps => rq[s].doc \in Docs
        /\ rq[s].step = "claim" =>
            rq[s].event \in Events /\ py[rq[s].event].doc = rq[s].doc

SlotOK(slot, py) ==
    /\ slot \in Request
    /\ slot.step \in DocSteps => slot.doc \in Docs
    /\ slot.step = "claim" => slot.event \in Events /\ py[slot.event].doc = slot.doc

\* Writing one well-formed slot keeps the type of all.
LEMMA ReqUpdateType ==
    ASSUME ReqTypeOK(req, payment), NEW s \in Requests, NEW slot,
           SlotOK(slot, payment), req' = [req EXCEPT ![s] = slot],
           payment' = payment
    PROVE  ReqTypeOK(req, payment)'
BY DEF ReqTypeOK, SlotOK

\* An idle slot is well formed.
LEMMA IdleRequestType == SlotOK(IdleRequest, payment)
BY DEF SlotOK, IdleRequest, Request, Steps, DocSteps, NoFees

\* Starting on an invoice, and ending.
LEMMA SlotSteps ==
    ASSUME ReqTypeOK(req, payment), NEW s \in Requests, payment' = payment
    PROVE  /\ \A d \in Docs, step \in DocSteps \ {"claim"} :
                req' = [req EXCEPT ![s] = [IdleRequest EXCEPT !.step = step, !.doc = d]]
                    => ReqTypeOK(req, payment)'
           /\ \A step \in DocSteps \ {"claim"} :
                req[s].step \in DocSteps /\ Goto(s, step) => ReqTypeOK(req, payment)'
           /\ Finish(s) => ReqTypeOK(req, payment)'
<1>1. ASSUME NEW d \in Docs, NEW step \in DocSteps \ {"claim"},
             req' = [req EXCEPT ![s] = [IdleRequest EXCEPT !.step = step, !.doc = d]]
      PROVE  ReqTypeOK(req, payment)'
  <2>1. SlotOK([IdleRequest EXCEPT !.step = step, !.doc = d], payment)
    BY DEF SlotOK, IdleRequest, Request, Steps, DocSteps, NoFees
  <2>2. QED
    BY <1>1, <2>1, ReqUpdateType
<1>2. ASSUME NEW step \in DocSteps \ {"claim"}, req[s].step \in DocSteps, Goto(s, step)
      PROVE  ReqTypeOK(req, payment)'
  <2>1. SlotOK([req[s] EXCEPT !.step = step], payment)
    BY <1>2 DEF ReqTypeOK, SlotOK, Request, Steps
  <2>2. QED
    BY <1>2, <2>1, ReqUpdateType DEF Goto
<1>3. Finish(s) => ReqTypeOK(req, payment)'
  BY IdleRequestType, ReqUpdateType DEF Finish
<1>4. QED
  BY <1>1, <1>2, <1>3

\* TypeOK taken apart, before and after a step: what a step leaves alone
\* keeps its type.
LEMMA TypeParts ==
    LET Parts ==
            /\ invoice \in [Docs -> InvoiceRow]
            /\ ledger \in Ledger
            /\ lastNumber \in Nat
            /\ processed \in SUBSET Events
            /\ ReqTypeOK(req, payment)
            /\ run \in [Runners -> Run]
            /\ payment \in [Events -> Payment \cup {NoPayment}]
            /\ audit \in SUBSET (AuditAction \X Docs)
            /\ emailJobs \in SUBSET (EmailKind \X Docs)
            /\ now \in Nat
    IN  (TypeOK <=> Parts) /\ (TypeOK' <=> Parts')
BY DEF TypeOK, StoreTypeOK, Ledger, ReqTypeOK

\* Tables, requests and runs have their types at first.
THEOREM InitType == Init => TypeOK
<1> SUFFICES ASSUME Init PROVE TypeOK
  OBVIOUS
<1>1. invoice \in [Docs -> InvoiceRow]
  BY DEF Init, StoreInit, NoRow, InvoiceRow, RowStatus, InvoiceStatus
<1>2. ledger \in Ledger /\ lastNumber \in Nat /\ processed \in SUBSET Events
  BY DEF Init, StoreInit, Ledger, Entry
<1>3. ReqTypeOK(req, payment)
  BY IdleRequestType DEF Init, ReqTypeOK, SlotOK
<1>4. run \in [Runners -> Run]
  BY DEF Init, IdleRun, Run
<1>5. payment \in [Events -> Payment \cup {NoPayment}]
  BY DEF Init
<1>6. QED
  BY <1>1, <1>2, <1>3, <1>4, <1>5, TypeParts DEF Init

\* The admin's handlers.
LEMMA AdminStepType ==
    ASSUME TypeOK, NEW s \in Requests, AdminStep(s)
    PROVE  TypeOK'
<1> DEFINE d == req[s].doc
<1>1. /\ StoreTypeOK
      /\ ReqTypeOK(req, payment)
      /\ lastNumber \in Nat /\ NextNumber \in Nat
      /\ now \in Nat
      /\ audit \in SUBSET (AuditAction \X Docs)
      /\ req[s] \in Request
      /\ req[s].step \in DocSteps => d \in Docs
  BY DEF TypeOK, ReqTypeOK, NextNumber, StoreTypeOK
<1>2. CASE AllocateForInvoice(s)
  <2>1. SlotOK([IdleRequest EXCEPT !.step = "insert", !.number = NextNumber], payment)
    BY <1>1 DEF SlotOK, IdleRequest, Request, Steps, DocSteps, NoFees
  <2>2. ReqTypeOK(req, payment)'
    BY <1>1, <1>2, <2>1, ReqUpdateType DEF AllocateForInvoice
  <2>3. QED
    BY <1>1, <1>2, <2>2, TypeParts DEF AllocateForInvoice, AllocateInvoiceNumber
<1>3. CASE InsertDraft(s)
  <2>1. PICK e \in Docs, gross \in GrossTotals, due \in DueTimes :
            /\ CreateInvoiceWithItems(e, req[s].number, gross, due)
            /\ Recorded("INVOICE_CREATED", e)
    BY <1>3 DEF InsertDraft
  <2>2. gross \in Int /\ due \in Nat /\ req[s].number \in Nat
    BY <1>1, InputsAssumption DEF Request
  <2>3. WritesOK
    BY <1>1, <2>1, <2>2, StoreWritesType
  <2>4. QED
    BY <1>1, <1>3, <2>1, <2>3, SlotSteps, RecordedType, TypeParts
       DEF WritesOK, InsertDraft, AuditAction
<1>4. CASE \E e \in Docs : \/ ReadToSend(s, e) \/ ReadToDelete(s, e)
                           \/ ReadToCredit(s, e) \/ ReadToRemind(s, e)
  <2>1. PICK e \in Docs, op \in AllOps, step \in DocSteps \ {"claim"} :
            Begin(s, op, e, step)
    BY <1>4 DEF ReadToSend, ReadToDelete, ReadToCredit, ReadToRemind, AllOps, DocSteps
  <2>2. ReqTypeOK(req, payment)'
    BY <1>1, <2>1, SlotSteps DEF Begin
  <2>3. QED
    BY <2>1, <2>2, TypeParts DEF Begin, storeVars
<1>5. CASE Send(s)
  <2>1. d \in Docs
    BY <1>1, <1>5 DEF Send, At, DocSteps
  <2>2. WritesOK
    BY <1>1, <1>5, <2>1, StoreWritesType, TypeParts DEF WritesOK, Send
  <2>3. audit' \in SUBSET (AuditAction \X Docs)
    BY <1>1, <1>5, <2>1, RecordedType DEF Send, AuditAction
  <2>4. QED
    BY <1>1, <1>5, <2>2, <2>3, SlotSteps, TypeParts DEF WritesOK, Send
<1>6. CASE Delete(s)
  <2>1. d \in Docs
    BY <1>1, <1>6 DEF Delete, At, DocSteps
  <2>2. WritesOK
    BY <1>1, <1>6, <2>1, StoreWritesType, TypeParts DEF WritesOK, Delete
  <2>3. audit' \in SUBSET (AuditAction \X Docs)
    BY <1>1, <1>6, <2>1, RecordedType DEF Delete, AuditAction
  <2>4. QED
    BY <1>1, <1>6, <2>2, <2>3, SlotSteps, TypeParts DEF WritesOK, Delete
<1>7. CASE AllocateForCredit(s)
  <2>1. SlotOK([req[s] EXCEPT !.step = "readFees", !.number = NextNumber], payment)
    <3>1. d \in Docs
      BY <1>1, <1>7 DEF AllocateForCredit, At, DocSteps
    <3>2. QED
      BY <1>1, <3>1 DEF SlotOK, Request, Steps, DocSteps
  <2>2. ReqTypeOK(req, payment)'
    BY <1>1, <1>7, <2>1, ReqUpdateType DEF AllocateForCredit
  <2>3. QED
    BY <1>1, <1>7, <2>2, TypeParts DEF AllocateForCredit, AllocateInvoiceNumber
<1>8. CASE ReadFees(s)
  <2>1. d \in Docs
    BY <1>1, <1>8 DEF ReadFees, At, DocSteps
  <2>2. FeesOf(d) \in [lateFee: Nat, reminderFee: Nat]
    BY <1>1, <2>1 DEF FeesOf, StoreTypeOK, InvoiceRow
  <2>3. SlotOK([req[s] EXCEPT !.step = "cancel", !.fees = FeesOf(d)], payment)
    BY <1>1, <2>1, <2>2 DEF SlotOK, Request, Steps, DocSteps
  <2>4. ReqTypeOK(req, payment)'
    BY <1>1, <1>8, <2>3, ReqUpdateType DEF ReadFees
  <2>5. QED
    BY <1>8, <2>4, TypeParts DEF ReadFees, storeVars
<1>9. CASE IssueCredit(s)
  <2>1. d \in Docs /\ req[s].fees \in [lateFee: Nat, reminderFee: Nat]
        /\ req[s].number \in Nat
    BY <1>1, <1>9 DEF IssueCredit, At, DocSteps, Request
  <2>2. /\ WritesOK
        /\ audit' \in SUBSET (AuditAction \X Docs)
    <3>1. CASE \E note \in Docs :
                 /\ CreateCreditNote(d, note, req[s].number, req[s].fees, now)
                 /\ Recorded("CREDIT_NOTE_ISSUED", note)
      <4>1. PICK note \in Docs :
                 /\ CreateCreditNote(d, note, req[s].number, req[s].fees, now)
                 /\ Recorded("CREDIT_NOTE_ISSUED", note)
        BY <3>1
      <4>2. WritesOK
        BY <1>1, <2>1, <4>1, StoreWritesType
      <4>3. QED
        BY <1>1, <4>1, <4>2, RecordedType DEF AuditAction
    <3>2. CASE UNCHANGED <<invoice, ledger, audit>>
      BY <3>2, TypeParts DEF WritesOK
    <3>3. QED
      BY <1>9, <3>1, <3>2 DEF IssueCredit
  <2>3. QED
    BY <1>1, <1>9, <2>2, SlotSteps, TypeParts DEF WritesOK, IssueCredit
<1>10. CASE ChargeReminder(s) \/ StampReminder(s)
  <2>1. d \in Docs /\ req[s].step \in DocSteps
    BY <1>1, <1>10 DEF ChargeReminder, StampReminder, At, DocSteps
  <2>2. WritesOK
    BY <1>1, <1>10, <2>1, StoreWritesType, TypeParts DEF WritesOK, ChargeReminder, StampReminder
  <2>3. audit' \in SUBSET (AuditAction \X Docs)
    BY <1>1, <1>10, <2>1, RecordedType
       DEF ChargeReminder, StampReminder, ReminderRecorded, AuditAction
  <2>4. emailJobs' \in SUBSET (EmailKind \X Docs)
    BY <1>10, <2>1, TypeParts
       DEF ChargeReminder, StampReminder, ReminderRecorded, Added, EmailKind
  <2>5. ReqTypeOK(req, payment)'
    BY <1>1, <1>10, <2>1, SlotSteps DEF ChargeReminder, StampReminder, DocSteps
  <2>6. QED
    BY <1>10, <2>2, <2>3, <2>4, <2>5, TypeParts DEF WritesOK, ChargeReminder, StampReminder
<1>11. QED
  BY <1>2, <1>3, <1>4, <1>5, <1>6, <1>7, <1>8, <1>9, <1>10 DEF AdminStep

\* Stripe, the customer and the webhook.
LEMMA PaymentStepType ==
    ASSUME TypeOK
    PROVE  /\ \A s \in Requests : WebhookStep(s) => TypeOK'
           /\ \A e \in Events, d \in Docs : CustomerPays(e, d) => TypeOK'
<1>1. /\ StoreTypeOK
      /\ ReqTypeOK(req, payment)
      /\ payment \in [Events -> Payment \cup {NoPayment}]
      /\ audit \in SUBSET (AuditAction \X Docs)
      /\ invoice \in [Docs -> InvoiceRow]
  BY TypeParts DEF TypeOK
<1>2. \A e \in Events : payment[e] # NoPayment <=> payment[e].doc \in Docs
  BY <1>1, NullsAssumption DEF Payment, NoPayment
<1>3. ASSUME NEW s \in Requests, NEW e \in Events, ReceiveEvent(s, e)
      PROVE  TypeOK'
  <2> DEFINE slot == [IdleRequest EXCEPT !.step = "claim", !.doc = payment[e].doc,
                                         !.event = e]
  <2>1. SlotOK(slot, payment)
    BY <1>2, <1>3 DEF ReceiveEvent, SlotOK, IdleRequest, Request, Steps, DocSteps, NoFees
  <2> HIDE DEF slot
  <2>2. req' = [req EXCEPT ![s] = slot] /\ payment' = payment
    BY <1>3 DEF ReceiveEvent, slot
  <2>3. ReqTypeOK(req, payment)'
    BY <1>1, <2>1, <2>2, ReqUpdateType
  <2>4. QED
    BY <1>3, <2>3, TypeParts DEF ReceiveEvent, storeVars
<1>4. ASSUME NEW s \in Requests, ApplyEvent(s)
      PROVE  TypeOK'
  <2> DEFINE e == req[s].event
             d == req[s].doc
  <2>1. e \in Events /\ d \in Docs /\ payment[e] \in Payment
    BY <1>1, <1>4, NullsAssumption DEF ApplyEvent, At, ReqTypeOK, DocSteps, Payment, NoPayment
  <2>2. payment[e].amount \in Int
    BY <2>1 DEF Payment
  <2>3. WritesOK /\ processed' \in SUBSET Events
    <3>1. ClaimEventAndRun(e, d, payment[e].amount)
      BY <1>4 DEF ApplyEvent
    <3>2. CASE UNCHANGED <<processed, invoice, ledger>>
      BY <3>2, TypeParts DEF WritesOK
    <3>3. CASE processed' = processed \cup {e} /\ MarkPaidWithin(d, payment[e].amount)
      BY <1>1, <2>1, <2>2, <3>3, StoreWritesType, TypeParts
    <3>4. CASE processed' = processed \cup {e} /\ UNCHANGED <<invoice, ledger>>
      BY <2>1, <3>4, TypeParts DEF WritesOK
    <3>5. QED
      BY <3>1, <3>2, <3>3, <3>4 DEF ClaimEventAndRun
  <2>4. audit' \in SUBSET (AuditAction \X Docs)
    <3>1. Outcome(d) \in AuditAction
      BY DEF Outcome, AuditAction
    <3>2. QED
      BY <1>1, <1>4, <2>1, <3>1, RecordedType DEF ApplyEvent
  <2>5. ReqTypeOK(req, payment)'
    BY <1>1, <1>4, SlotSteps DEF ApplyEvent
  <2>6. QED
    BY <1>4, <2>3, <2>4, <2>5, TypeParts DEF WritesOK, ApplyEvent
<1>5. ASSUME NEW e \in Events, NEW d \in Docs, CustomerPays(e, d)
      PROVE  TypeOK'
  <2>1. PICK amount \in EverDue(d) :
            payment' = [payment EXCEPT ![e] = [doc |-> d, amount |-> amount]]
    BY <1>5 DEF CustomerPays
  <2>2. amount \in Int
    <3>1. invoice[d].gross \in Int /\ invoice[d].reminderFee \in Int
      BY <1>1 DEF InvoiceRow
    <3>2. PICK late \in 0 .. invoice[d].lateFee, reminder \in {0, invoice[d].reminderFee} :
              amount = TotalDueOre(invoice[d].gross, late, reminder)
      BY <2>1 DEF EverDue
    <3>3. QED
      BY <3>1, <3>2 DEF TotalDueOre
  <2>3. payment' \in [Events -> Payment \cup {NoPayment}]
    BY <1>1, <2>1, <2>2 DEF Payment
  <2>4. ReqTypeOK(req, payment)'
    <3>1. payment[e].doc = NoDoc /\ \A f \in Events \ {e} : payment'[f] = payment[f]
      BY <1>1, <1>5, <2>1 DEF CustomerPays, NoPayment
    <3>2. req' = req
      BY <1>5 DEF CustomerPays
    <3>3. \A s \in Requests : req[s].step = "claim" => req[s].event # e
      BY <1>1, <3>1, NullsAssumption DEF ReqTypeOK, DocSteps
    <3>4. QED
      BY <1>1, <3>1, <3>2, <3>3 DEF ReqTypeOK
  <2>5. QED
    BY <1>5, <2>3, <2>4, TypeParts DEF CustomerPays, storeVars
<1>6. QED
  BY <1>3, <1>4, <1>5 DEF WebhookStep

\* The overdue run.
LEMMA RunStepType ==
    ASSUME TypeOK, NEW r \in Runners, RunStep(r)
    PROVE  TypeOK'
<1>1. /\ StoreTypeOK
      /\ invoice \in [Docs -> InvoiceRow]
      /\ run \in [Runners -> Run]
      /\ run[r] \in Run
      /\ audit \in SUBSET (AuditAction \X Docs)
      /\ now \in Nat
  BY TypeParts DEF TypeOK
<1>2. ASSUME NEW at \in 1 .. now, StartRun(r, at)
      PROVE  TypeOK'
  <2>1. run' \in [Runners -> Run]
    <3> DEFINE candidates == {d \in Docs : Candidate(d, at)}
               fresh == {d \in candidates : invoice[d].status = "SENT"}
               fees == [d \in Docs |->
                            IF d \in candidates THEN invoice[d].lateFee ELSE 0]
               started == [step |-> "apply", at |-> at, todo |-> candidates,
                           fresh |-> fresh, lateFee |-> fees, notify |-> {}]
    <3>1. candidates \in SUBSET Docs /\ fresh \in SUBSET Docs
      OBVIOUS
    <3>2. fees \in [Docs -> Nat]
      BY <1>1 DEF InvoiceRow
    <3>3. run' = [run EXCEPT ![r] = started]
      BY <1>2 DEF StartRun
    <3> HIDE DEF candidates, fresh, fees
    <3>4. started \in Run
      BY <1>1, <3>1, <3>2 DEF Run
    <3>5. QED
      BY <1>1, <3>3, <3>4
  <2>2. QED
    BY <1>2, <2>1, TypeParts DEF StartRun, storeVars
<1>3. ASSUME NEW d \in Docs, ApplyOverdue(r, d)
      PROVE  TypeOK'
  <2> DEFINE totalOwed == InterestAt(invoice[d].gross, invoice[d].due, run[r].at)
  <2>1. totalOwed \in Nat /\ run[r].lateFee[d] \in Nat
    BY <1>1, InterestType DEF InvoiceRow, Run
  <2> DEFINE increment == Increment(run[r].lateFee[d], totalOwed)
             newFee == NewLateFee(run[r].lateFee[d], totalOwed)
  <2>2. increment \in Int /\ newFee \in Nat
    BY <2>1 DEF Increment, NewLateFee
  <2>3. ApplyOverdueTx(d, newFee, increment) \/ UNCHANGED <<invoice, ledger>>
    BY <1>3 DEF ApplyOverdue
  <2> HIDE DEF increment, newFee
  <2>4. WritesOK
    BY <1>1, <2>2, <2>3, StoreWritesType, TypeParts DEF WritesOK
  <2>5. audit' \in SUBSET (AuditAction \X Docs)
    BY <1>1, <1>3, RecordedType DEF ApplyOverdue, AuditAction
  <2>6. run' \in [Runners -> Run]
    <3> DEFINE notify == IF d \in run[r].fresh THEN run[r].notify \cup {d}
                                               ELSE run[r].notify
    <3>1. run' = [run EXCEPT ![r] =
                    [run[r] EXCEPT !.todo = run[r].todo \ {d}, !.notify = notify]]
      BY <1>1, <1>3 DEF ApplyOverdue
    <3>2. notify \in SUBSET Docs
      BY <1>1 DEF Run
    <3> HIDE DEF notify
    <3>3. [run[r] EXCEPT !.todo = run[r].todo \ {d}, !.notify = notify] \in Run
      BY <1>1, <3>2 DEF Run
    <3>4. QED
      BY <1>1, <3>1, <3>3
  <2>7. QED
    BY <1>3, <2>4, <2>5, <2>6, TypeParts DEF WritesOK, ApplyOverdue
<1>4. ASSUME NEW d \in Docs, SkipOverdue(r, d)
      PROVE  TypeOK'
  <2>1. run' = [run EXCEPT ![r] = [run[r] EXCEPT !.todo = run[r].todo \ {d}]]
    BY <1>4 DEF SkipOverdue
  <2>2. [run[r] EXCEPT !.todo = run[r].todo \ {d}] \in Run
    BY <1>1 DEF Run
  <2>3. QED
    BY <1>1, <1>4, <2>1, <2>2, TypeParts DEF SkipOverdue, storeVars
<1>5. IdleRun \in Run
  BY DEF IdleRun, Run
<1>6. ASSUME ReportRun(r)
      PROVE  TypeOK'
  <2>1. [IdleRun EXCEPT !.step = "notify", !.notify = run[r].notify] \in Run
    BY <1>1 DEF IdleRun, Run
  <2>2. run' \in [Runners -> Run]
    BY <1>1, <1>5, <1>6, <2>1 DEF ReportRun
  <2>3. QED
    BY <1>6, <2>2, TypeParts DEF ReportRun, storeVars
<1>7. ASSUME NEW d \in Docs, EnqueueNotice(r, d)
      PROVE  TypeOK'
  <2>1. [run[r] EXCEPT !.notify = run[r].notify \ {d}] \in Run
    BY <1>1 DEF Run
  <2>2. run' \in [Runners -> Run]
    BY <1>1, <1>5, <1>7, <2>1 DEF EnqueueNotice
  <2>3. emailJobs' \in SUBSET (EmailKind \X Docs)
    BY <1>7, TypeParts DEF EnqueueNotice, EmailKind
  <2>4. QED
    BY <1>7, <2>2, <2>3, TypeParts DEF EnqueueNotice, storeVars
<1>8. QED
  BY <1>2, <1>3, <1>4, <1>6, <1>7 DEF RunStep

\* Every step keeps every variable in its type.
LEMMA NextType ==
    ASSUME TypeOK, [Next]_vars
    PROVE  TypeOK'
<1>1. ASSUME NEW s \in Requests, FailRequest(s)
      PROVE  TypeOK'
  <2>1. ReqTypeOK(req, payment)'
    BY <1>1, SlotSteps, TypeParts DEF FailRequest
  <2>2. QED
    BY <1>1, <2>1, TypeParts DEF FailRequest, storeVars
<1>2. ASSUME NEW r \in Runners, FailRun(r)
      PROVE  TypeOK'
  <2>1. IdleRun \in Run
    BY DEF IdleRun, Run
  <2>2. QED
    BY <1>2, <2>1, TypeParts DEF FailRun, storeVars
<1>3. CASE Tick
  BY <1>3, TypeParts DEF Tick, storeVars, ReqTypeOK
<1>4. CASE UNCHANGED vars
  BY <1>4, TypeParts DEF vars, storeVars, serviceVars, ReqTypeOK
<1>5. QED
  BY <1>1, <1>2, <1>3, <1>4, AdminStepType, PaymentStepType, RunStepType DEF Next

\* Whatever is interleaved, every row, ledger entry, request and run stays
\* well formed: fees never become negative, and a claimed event names the
\* invoice its payment was for.
THEOREM TypeCorrect == Spec => []TypeOK
BY InitType, NextType, PTL DEF Spec

-----------------------------------------------------------------------------
(* What a step does to the store                                           *)

\* What a run has computed for candidate d.
OwedAt(r, d)   == InterestAt(invoice[d].gross, invoice[d].due, run[r].at)
FeeAt(r, d)    == NewLateFee(run[r].lateFee[d], OwedAt(r, d))
ChargeAt(r, d) == Increment(run[r].lateFee[d], OwedAt(r, d))

\* What a run computes for a candidate are integers, interest and fee naturals.
LEMMA RunAmounts ==
    ASSUME TypeOK, NEW r \in Runners, NEW d \in Docs
    PROVE  OwedAt(r, d) \in Nat /\ FeeAt(r, d) \in Nat /\ ChargeAt(r, d) \in Int
<1>1. /\ invoice[d].gross \in Int /\ invoice[d].due \in Nat
      /\ run[r].at \in Nat /\ run[r].lateFee[d] \in Nat
  BY DEF TypeOK, StoreTypeOK, InvoiceRow, Run
<1>2. OwedAt(r, d) \in Nat
  BY <1>1, InterestType DEF OwedAt
<1>3. QED
  BY <1>1, <1>2 DEF FeeAt, ChargeAt, NewLateFee, Increment

\* The only ways a step touches the invoices and their ledgers.
StoreWrite ==
    \/ UNCHANGED <<invoice, ledger>>
    \/ \E s \in Requests, d \in Docs, gross \in Int \ {0}, due \in Nat :
        /\ At(s, "insert")
        /\ CreateInvoiceWithItems(d, req[s].number, gross, due)
    \/ \E d \in Docs : \/ MarkSent(d)
                       \/ DeleteDraftInvoice(d)
                       \/ ChargeReminderFee(d, now)
    \/ \E s \in Requests, d \in Docs :
        /\ At(s, "stamp")
        /\ d = req[s].doc
        /\ MarkReminderSent(d, now)
    \/ \E d \in Docs, e \in Events :
        /\ payment[e] \in Payment
        /\ payment[e].doc = d
        /\ e \notin processed /\ processed' = processed \cup {e}
        /\ MarkPaidWithin(d, payment[e].amount)
    \/ \E s \in Requests, d \in Docs, note \in Docs :
        /\ At(s, "cancel")
        /\ d = req[s].doc
        /\ CreateCreditNote(d, note, req[s].number, req[s].fees, now)
    \/ \E r \in Runners, d \in Docs :
        /\ run[r].step = "apply" /\ d \in run[r].todo
        /\ d \in run[r].fresh \/ ChargeAt(r, d) > 0
        /\ d \notin run'[r].todo
        /\ ApplyOverdueTx(d, FeeAt(r, d), ChargeAt(r, d))

\* A step performs one transaction of the store, or leaves the store alone.
LEMMA StoreStep ==
    ASSUME TypeOK, [Next]_vars
    PROVE  StoreWrite
<1>1. \A s \in Requests : req[s].step \in DocSteps => req[s].doc \in Docs
  BY DEF TypeOK
<1>2. ASSUME NEW s \in Requests, InsertDraft(s)
      PROVE  StoreWrite
  BY <1>2, InputsAssumption DEF StoreWrite, InsertDraft
<1>3. ASSUME NEW s \in Requests, Send(s) \/ Delete(s)
      PROVE  StoreWrite
  BY <1>1, <1>3 DEF StoreWrite, Send, Delete, At, DocSteps
<1>4. ASSUME NEW s \in Requests, IssueCredit(s)
      PROVE  StoreWrite
  <2>1. req[s].doc \in Docs
    BY <1>1, <1>4 DEF IssueCredit, At, DocSteps
  <2>2. QED
    BY <1>4, <2>1 DEF StoreWrite, IssueCredit
<1>5. ASSUME NEW s \in Requests, ChargeReminder(s) \/ StampReminder(s)
      PROVE  StoreWrite
  BY <1>1, <1>5 DEF StoreWrite, ChargeReminder, StampReminder, At, DocSteps
<1>6. ASSUME NEW s \in Requests, ApplyEvent(s)
      PROVE  StoreWrite
  <2> DEFINE e == req[s].event
             d == req[s].doc
  <2>1. e \in Events /\ d \in Docs /\ payment[e] \in Payment /\ payment[e].doc = d
    BY <1>6, NullsAssumption DEF TypeOK, ApplyEvent, At, DocSteps, Payment, NoPayment
  <2>2. \/ /\ e \notin processed /\ processed' = processed \cup {e}
           /\ MarkPaidWithin(d, payment[e].amount)
        \/ UNCHANGED <<invoice, ledger>>
    BY <1>6 DEF ApplyEvent, ClaimEventAndRun
  <2>3. QED
    BY <2>1, <2>2 DEF StoreWrite
<1>7. ASSUME NEW r \in Runners, NEW d \in Docs, ApplyOverdue(r, d)
      PROVE  StoreWrite
  <2>1. d \notin run'[r].todo
    BY <1>7 DEF TypeOK, Run, ApplyOverdue
  <2>2. QED
    BY <1>7, <2>1 DEF StoreWrite, ApplyOverdue, OwedAt, FeeAt, ChargeAt
<1>8. CASE UNCHANGED <<invoice, ledger>>
  BY <1>8 DEF StoreWrite
<1>9. ASSUME NEW s \in Requests, AdminStep(s)
      PROVE  StoreWrite
  <2>1. CASE \E e \in Docs : \/ ReadToSend(s, e) \/ ReadToDelete(s, e)
                             \/ ReadToCredit(s, e) \/ ReadToRemind(s, e)
    BY <1>8, <2>1 DEF ReadToSend, ReadToDelete, ReadToCredit, ReadToRemind, Begin, storeVars
  <2>2. CASE AllocateForInvoice(s) \/ AllocateForCredit(s) \/ ReadFees(s)
    BY <1>8, <2>2 DEF AllocateForInvoice, AllocateForCredit, ReadFees, storeVars
  <2>3. QED
    BY <1>2, <1>3, <1>4, <1>5, <1>9, <2>1, <2>2 DEF AdminStep
<1>10. ASSUME NEW s \in Requests, WebhookStep(s)
       PROVE  StoreWrite
  <2>1. CASE \E e \in Events : ReceiveEvent(s, e)
    BY <1>8, <2>1 DEF ReceiveEvent, storeVars
  <2>2. QED
    BY <1>6, <1>10, <2>1 DEF WebhookStep
<1>11. ASSUME NEW r \in Runners, RunStep(r)
       PROVE  StoreWrite
  <2>1. CASE \/ \E at \in 1 .. now : StartRun(r, at)
             \/ \E d \in Docs : SkipOverdue(r, d)
             \/ ReportRun(r)
             \/ \E d \in Docs : EnqueueNotice(r, d)
    BY <1>8, <2>1 DEF StartRun, SkipOverdue, ReportRun, EnqueueNotice, storeVars
  <2>2. QED
    BY <1>7, <1>11, <2>1 DEF RunStep
<1>12. CASE \/ \E s \in Requests : FailRequest(s)
            \/ \E r \in Runners : FailRun(r)
            \/ \E e \in Events, d \in Docs : CustomerPays(e, d)
            \/ Tick
            \/ UNCHANGED vars
  BY <1>8, <1>12 DEF FailRequest, FailRun, CustomerPays, Tick, vars, storeVars
<1>13. QED
  BY <1>9, <1>10, <1>11, <1>12 DEF Next

-----------------------------------------------------------------------------
(* The rows of a ledger and the status of its invoice                      *)

\* A credit note is issued when it is made and nothing moves it after that:
\* so none is a draft that could be sent.
NotesStaySent ==
    \A d \in Docs : invoice[d].type = "CREDIT_NOTE" => invoice[d].status = "SENT"

RowsInv == NotesStaySent /\ LedgerRowsMatchStatus

\* A document that a step does not touch keeps matching its rows.
LEMMA RowsMatchSame ==
    ASSUME NEW d \in Docs, RowsMatch(d), Same(d)
    PROVE  RowsMatch(d)'
<1>1. \A u \in TransactionType : Rows(d, u)' = Rows(d, u)
  BY DEF Same, Rows
<1>2. invoice'[d] = invoice[d]
  BY DEF Same
<1>3. QED
  BY <1>1, <1>2 DEF RowsMatch, Issued, TransactionType

\* At first there are no rows.
LEMMA RowsInit == Init => RowsInv
<1> SUFFICES ASSUME Init PROVE RowsInv
  OBVIOUS
<1>1. \A d \in Docs : invoice[d] = NoRow
  BY DEF Init, StoreInit
<1>2. \A d \in Docs, u \in TransactionType : ledger[d][u] = [rows |-> 0, sum |-> 0]
  BY DEF Init, StoreInit
<1>3. QED
  BY <1>1, <1>2 DEF RowsInv, NotesStaySent, LedgerRowsMatchStatus, RowsMatch, Rows,
                    Issued, If, NoRow, TransactionType

\* RowsInv is inductive, with TypeOK.
LEMMA RowsNext ==
    ASSUME TypeOK, RowsInv, [Next]_vars
    PROVE  RowsInv'
<1> USE DEF RowsInv
<1>1. /\ StoreTypeOK
      /\ invoice \in [Docs -> InvoiceRow]
      /\ \A d \in Docs : invoice[d] \in InvoiceRow
      /\ \A d \in Docs, u \in TransactionType : ledger[d][u] \in Entry
      /\ now \in Nat
      /\ \A d \in Docs : RowsMatch(d)
      /\ \A s \in Requests : req[s] \in Request
  BY DEF TypeOK, StoreTypeOK, LedgerRowsMatchStatus
<1>2. SUFFICES ASSUME StoreWrite
               PROVE  NotesStaySent' /\ \A d \in Docs : RowsMatch(d)'
  BY StoreStep DEF LedgerRowsMatchStatus
<1>3. CASE UNCHANGED <<invoice, ledger>>
  <2>1. \A d \in Docs : Same(d)
    BY <1>3 DEF Same
  <2>2. QED
    BY <1>1, <1>3, <2>1, RowsMatchSame DEF NotesStaySent
<1>4. ASSUME NEW s \in Requests, NEW d \in Docs, NEW gross \in Int \ {0},
             NEW due \in Nat, CreateInvoiceWithItems(d, req[s].number, gross, due)
      PROVE  NotesStaySent' /\ \A e \in Docs : RowsMatch(e)'
  <2>1. req[s].number \in Nat
    BY <1>1 DEF Request
  <2>2. /\ \A e \in Docs \ {d} : Same(e)
        /\ invoice[d].status = "ABSENT"
        /\ invoice'[d] = [NoRow EXCEPT !.status = "DRAFT", !.number = req[s].number,
                                       !.gross = gross, !.due = due]
        /\ PostsNothing(d)
    BY <1>1, <1>4, CreateEffect DEF CreateChanges
  <2>3. RowsMatch(d)'
    BY <1>1, <2>2 DEF RowsMatch, Rows, Issued, If, NoRow, PostsNothing, TransactionType,
                      Entry, NotesStaySent
  <2>4. NotesStaySent'
    BY <1>1, <2>2, ZenonT(40) DEF NotesStaySent, NoRow, Same
  <2>5. QED
    BY <1>1, <2>2, <2>3, <2>4, RowsMatchSame
<1>5. ASSUME NEW d \in Docs, MarkSent(d)
      PROVE  NotesStaySent' /\ \A e \in Docs : RowsMatch(e)'
  <2>1. /\ \A e \in Docs \ {d} : Same(e)
        /\ invoice'[d] = [invoice[d] EXCEPT !.status = "SENT"]
        /\ Posts(d, "INVOICE_CREATED", invoice[d].gross)
        /\ invoice[d].status = "DRAFT"
    BY <1>1, <1>5, SendEffect DEF MarkSent, IsDraft
  <2>2. RowsMatch(d)'
    BY <1>1, <2>1 DEF RowsMatch, Rows, Issued, If, Posts, TransactionType, Entry,
                      NotesStaySent, InvoiceRow
  <2>3. NotesStaySent'
    BY <1>1, <2>1 DEF NotesStaySent, Same, InvoiceRow
  <2>4. QED
    BY <1>1, <2>1, <2>2, <2>3, RowsMatchSame
<1>6. ASSUME NEW d \in Docs, DeleteDraftInvoice(d)
      PROVE  NotesStaySent' /\ \A e \in Docs : RowsMatch(e)'
  <2>1. /\ \A e \in Docs \ {d} : Same(e)
        /\ invoice'[d] = [invoice[d] EXCEPT !.status = "DELETED"]
        /\ PostsNothing(d)
        /\ invoice[d].status = "DRAFT"
    BY <1>1, <1>6, DeleteEffect DEF DeleteDraftInvoice, IsDraft
  <2>2. RowsMatch(d)'
    BY <1>1, <2>1 DEF RowsMatch, Rows, Issued, If, PostsNothing, TransactionType, Entry,
                      NotesStaySent, InvoiceRow
  <2>3. NotesStaySent'
    BY <1>1, <2>1 DEF NotesStaySent, Same, InvoiceRow
  <2>4. QED
    BY <1>1, <2>1, <2>2, <2>3, RowsMatchSame
<1>7. ASSUME NEW d \in Docs, NEW amount \in Int, MarkPaidWithin(d, amount)
      PROVE  NotesStaySent' /\ \A e \in Docs : RowsMatch(e)'
  <2>1. /\ \A e \in Docs \ {d} : Same(e)
        /\ invoice'[d] = [invoice[d] EXCEPT !.status = "PAID"]
        /\ Posts(d, "PAYMENT_RECEIVED", amount)
        /\ IsOpen(d)
    BY <1>1, <1>7, PayEffect DEF MarkPaidWithin
  <2>2. RowsMatch(d)'
    BY <1>1, <2>1 DEF RowsMatch, Rows, Issued, If, Posts, TransactionType, Entry,
                      InvoiceRow, IsOpen, OpenStatuses
  <2>3. NotesStaySent'
    BY <1>1, <2>1 DEF NotesStaySent, Same, InvoiceRow, IsOpen
  <2>4. QED
    BY <1>1, <2>1, <2>2, <2>3, RowsMatchSame
<1>8. ASSUME NEW s \in Requests, NEW d \in Docs, NEW note \in Docs,
             CreateCreditNote(d, note, req[s].number, req[s].fees, now)
      PROVE  NotesStaySent' /\ \A e \in Docs : RowsMatch(e)'
  <2>1. req[s].number \in Nat /\ req[s].fees \in [lateFee: Nat, reminderFee: Nat]
    BY <1>1 DEF Request
  <2>2. CreditChanges(d, note, req[s].number, req[s].fees, now)
    BY <1>1, <1>8, <2>1, CreditEffect
  <2>3. /\ IsOpen(d)
        /\ d # note
        /\ \A e \in Docs \ {d, note} : Same(e)
        /\ invoice[note].status = "ABSENT"
        /\ invoice'[d].type = invoice[d].type
        /\ invoice'[d].status = "CREDITED"
        /\ invoice'[d].reminderFee = invoice[d].reminderFee
        /\ invoice'[note].type = "CREDIT_NOTE"
        /\ invoice'[note].status = "SENT"
        /\ invoice'[note].reminderFee = 0
        /\ PostsNothing(note)
    BY <1>1, <1>8, <2>2, ZenonT(40) DEF CreditChanges, CreateCreditNote, InvoiceRow, NoRow
  <2>4. RowsMatch(d)'
    <3>1. /\ Rows(d, "CREDIT_NOTE_ISSUED")' = Rows(d, "CREDIT_NOTE_ISSUED") + 1
          /\ Rows(d, "LATE_FEE_WAIVED")' <= Rows(d, "LATE_FEE_WAIVED") + 1
          /\ Rows(d, "REMINDER_FEE_WAIVED")' <= Rows(d, "REMINDER_FEE_WAIVED") + 1
      BY <1>1, <2>2 DEF CreditChanges, Rows, Entry, TransactionType
    <3>2. \A u \in TransactionType \ {"CREDIT_NOTE_ISSUED", "LATE_FEE_WAIVED",
                                       "REMINDER_FEE_WAIVED"} : Rows(d, u)' = Rows(d, u)
      BY <2>2 DEF CreditChanges, Rows
    <3>3. RowsMatch(d) /\ \A u \in TransactionType : Rows(d, u) \in Nat
      BY <1>1 DEF Rows, Entry
    <3>4. QED
      BY <2>3, <3>1, <3>2, <3>3 DEF RowsMatch, Issued, If, TransactionType, IsOpen,
                                    OpenStatuses
  <2>5. RowsMatch(note)'
    BY <1>1, <2>3 DEF RowsMatch, Rows, Issued, If, PostsNothing, TransactionType, Entry
  <2>6. NotesStaySent'
    <3>1. invoice'[d].type # "CREDIT_NOTE"
      BY <2>3 DEF IsOpen
    <3>2. \A e \in Docs \ {d, note} : invoice'[e] = invoice[e]
      BY <2>3 DEF Same
    <3>3. QED
      BY <2>3, <3>1, <3>2 DEF NotesStaySent
  <2>7. QED
    BY <1>1, <2>3, <2>4, <2>5, <2>6, RowsMatchSame
<1>9. ASSUME NEW d \in Docs, ChargeReminderFee(d, now)
      PROVE  NotesStaySent' /\ \A e \in Docs : RowsMatch(e)'
  <2>1. /\ \A e \in Docs \ {d} : Same(e)
        /\ invoice'[d] = [invoice[d] EXCEPT !.reminderFee = REMINDER_FEE_ORE,
                                            !.reminderSentAt = now]
        /\ Posts(d, "REMINDER_FEE_ADDED", REMINDER_FEE_ORE)
        /\ IsOpen(d) /\ invoice[d].reminderFee = 0
    BY <1>1, <1>9, ChargeEffect DEF ChargeReminderFee, NotYetReminded
  <2>2. /\ invoice'[d].type = invoice[d].type
        /\ invoice'[d].status = invoice[d].status
        /\ invoice'[d].reminderFee = 6000
    BY <1>1, <2>1 DEF InvoiceRow, REMINDER_FEE_ORE
  <2>3. RowsMatch(d)'
    BY <1>1, <2>1, <2>2 DEF RowsMatch, Rows, Issued, If, Posts, TransactionType, Entry,
                            IsOpen, OpenStatuses
  <2>4. NotesStaySent'
    <3>1. \A e \in Docs \ {d} : invoice'[e] = invoice[e]
      BY <2>1 DEF Same
    <3>2. QED
      BY <2>2, <3>1 DEF NotesStaySent
  <2>5. QED
    BY <1>1, <2>1, <2>3, <2>4, RowsMatchSame
<1>10. ASSUME NEW d \in Docs, MarkReminderSent(d, now)
       PROVE  NotesStaySent' /\ \A e \in Docs : RowsMatch(e)'
  <2>1. /\ \A e \in Docs \ {d} : Same(e)
        /\ invoice'[d] = [invoice[d] EXCEPT !.reminderSentAt = now]
        /\ PostsNothing(d)
    BY <1>1, <1>10, StampEffect
  <2>2. RowsMatch(d)'
    BY <1>1, <2>1 DEF RowsMatch, Rows, Issued, If, PostsNothing, TransactionType,
                      InvoiceRow
  <2>3. NotesStaySent'
    BY <1>1, <2>1 DEF NotesStaySent, Same, InvoiceRow
  <2>4. QED
    BY <1>1, <2>1, <2>2, <2>3, RowsMatchSame
<1>11. ASSUME NEW d \in Docs, NEW fee \in Nat, NEW increment \in Int,
              ApplyOverdueTx(d, fee, increment)
       PROVE  NotesStaySent' /\ \A e \in Docs : RowsMatch(e)'
  <2>1. /\ \A e \in Docs \ {d} : Same(e)
        /\ invoice'[d] = [invoice[d] EXCEPT !.status = "OVERDUE", !.lateFee = fee]
        /\ \A u \in TransactionType \ {"LATE_FEE_ADDED"} : ledger'[d][u] = ledger[d][u]
        /\ IsOpen(d)
    BY <1>1, <1>11, OverdueEffect DEF ApplyOverdueTx, Posts, PostsNothing
  <2>2. /\ invoice'[d].type = "INVOICE"
        /\ invoice'[d].status = "OVERDUE"
        /\ invoice'[d].reminderFee = invoice[d].reminderFee
    BY <1>1, <2>1 DEF InvoiceRow, IsOpen
  <2>3. RowsMatch(d)'
    BY <1>1, <2>1, <2>2 DEF RowsMatch, Rows, Issued, If, TransactionType, IsOpen,
                            OpenStatuses
  <2>4. NotesStaySent'
    <3>1. \A e \in Docs \ {d} : invoice'[e] = invoice[e]
      BY <2>1 DEF Same
    <3>2. QED
      BY <2>2, <3>1 DEF NotesStaySent
  <2>5. QED
    BY <1>1, <2>1, <2>3, <2>4, RowsMatchSame
<1>12. \A r \in Runners, d \in Docs : FeeAt(r, d) \in Nat /\ ChargeAt(r, d) \in Int
  BY RunAmounts
<1>13. \A e \in Events : payment[e] \in Payment => payment[e].amount \in Int
  BY DEF Payment
<1>14. QED
  BY <1>2, <1>3, <1>4, <1>5, <1>6, <1>7, <1>8, <1>9, <1>10, <1>11, <1>12, <1>13
     DEF StoreWrite

\* However the handlers interleave, an invoice is entered in the ledger once
\* when it was issued, paid once when PAID, credited once when CREDITED, and
\* never both; a reminder fee is entered once when the row shows one.
THEOREM LedgerRowsCorrect == Spec => []LedgerRowsMatchStatus
<1>1. TypeOK /\ RowsInv /\ [Next]_vars => RowsInv'
  BY RowsNext
<1>2. RowsInv => LedgerRowsMatchStatus
  BY DEF RowsInv
<1>3. QED
  BY RowsInit, <1>1, <1>2, TypeCorrect, PTL DEF Spec

-----------------------------------------------------------------------------
(* The number series                                                       *)

\* A step that gives no number out: the rows keep theirs, and no request
\* holds one that it did not hold before.
KeepsRows ==
    \A d \in Docs : /\ invoice'[d].number = invoice[d].number
                    /\ Numbered(d)' <=> Numbered(d)

KeepsHolders ==
    \A s \in Requests :
        Holding(s)' => Holding(s) /\ req'[s].number = req[s].number

\* A step that gives no number out, and moves none, reuses none.
LEMMA NumbersKept ==
    ASSUME NumbersNeverReused, KeepsRows, KeepsHolders, lastNumber' = lastNumber
    PROVE  NumbersNeverReused'
BY DEF NumbersNeverReused, KeepsRows, KeepsHolders

\* A transaction that writes one row without its number keeps all numbers.
LEMMA OneRowUpdated ==
    ASSUME NEW d \in Docs, \A e \in Docs \ {d} : Same(e),
           invoice'[d].number = invoice[d].number,
           Numbered(d)' <=> Numbered(d)
    PROVE  KeepsRows
BY DEF KeepsRows, Same, Numbered

\* The writes of the store that insert no row keep every number.
LEMMA UpdatesKeepRows ==
    ASSUME StoreTypeOK, NEW d \in Docs
    PROVE  /\ MarkSent(d) => KeepsRows
           /\ DeleteDraftInvoice(d) => KeepsRows
           /\ \A amount \in Int : MarkPaidWithin(d, amount) => KeepsRows
           /\ \A at \in Nat : ChargeReminderFee(d, at) => KeepsRows
           /\ \A at \in Nat : MarkReminderSent(d, at) => KeepsRows
           /\ \A fee \in Nat, amount \in Int :
                ApplyOverdueTx(d, fee, amount) => KeepsRows
<1>1. invoice[d] \in InvoiceRow
  BY DEF StoreTypeOK
<1>2. ASSUME MarkSent(d) PROVE KeepsRows
  <2>1. /\ \A e \in Docs \ {d} : Same(e)
        /\ invoice'[d] = [invoice[d] EXCEPT !.status = "SENT"]
        /\ invoice[d].status = "DRAFT"
    BY <1>2, SendEffect DEF MarkSent, IsDraft
  <2>2. invoice'[d].number = invoice[d].number /\ invoice'[d].status = "SENT"
    BY <1>1, <2>1 DEF InvoiceRow
  <2>3. QED
    BY <2>1, <2>2, OneRowUpdated DEF Numbered
<1>3. ASSUME DeleteDraftInvoice(d) PROVE KeepsRows
  <2>1. /\ \A e \in Docs \ {d} : Same(e)
        /\ invoice'[d] = [invoice[d] EXCEPT !.status = "DELETED"]
        /\ invoice[d].status = "DRAFT"
    BY <1>3, DeleteEffect DEF DeleteDraftInvoice, IsDraft
  <2>2. invoice'[d].number = invoice[d].number /\ invoice'[d].status = "DELETED"
    BY <1>1, <2>1 DEF InvoiceRow
  <2>3. QED
    BY <2>1, <2>2, OneRowUpdated DEF Numbered
<1>4. ASSUME NEW amount \in Int, MarkPaidWithin(d, amount) PROVE KeepsRows
  <2>1. /\ \A e \in Docs \ {d} : Same(e)
        /\ invoice'[d] = [invoice[d] EXCEPT !.status = "PAID"]
        /\ invoice[d].status # "ABSENT"
    BY <1>4, PayEffect DEF MarkPaidWithin, IsOpen, OpenStatuses
  <2>2. invoice'[d].number = invoice[d].number /\ invoice'[d].status = "PAID"
    BY <1>1, <2>1 DEF InvoiceRow
  <2>3. QED
    BY <2>1, <2>2, OneRowUpdated DEF Numbered
<1>5. ASSUME NEW at \in Nat, ChargeReminderFee(d, at) PROVE KeepsRows
  <2>1. /\ \A e \in Docs \ {d} : Same(e)
        /\ invoice'[d] = [invoice[d] EXCEPT !.reminderFee = REMINDER_FEE_ORE,
                                            !.reminderSentAt = at]
    BY <1>5, ChargeEffect
  <2>2. invoice'[d].number = invoice[d].number /\ invoice'[d].status = invoice[d].status
    BY <1>1, <2>1 DEF InvoiceRow
  <2>3. QED
    BY <2>1, <2>2, OneRowUpdated DEF Numbered
<1>6. ASSUME NEW at \in Nat, MarkReminderSent(d, at) PROVE KeepsRows
  <2>1. /\ \A e \in Docs \ {d} : Same(e)
        /\ invoice'[d] = [invoice[d] EXCEPT !.reminderSentAt = at]
    BY <1>6, StampEffect
  <2>2. invoice'[d].number = invoice[d].number /\ invoice'[d].status = invoice[d].status
    BY <1>1, <2>1 DEF InvoiceRow
  <2>3. QED
    BY <2>1, <2>2, OneRowUpdated DEF Numbered
<1>7. ASSUME NEW fee \in Nat, NEW amount \in Int, ApplyOverdueTx(d, fee, amount)
      PROVE  KeepsRows
  <2>1. /\ \A e \in Docs \ {d} : Same(e)
        /\ invoice'[d] = [invoice[d] EXCEPT !.status = "OVERDUE", !.lateFee = fee]
        /\ invoice[d].status # "ABSENT"
    BY <1>7, OverdueEffect DEF ApplyOverdueTx, IsOpen, OpenStatuses
  <2>2. invoice'[d].number = invoice[d].number /\ invoice'[d].status = "OVERDUE"
    BY <1>1, <2>1 DEF InvoiceRow
  <2>3. QED
    BY <2>1, <2>2, OneRowUpdated DEF Numbered
<1>8. QED
  BY <1>2, <1>3, <1>4, <1>5, <1>6, <1>7

\* NumbersNeverReused is inductive, with TypeOK: an allocated number counts as used.
LEMMA NumbersNext ==
    ASSUME TypeOK, NumbersNeverReused, [Next]_vars
    PROVE  NumbersNeverReused'
<1>1. /\ StoreTypeOK
      /\ lastNumber \in Nat
      /\ now \in Nat
      /\ req \in [Requests -> Request]
      /\ \A s \in Requests : req[s].step \in DocSteps => req[s].doc \in Docs
  BY DEF TypeOK, StoreTypeOK
<1>2. invoice' = invoice => KeepsRows
  BY DEF KeepsRows, Numbered
<1>3. req' = req => KeepsHolders
  BY DEF KeepsHolders, Holding
<1>4. \A s \in Requests : Finish(s) => KeepsHolders
  BY <1>1 DEF Finish, KeepsHolders, Holding, IdleRequest
<1>5. ASSUME NEW s \in Requests, AllocateForInvoice(s) \/ AllocateForCredit(s)
      PROVE  NumbersNeverReused'
  <2>1. /\ lastNumber' = lastNumber + 1
        /\ invoice' = invoice
        /\ req'[s].number = lastNumber + 1
        /\ \A t \in Requests \ {s} : req'[t] = req[t]
    BY <1>1, <1>5 DEF AllocateForInvoice, AllocateForCredit, AllocateInvoiceNumber,
                      NextNumber, IdleRequest, Request
  <2>2. /\ \A d \in Docs : Numbered(d)' => Numbered(d) /\ invoice'[d] = invoice[d]
        /\ \A t \in Requests \ {s} : Holding(t)' => Holding(t)
    BY <2>1 DEF Numbered, Holding
  <2>3. QED
    BY <1>1, <2>1, <2>2 DEF NumbersNeverReused
<1>6. ASSUME NEW s \in Requests, NEW d \in Docs, Holding(s), Finish(s),
             invoice[d].status = "ABSENT", Numbered(d)',
             invoice'[d].number = req[s].number,
             \A e \in Docs \ {d} : /\ invoice'[e].number = invoice[e].number
                                   /\ Numbered(e)' <=> Numbered(e),
             lastNumber' = lastNumber
      PROVE  NumbersNeverReused'
  <2>1. ~Holding(s)' /\ \A t \in Requests \ {s} : req'[t] = req[t] /\ (Holding(t)' <=> Holding(t))
    BY <1>1, <1>6 DEF Finish, Holding, IdleRequest
  <2>2. QED
    BY <1>6, <2>1 DEF NumbersNeverReused
<1>7. ASSUME NEW s \in Requests, InsertDraft(s)
      PROVE  NumbersNeverReused'
  <2>1. PICK d \in Docs, gross \in GrossTotals, due \in DueTimes :
            CreateInvoiceWithItems(d, req[s].number, gross, due)
    BY <1>7 DEF InsertDraft
  <2>3. /\ \A e \in Docs \ {d} : Same(e)
        /\ invoice[d].status = "ABSENT"
        /\ invoice'[d] = [NoRow EXCEPT !.status = "DRAFT", !.number = req[s].number,
                                       !.gross = gross, !.due = due]
    <3>1. CreateChanges(d, req[s].number, gross, due)
      BY <1>1, <2>1, CreateEffect
    <3>2. QED
      BY <3>1 DEF CreateChanges
  <2>4. invoice'[d].status = "DRAFT" /\ invoice'[d].number = req[s].number
    BY <2>3 DEF NoRow
  <2>5. \A e \in Docs \ {d} : /\ invoice'[e].number = invoice[e].number
                              /\ Numbered(e)' <=> Numbered(e)
    BY <2>3 DEF Same, Numbered
  <2>6. Holding(s) /\ Finish(s) /\ lastNumber' = lastNumber
    BY <1>7 DEF InsertDraft, At, Holding
  <2>7. Numbered(d)'
    BY <2>4 DEF Numbered
  <2>8. QED
    BY <1>6, <2>3, <2>4, <2>5, <2>6, <2>7
<1>8. ASSUME NEW s \in Requests, IssueCredit(s)
      PROVE  NumbersNeverReused'
  <2> DEFINE d == req[s].doc
  <2>1. /\ d \in Docs /\ req[s].number \in Nat
        /\ req[s].fees \in [lateFee: Nat, reminderFee: Nat]
    BY <1>1, <1>8 DEF IssueCredit, At, DocSteps, Request
  <2>2. ASSUME NEW note \in Docs,
               CreateCreditNote(d, note, req[s].number, req[s].fees, now)
        PROVE  NumbersNeverReused'
    <3>1. CreditChanges(d, note, req[s].number, req[s].fees, now)
      BY <1>1, <2>1, <2>2, CreditEffect
    <3>2. /\ d # note
          /\ invoice[note].status = "ABSENT"
          /\ invoice[d].status # "ABSENT"
          /\ invoice'[d].number = invoice[d].number
          /\ invoice'[d].status = "CREDITED"
          /\ invoice'[note].number = req[s].number
          /\ invoice'[note].status = "SENT"
          /\ \A e \in Docs \ {d, note} : invoice'[e] = invoice[e]
      <4>1. invoice[d] \in InvoiceRow /\ invoice[d].status # "ABSENT"
        BY <1>1, <2>1, <2>2 DEF StoreTypeOK, CreateCreditNote, IsOpen, OpenStatuses
      <4>2. /\ invoice'[d].number = invoice[d].number
            /\ invoice'[d].status = "CREDITED"
        BY <3>1, <4>1 DEF CreditChanges, InvoiceRow
      <4>3. /\ invoice'[note].number = req[s].number
            /\ invoice'[note].status = "SENT"
        BY <3>1 DEF CreditChanges, NoRow
      <4>4. QED
        BY <3>1, <4>1, <4>2, <4>3 DEF CreditChanges, Same
    <3>3. /\ Numbered(note)'
          /\ \A e \in Docs \ {note} : /\ invoice'[e].number = invoice[e].number
                                      /\ Numbered(e)' <=> Numbered(e)
      BY <2>1, <3>2 DEF Numbered
    <3>4. Holding(s) /\ Finish(s) /\ lastNumber' = lastNumber
      BY <1>8 DEF IssueCredit, At, Holding
    <3>5. QED
      BY <1>6, <3>2, <3>3, <3>4
  <2>3. CASE UNCHANGED invoice
    BY <1>2, <1>4, <1>8, <2>3, NumbersKept DEF IssueCredit
  <2>4. QED
    BY <1>8, <2>2, <2>3 DEF IssueCredit
<1>9. ASSUME NEW s \in Requests, AdminStep(s)
      PROVE  NumbersNeverReused'
  <2>1. CASE \E e \in Docs : \/ ReadToSend(s, e) \/ ReadToDelete(s, e)
                             \/ ReadToCredit(s, e) \/ ReadToRemind(s, e)
    <3>1. PICK e \in Docs, op \in AllOps,
               step \in {"markSent", "deleteDraft", "allocate", "charge"} :
            Begin(s, op, e, step)
      BY <2>1 DEF ReadToSend, ReadToDelete, ReadToCredit, ReadToRemind, AllOps
    <3>2. KeepsHolders
      BY <1>1, <3>1 DEF Begin, KeepsHolders, Holding, IdleRequest
    <3>3. QED
      BY <1>2, <3>1, <3>2, NumbersKept DEF Begin, storeVars
  <2>2. CASE Send(s) \/ Delete(s)
    <3>1. req[s].doc \in Docs
      BY <1>1, <2>2 DEF Send, Delete, At, DocSteps
    <3>2. KeepsRows
      BY <1>1, <1>2, <2>2, <3>1, UpdatesKeepRows DEF Send, Delete
    <3>3. QED
      BY <1>4, <2>2, <3>2, NumbersKept DEF Send, Delete
  <2>3. CASE ReadFees(s)
    <3>1. KeepsHolders
      BY <1>1, <2>3 DEF ReadFees, At, KeepsHolders, Holding, Request
    <3>2. QED
      BY <1>2, <2>3, <3>1, NumbersKept DEF ReadFees, storeVars
  <2>4. CASE ChargeReminder(s) \/ StampReminder(s)
    <3>1. req[s].doc \in Docs
      BY <1>1, <2>4 DEF ChargeReminder, StampReminder, At, DocSteps
    <3>2. KeepsRows
      BY <1>1, <1>2, <2>4, <3>1, UpdatesKeepRows DEF ChargeReminder, StampReminder
    <3>3. KeepsHolders
      BY <1>1, <1>4, <2>4
         DEF ChargeReminder, StampReminder, Goto, KeepsHolders, Holding, Request
    <3>4. QED
      BY <2>4, <3>2, <3>3, NumbersKept DEF ChargeReminder, StampReminder
  <2>5. QED
    BY <1>5, <1>7, <1>8, <1>9, <2>1, <2>2, <2>3, <2>4 DEF AdminStep
<1>10. ASSUME NEW s \in Requests, WebhookStep(s)
       PROVE  NumbersNeverReused'
  <2>1. CASE \E e \in Events : ReceiveEvent(s, e)
    <3>1. KeepsHolders
      BY <1>1, <2>1 DEF ReceiveEvent, KeepsHolders, Holding, IdleRequest
    <3>2. QED
      BY <1>2, <2>1, <3>1, NumbersKept DEF ReceiveEvent, storeVars
  <2>2. CASE ApplyEvent(s)
    <3> DEFINE e == req[s].event
               d == req[s].doc
    <3>1. d \in Docs /\ payment[e].amount \in Int
      BY <2>2, NullsAssumption DEF TypeOK, ApplyEvent, At, DocSteps, Payment, NoPayment
    <3>2. MarkPaidWithin(d, payment[e].amount) \/ UNCHANGED invoice
      BY <2>2 DEF ApplyEvent, ClaimEventAndRun
    <3>3. KeepsRows
      BY <1>1, <1>2, <3>1, <3>2, UpdatesKeepRows
    <3>4. QED
      BY <1>4, <2>2, <3>3, NumbersKept DEF ApplyEvent
  <2>3. QED
    BY <1>10, <2>1, <2>2 DEF WebhookStep
<1>11. ASSUME NEW r \in Runners, RunStep(r)
       PROVE  NumbersNeverReused'
  <2>1. CASE \/ \E at \in 1 .. now : StartRun(r, at)
             \/ \E d \in Docs : SkipOverdue(r, d)
             \/ ReportRun(r)
             \/ \E d \in Docs : EnqueueNotice(r, d)
    BY <1>2, <1>3, <2>1, NumbersKept
       DEF StartRun, SkipOverdue, ReportRun, EnqueueNotice, storeVars
  <2>2. ASSUME NEW d \in Docs, ApplyOverdue(r, d)
        PROVE  NumbersNeverReused'
    <3>1. ApplyOverdueTx(d, FeeAt(r, d), ChargeAt(r, d)) \/ UNCHANGED invoice
      BY <2>2 DEF ApplyOverdue, FeeAt, ChargeAt, OwedAt
    <3>2. FeeAt(r, d) \in Nat /\ ChargeAt(r, d) \in Int
      BY RunAmounts
    <3>3. KeepsRows
      BY <1>1, <1>2, <3>1, <3>2, UpdatesKeepRows
    <3>4. QED
      BY <1>3, <2>2, <3>3, NumbersKept DEF ApplyOverdue
  <2>3. QED
    BY <1>11, <2>1, <2>2 DEF RunStep
<1>12. CASE \/ \E s \in Requests : FailRequest(s)
            \/ \E r \in Runners : FailRun(r)
            \/ \E e \in Events, d \in Docs : CustomerPays(e, d)
            \/ Tick
            \/ UNCHANGED vars
  BY <1>2, <1>3, <1>4, <1>12, NumbersKept
     DEF FailRequest, FailRun, CustomerPays, Tick, vars, storeVars, serviceVars
<1>13. QED
  BY <1>9, <1>10, <1>11, <1>12 DEF Next

\* Numbers are allocated ahead of the rows that use them, in transactions of
\* their own; still no number is ever given out twice, nor again after its
\* draft was deleted.
THEOREM NumbersCorrect == Spec => []NumbersNeverReused
<1>1. Init => NumbersNeverReused
  BY DEF Init, StoreInit, NumbersNeverReused, Numbered, Holding, NoRow, IdleRequest
<1>2. TypeOK /\ NumbersNeverReused /\ [Next]_vars => NumbersNeverReused'
  BY NumbersNext
<1>3. QED
  BY <1>1, <1>2, TypeCorrect, PTL DEF Spec

-----------------------------------------------------------------------------
(* The transition table                                                    *)

\* What invoice e's status does in a step.
ObeysTable(e) ==
    Exists(e) /\ Exists(e)' /\ invoice'[e].status # invoice[e].status =>
        CanTransition(invoice[e].status, invoice'[e].status)

\* A document that a step does not touch obeys the table.
LEMMA SameObeysTable ==
    ASSUME NEW e \in Docs, Same(e)
    PROVE  ObeysTable(e)
BY DEF ObeysTable, Same

\* The entries of ALLOWED_TRANSITIONS that the handlers use.
LEMMA TableEntries ==
    /\ CanTransition("DRAFT", "SENT")
    /\ \A from \in OpenStatuses :
        /\ CanTransition(from, "PAID")
        /\ CanTransition(from, "CREDITED")
    /\ CanTransition("SENT", "OVERDUE")
BY DEF CanTransition, AllowedTransitions, InvoiceStatus, OpenStatuses

\* Each transaction changes a status by an entry of the table, or not at all.
LEMMA StatusStep ==
    ASSUME TypeOK, [Next]_vars
    PROVE  \A e \in Docs : ObeysTable(e)
<1>1. /\ StoreTypeOK
      /\ now \in Nat
      /\ \A d \in Docs : invoice[d] \in InvoiceRow
      /\ \A s \in Requests : req[s].number \in Nat
                             /\ req[s].fees \in [lateFee: Nat, reminderFee: Nat]
  BY DEF TypeOK, StoreTypeOK, Request
<1>2. CASE UNCHANGED <<invoice, ledger>>
  BY <1>2 DEF ObeysTable
<1>3. ASSUME NEW s \in Requests, NEW d \in Docs, NEW gross, NEW due,
             CreateInvoiceWithItems(d, req[s].number, gross, due)
      PROVE  \A e \in Docs : ObeysTable(e)
  <2>1. (\A e \in Docs \ {d} : Same(e)) /\ ~Exists(d)
    BY <1>1, <1>3, CreateEffect DEF CreateChanges, Exists, InvoiceStatus
  <2>2. QED
    BY <2>1, SameObeysTable DEF ObeysTable
<1>4. ASSUME NEW d \in Docs, MarkSent(d)
      PROVE  \A e \in Docs : ObeysTable(e)
  <2>1. /\ \A e \in Docs \ {d} : Same(e)
        /\ invoice[d].status = "DRAFT"
        /\ invoice'[d] = [invoice[d] EXCEPT !.status = "SENT"]
    BY <1>1, <1>4, SendEffect DEF MarkSent, IsDraft
  <2>2. invoice'[d].status = "SENT"
    BY <1>1, <2>1 DEF InvoiceRow
  <2>3. ObeysTable(d)
    BY <2>1, <2>2, TableEntries DEF ObeysTable
  <2>4. QED
    BY <2>1, <2>3, SameObeysTable
<1>5. ASSUME NEW d \in Docs, DeleteDraftInvoice(d)
      PROVE  \A e \in Docs : ObeysTable(e)
  <2>1. (\A e \in Docs \ {d} : Same(e)) /\ invoice'[d].status = "DELETED"
    BY <1>1, <1>5, DeleteEffect DEF InvoiceRow
  <2>2. ~Exists(d)'
    BY <2>1 DEF Exists, InvoiceStatus
  <2>3. QED
    BY <2>1, <2>2, SameObeysTable DEF ObeysTable
<1>6. ASSUME NEW d \in Docs, NEW amount \in Int, MarkPaidWithin(d, amount)
      PROVE  \A e \in Docs : ObeysTable(e)
  <2>1. /\ \A e \in Docs \ {d} : Same(e)
        /\ invoice[d].status \in OpenStatuses
        /\ invoice'[d] = [invoice[d] EXCEPT !.status = "PAID"]
    BY <1>1, <1>6, PayEffect DEF MarkPaidWithin, IsOpen
  <2>2. invoice'[d].status = "PAID"
    BY <1>1, <2>1 DEF InvoiceRow
  <2>3. ObeysTable(d)
    BY <2>1, <2>2, TableEntries DEF ObeysTable
  <2>4. QED
    BY <2>1, <2>3, SameObeysTable
<1>7. ASSUME NEW s \in Requests, NEW d \in Docs, NEW note \in Docs,
             CreateCreditNote(d, note, req[s].number, req[s].fees, now)
      PROVE  \A e \in Docs : ObeysTable(e)
  <2>1. CreditChanges(d, note, req[s].number, req[s].fees, now)
    BY <1>1, <1>7, CreditEffect
  <2>2. /\ \A e \in Docs \ {d, note} : Same(e)
        /\ ~Exists(note)
        /\ invoice[d].status \in OpenStatuses /\ invoice'[d].status = "CREDITED"
    <3>1. /\ \A e \in Docs \ {d, note} : Same(e)
          /\ invoice[note].status = "ABSENT"
          /\ invoice'[d] = [invoice[d] EXCEPT !.status = "CREDITED"]
      BY <2>1 DEF CreditChanges
    <3>2. invoice[d].status \in OpenStatuses
      BY <1>7 DEF CreateCreditNote, IsOpen
    <3>3. invoice'[d].status = "CREDITED"
      BY <1>1, <3>1 DEF InvoiceRow
    <3> QED BY <3>1, <3>2, <3>3 DEF Exists, InvoiceStatus
  <2>3. QED
    BY <2>2, SameObeysTable, TableEntries DEF ObeysTable
<1>8. ASSUME NEW d \in Docs, ChargeReminderFee(d, now) \/ MarkReminderSent(d, now)
      PROVE  \A e \in Docs : ObeysTable(e)
  <2>1. CASE ChargeReminderFee(d, now)
    <3>1. /\ \A e \in Docs \ {d} : Same(e)
          /\ invoice'[d] = [invoice[d] EXCEPT !.reminderFee = REMINDER_FEE_ORE,
                                              !.reminderSentAt = now]
      BY <1>1, <2>1, ChargeEffect
    <3>2. invoice'[d].status = invoice[d].status
      BY <1>1, <3>1 DEF InvoiceRow
    <3>3. QED
      BY <3>1, <3>2, SameObeysTable DEF ObeysTable
  <2>2. CASE MarkReminderSent(d, now)
    <3>1. (\A e \in Docs \ {d} : Same(e)) /\ invoice'[d].status = invoice[d].status
      BY <1>1, <2>2, StampEffect, ZenonT(40) DEF InvoiceRow
    <3>2. QED
      BY <3>1, SameObeysTable DEF ObeysTable
  <2>3. QED
    BY <1>8, <2>1, <2>2
<1>9. ASSUME NEW d \in Docs, NEW fee \in Nat, NEW increment \in Int,
             ApplyOverdueTx(d, fee, increment)
      PROVE  \A e \in Docs : ObeysTable(e)
  <2>1. /\ \A e \in Docs \ {d} : Same(e)
        /\ invoice'[d] = [invoice[d] EXCEPT !.status = "OVERDUE", !.lateFee = fee]
        /\ invoice[d].status \in {"SENT", "OVERDUE"}
    BY <1>1, <1>9, OverdueEffect DEF ApplyOverdueTx, IsOpen, OpenStatuses
  <2>2. invoice'[d].status = "OVERDUE"
    BY <1>1, <2>1 DEF InvoiceRow
  <2>3. ObeysTable(d)
    BY <2>1, <2>2, TableEntries DEF ObeysTable
  <2>4. QED
    BY <2>1, <2>3, SameObeysTable
<1>10. \A r \in Runners, d \in Docs : FeeAt(r, d) \in Nat /\ ChargeAt(r, d) \in Int
  BY RunAmounts
<1>11. \A e \in Events : payment[e] \in Payment => payment[e].amount \in Int
  BY DEF Payment
<1>12. QED
  BY <1>2, <1>3, <1>4, <1>5, <1>6, <1>7, <1>8, <1>9, <1>10, <1>11, StoreStep
     DEF StoreWrite

\* Only two of the six handlers consult ALLOWED_TRANSITIONS; the WHERE
\* clauses of the others keep to it all the same.
THEOREM TableObeyed == Spec => StatusFollowsTable
<1>1. TypeOK /\ [Next]_vars =>
        [\A d \in Docs :
            Exists(d) /\ Exists(d)' /\ invoice'[d].status # invoice[d].status =>
                CanTransition(invoice[d].status, invoice'[d].status)]_vars
  BY StatusStep DEF ObeysTable
<1>2. QED
  BY <1>1, TypeCorrect, PTL DEF Spec, StatusFollowsTable

-----------------------------------------------------------------------------
(* What a step does to one document, field by field                        *)

Drafts(d) ==
    /\ NewRow(d)
    /\ invoice'[d].status = "DRAFT"
    /\ invoice'[d].type = "INVOICE"
    /\ invoice'[d].gross \in Int \ {0}
    /\ invoice'[d].credits = {}

Issues(d) ==
    /\ Fixed(d) /\ FeesKept(d) /\ Moves(d, "DRAFT", "SENT")
    /\ Adds(d, "INVOICE_CREATED", invoice[d].gross)

Discards(d) ==
    Fixed(d) /\ FeesKept(d) /\ Moves(d, "DRAFT", "DELETED") /\ AddsNothing(d)

Pays(d) ==
    /\ Fixed(d) /\ FeesKept(d) /\ Closes(d, "PAID")
    /\ \E e \in Events : /\ payment[e] \in Payment /\ payment[e].doc = d
                         /\ e \notin processed /\ processed' = processed \cup {e}
                         /\ Adds(d, "PAYMENT_RECEIVED", payment[e].amount)

Charges(d) ==
    /\ Fixed(d) /\ IsOpen(d) /\ invoice[d].reminderFee = 0
    /\ invoice'[d].status = invoice[d].status
    /\ invoice'[d].lateFee = invoice[d].lateFee
    /\ invoice'[d].reminderFee = REMINDER_FEE_ORE
    /\ invoice'[d].reminderSentAt = now
    /\ Adds(d, "REMINDER_FEE_ADDED", REMINDER_FEE_ORE)

Stamps(d) ==
    /\ Fixed(d)
    /\ invoice'[d].status = invoice[d].status
    /\ invoice'[d].lateFee = invoice[d].lateFee
    /\ invoice'[d].reminderFee = invoice[d].reminderFee
    /\ invoice'[d].reminderSentAt = now
    /\ AddsNothing(d)
    /\ \E s \in Requests : At(s, "stamp") /\ req[s].doc = d

Accrues(d) ==
    /\ Fixed(d) /\ Closes(d, "OVERDUE")
    /\ invoice'[d].reminderFee = invoice[d].reminderFee
    /\ invoice'[d].reminderSentAt = invoice[d].reminderSentAt
    /\ \E r \in Runners :
        /\ run[r].step = "apply" /\ d \in run[r].todo /\ d \notin run'[r].todo
        /\ invoice'[d].lateFee = FeeAt(r, d)
        /\ IF ChargeAt(r, d) > 0 THEN Adds(d, "LATE_FEE_ADDED", ChargeAt(r, d))
                                 ELSE AddsNothing(d)

\* The waiver of a fee: no row for a fee of zero.
Waives(d, t, fee) ==
    /\ Sum(d, t)' = Sum(d, t) - fee
    /\ Rows(d, t)' = IF fee > 0 THEN Rows(d, t) + 1 ELSE Rows(d, t)

Credits(d, note) ==
    /\ d # note
    /\ Fixed(d) /\ FeesKept(d) /\ Closes(d, "CREDITED")
    /\ NewRow(note)
    /\ invoice'[note].status = "SENT"
    /\ invoice'[note].type = "CREDIT_NOTE"
    /\ invoice'[note].gross = -invoice[d].gross
    /\ invoice'[note].credits = {d}
    /\ Sum(d, "CREDIT_NOTE_ISSUED")' = Sum(d, "CREDIT_NOTE_ISSUED") - invoice[d].gross
    /\ Rows(d, "CREDIT_NOTE_ISSUED")' = Rows(d, "CREDIT_NOTE_ISSUED") + 1
    /\ \E s \in Requests :
        /\ At(s, "cancel") /\ req[s].doc = d
        /\ Waives(d, "LATE_FEE_WAIVED", req[s].fees.lateFee)
        /\ Waives(d, "REMINDER_FEE_WAIVED", req[s].fees.reminderFee)
    /\ \A u \in TransactionType \ {"CREDIT_NOTE_ISSUED", "LATE_FEE_WAIVED",
                                   "REMINDER_FEE_WAIVED"} :
            Sum(d, u)' = Sum(d, u) /\ Rows(d, u)' = Rows(d, u)

AloneSteps(d) ==
    \/ Drafts(d) \/ Issues(d) \/ Discards(d) \/ Pays(d)
    \/ Charges(d) \/ Stamps(d) \/ Accrues(d)

StoreEffect ==
    \/ UNCHANGED <<invoice, ledger>>
    \/ \E d \in Docs : AloneSteps(d) /\ \A e \in Docs \ {d} : Same(e)
    \/ \E d, note \in Docs : Credits(d, note) /\ \A e \in Docs \ {d, note} : Same(e)

\* Every step leaves the store alone or does one of these, to one document
\* or, a credit, to two.
LEMMA StepEffect ==
    ASSUME TypeOK, [Next]_vars
    PROVE  StoreEffect
<1>1. /\ StoreTypeOK
      /\ now \in Nat
      /\ \A d \in Docs : invoice[d] \in InvoiceRow
      /\ \A d \in Docs, u \in TransactionType : ledger[d][u] \in Entry
      /\ \A s \in Requests : req[s].number \in Nat
                             /\ req[s].fees \in [lateFee: Nat, reminderFee: Nat]
  BY DEF TypeOK, StoreTypeOK, Request
<1>2. ASSUME NEW s \in Requests, NEW d \in Docs, NEW gross \in Int \ {0},
             NEW due \in Nat, CreateInvoiceWithItems(d, req[s].number, gross, due)
      PROVE  StoreEffect
  <2>1. CreateChanges(d, req[s].number, gross, due)
    BY <1>1, <1>2, CreateEffect
  <2>2. Drafts(d)
    BY <1>1, <2>1, PostsAdds DEF CreateChanges, Drafts, NewRow, NoRow
  <2>3. QED
    BY <2>1, <2>2 DEF CreateChanges, StoreEffect, AloneSteps
<1>3. ASSUME NEW d \in Docs, MarkSent(d)
      PROVE  StoreEffect
  <2>1. /\ \A e \in Docs \ {d} : Same(e)
        /\ invoice[d].status = "DRAFT"
        /\ invoice'[d] = [invoice[d] EXCEPT !.status = "SENT"]
        /\ Posts(d, "INVOICE_CREATED", invoice[d].gross)
    BY <1>1, <1>3, SendEffect DEF MarkSent, IsDraft
  <2>2. Adds(d, "INVOICE_CREATED", invoice[d].gross)
    BY <1>1, <2>1, PostsAdds DEF InvoiceRow, TransactionType
  <2>3. Issues(d)
    BY <1>1, <2>1, <2>2 DEF Issues, Fixed, FeesKept, Moves, InvoiceRow
  <2>4. QED
    BY <2>1, <2>3 DEF StoreEffect, AloneSteps
<1>4. ASSUME NEW d \in Docs, DeleteDraftInvoice(d)
      PROVE  StoreEffect
  <2>1. /\ \A e \in Docs \ {d} : Same(e)
        /\ invoice[d].status = "DRAFT"
        /\ invoice'[d] = [invoice[d] EXCEPT !.status = "DELETED"]
        /\ PostsNothing(d)
    BY <1>1, <1>4, DeleteEffect DEF DeleteDraftInvoice, IsDraft
  <2>2. Discards(d)
    BY <1>1, <2>1, PostsAdds DEF Discards, Fixed, FeesKept, Moves, InvoiceRow
  <2>3. QED
    BY <2>1, <2>2 DEF StoreEffect, AloneSteps
<1>5. ASSUME NEW d \in Docs, NEW e \in Events, payment[e] \in Payment,
             payment[e].doc = d, e \notin processed, processed' = processed \cup {e},
             MarkPaidWithin(d, payment[e].amount)
      PROVE  StoreEffect
  <2>1. payment[e].amount \in Int
    BY <1>5 DEF Payment
  <2>2. /\ \A f \in Docs \ {d} : Same(f)
        /\ IsOpen(d)
        /\ invoice'[d] = [invoice[d] EXCEPT !.status = "PAID"]
        /\ Posts(d, "PAYMENT_RECEIVED", payment[e].amount)
    BY <1>1, <1>5, <2>1, PayEffect DEF MarkPaidWithin
  <2>3. Adds(d, "PAYMENT_RECEIVED", payment[e].amount)
    BY <2>1, <2>2, PostsAdds DEF TransactionType
  <2>4. Pays(d)
    <3>1. Fixed(d) /\ FeesKept(d) /\ Closes(d, "PAID")
      BY <1>1, <2>2 DEF Fixed, FeesKept, Closes, InvoiceRow
    <3>2. QED
      BY <1>5, <2>3, <3>1 DEF Pays
  <2>5. QED
    BY <2>2, <2>4 DEF StoreEffect, AloneSteps
<1>6. ASSUME NEW d \in Docs, ChargeReminderFee(d, now)
      PROVE  StoreEffect
  <2>1. /\ \A e \in Docs \ {d} : Same(e)
        /\ IsOpen(d) /\ invoice[d].reminderFee = 0
        /\ invoice'[d] = [invoice[d] EXCEPT !.reminderFee = REMINDER_FEE_ORE,
                                            !.reminderSentAt = now]
        /\ Posts(d, "REMINDER_FEE_ADDED", REMINDER_FEE_ORE)
    BY <1>1, <1>6, ChargeEffect DEF ChargeReminderFee, NotYetReminded
  <2>2. Adds(d, "REMINDER_FEE_ADDED", REMINDER_FEE_ORE)
    BY <2>1, PostsAdds DEF TransactionType, REMINDER_FEE_ORE
  <2>3. Charges(d)
    BY <1>1, <2>1, <2>2 DEF Charges, Fixed, InvoiceRow
  <2>4. QED
    BY <2>1, <2>3 DEF StoreEffect, AloneSteps
<1>7. ASSUME NEW s \in Requests, NEW d \in Docs, At(s, "stamp"), d = req[s].doc,
             MarkReminderSent(d, now)
      PROVE  StoreEffect
  <2>1. /\ \A e \in Docs \ {d} : Same(e)
        /\ invoice'[d] = [invoice[d] EXCEPT !.reminderSentAt = now]
        /\ PostsNothing(d)
    BY <1>1, <1>7, StampEffect
  <2>2. /\ Fixed(d)
        /\ invoice'[d].status = invoice[d].status
        /\ invoice'[d].lateFee = invoice[d].lateFee
        /\ invoice'[d].reminderFee = invoice[d].reminderFee
        /\ invoice'[d].reminderSentAt = now
    BY <1>1, <2>1 DEF Fixed, InvoiceRow
  <2>3. Stamps(d)
    BY <1>7, <2>1, <2>2, PostsAdds DEF Stamps
  <2>4. QED
    BY <2>1, <2>3 DEF StoreEffect, AloneSteps
<1>8. ASSUME NEW r \in Runners, NEW d \in Docs,
             run[r].step = "apply", d \in run[r].todo, d \notin run'[r].todo,
             ApplyOverdueTx(d, FeeAt(r, d), ChargeAt(r, d))
      PROVE  StoreEffect
  <2>1. FeeAt(r, d) \in Nat /\ ChargeAt(r, d) \in Int
    BY RunAmounts
  <2>2. /\ \A e \in Docs \ {d} : Same(e)
        /\ IsOpen(d)
        /\ invoice'[d] = [invoice[d] EXCEPT !.status = "OVERDUE", !.lateFee = FeeAt(r, d)]
        /\ IF ChargeAt(r, d) > 0 THEN Posts(d, "LATE_FEE_ADDED", ChargeAt(r, d))
                                 ELSE PostsNothing(d)
    BY <1>1, <1>8, <2>1, OverdueEffect DEF ApplyOverdueTx
  <2>3. /\ Fixed(d) /\ Closes(d, "OVERDUE")
        /\ invoice'[d].reminderFee = invoice[d].reminderFee
        /\ invoice'[d].reminderSentAt = invoice[d].reminderSentAt
        /\ invoice'[d].lateFee = FeeAt(r, d)
    BY <1>1, <2>2 DEF Fixed, Closes, InvoiceRow
  <2>4. IF ChargeAt(r, d) > 0 THEN Adds(d, "LATE_FEE_ADDED", ChargeAt(r, d))
                              ELSE AddsNothing(d)
    BY <2>1, <2>2, PostsAdds DEF TransactionType
  <2>5. Accrues(d)
    BY <1>8, <2>3, <2>4 DEF Accrues
  <2>6. QED
    BY <2>2, <2>5 DEF StoreEffect, AloneSteps
<1>9. ASSUME NEW s \in Requests, NEW d \in Docs, NEW note \in Docs,
             At(s, "cancel"), d = req[s].doc,
             CreateCreditNote(d, note, req[s].number, req[s].fees, now)
      PROVE  StoreEffect
  <2>1. CreditChanges(d, note, req[s].number, req[s].fees, now)
    BY <1>1, <1>9, CreditEffect
  <2>2. d # note /\ \A e \in Docs \ {d, note} : Same(e)
    BY <2>1 DEF CreditChanges
  <2>3. Fixed(d) /\ FeesKept(d) /\ Closes(d, "CREDITED")
    <3>1. invoice'[d] = [invoice[d] EXCEPT !.status = "CREDITED"] /\ IsOpen(d)
      BY <1>9, <2>1 DEF CreditChanges, CreateCreditNote
    <3>2. QED
      BY <1>1, <3>1 DEF Fixed, FeesKept, Closes, InvoiceRow
  <2>4. /\ NewRow(note)
        /\ invoice'[note].status = "SENT"
        /\ invoice'[note].type = "CREDIT_NOTE"
        /\ invoice'[note].gross = -invoice[d].gross
        /\ invoice'[note].credits = {d}
    BY <2>1, PostsAdds DEF CreditChanges, NewRow, NoRow
  <2>5. req[s].fees.lateFee \in Nat /\ req[s].fees.reminderFee \in Nat
    BY <1>1
  <2>6. /\ Sum(d, "CREDIT_NOTE_ISSUED")' = Sum(d, "CREDIT_NOTE_ISSUED") - invoice[d].gross
        /\ Rows(d, "CREDIT_NOTE_ISSUED")' = Rows(d, "CREDIT_NOTE_ISSUED") + 1
    BY <1>1, <2>1 DEF CreditChanges, Sum, Rows, Entry, TransactionType, InvoiceRow
  <2>7. Waives(d, "LATE_FEE_WAIVED", req[s].fees.lateFee)
    BY <1>1, <2>1, <2>5 DEF CreditChanges, Waives, Sum, Rows, Entry, TransactionType
  <2>8. Waives(d, "REMINDER_FEE_WAIVED", req[s].fees.reminderFee)
    BY <1>1, <2>1, <2>5 DEF CreditChanges, Waives, Sum, Rows, Entry, TransactionType
  <2>9. \A u \in TransactionType \ {"CREDIT_NOTE_ISSUED", "LATE_FEE_WAIVED",
                                    "REMINDER_FEE_WAIVED"} :
            Sum(d, u)' = Sum(d, u) /\ Rows(d, u)' = Rows(d, u)
    BY <2>1 DEF CreditChanges, Sum, Rows
  <2>10. Credits(d, note)
    BY <1>9, <2>2, <2>3, <2>4, <2>6, <2>7, <2>8, <2>9 DEF Credits
  <2>11. QED
    BY <2>2, <2>10 DEF StoreEffect
<1>10. CASE UNCHANGED <<invoice, ledger>>
  BY <1>10 DEF StoreEffect
<1>11. QED
  BY <1>2, <1>3, <1>4, <1>5, <1>6, <1>7, <1>8, <1>9, <1>10, StoreStep DEF StoreWrite

-----------------------------------------------------------------------------
(* What a step does to a request and to a run                              *)

\* A slot stays, ends, takes a number, begins on an invoice that exists, goes
\* on with its invoice, or reads the fees of its invoice.
SlotStep(s) ==
    \/ req'[s] = req[s]
    \/ req'[s].step \in {"idle", "insert"}
    \/ /\ req'[s].step \in DocSteps \ {"readFees", "cancel", "stamp"}
       /\ Exists(req'[s].doc)
    \/ /\ req[s].step \in DocSteps
       /\ req'[s].step \in DocSteps \ {"cancel"}
       /\ req'[s].doc = req[s].doc
    \/ /\ At(s, "readFees") /\ At(s, "cancel")'
       /\ req'[s].doc = req[s].doc
       /\ req'[s].fees = FeesOf(req[s].doc)
       /\ UNCHANGED <<invoice, ledger>>

\* Each step leaves a request alone, or moves it by one of the steps SlotStep lists.
LEMMA SlotEffect ==
    ASSUME TypeOK, [Next]_vars
    PROVE  \A s \in Requests : SlotStep(s)
<1>1. req \in [Requests -> Request]
  BY DEF TypeOK
<1>2. req' = req => \A t \in Requests : SlotStep(t)
  BY DEF SlotStep
<1>3. ASSUME NEW s \in Requests, Finish(s)
      PROVE  \A t \in Requests : SlotStep(t)
  BY <1>1, <1>3 DEF Finish, SlotStep, IdleRequest
<1>4. ASSUME NEW s \in Requests, NEW slot, req' = [req EXCEPT ![s] = slot]
      PROVE  req'[s] = slot /\ \A t \in Requests \ {s} : SlotStep(t)
  BY <1>1, <1>4 DEF SlotStep
<1>5. ASSUME NEW s \in Requests, AdminStep(s)
      PROVE  \A t \in Requests : SlotStep(t)
  <2>1. CASE AllocateForInvoice(s)
    BY <1>1, <2>1 DEF AllocateForInvoice, SlotStep, IdleRequest
  <2>2. CASE \E e \in Docs : \/ ReadToSend(s, e) \/ ReadToDelete(s, e)
                             \/ ReadToCredit(s, e) \/ ReadToRemind(s, e)
    <3>1. PICK e \in Docs, op \in AllOps,
               step \in DocSteps \ {"readFees", "cancel", "stamp"} :
            Begin(s, op, e, step) /\ Exists(e)
      BY <2>2 DEF ReadToSend, ReadToDelete, ReadToCredit, ReadToRemind, AllOps, DocSteps,
                  IsDraft, IsOpen, OpenStatuses, Exists, InvoiceStatus
    <3>2. req' = [req EXCEPT ![s] = [IdleRequest EXCEPT !.step = step, !.doc = e]]
      BY <3>1 DEF Begin
    <3>3. req'[s].step = step /\ req'[s].doc = e
      BY <1>1, <3>2 DEF IdleRequest
    <3>4. SlotStep(s)
      BY <3>1, <3>3 DEF SlotStep
    <3>5. QED
      BY <1>4, <3>2, <3>4
  <2>3. CASE AllocateForCredit(s)
    <3>1. /\ req[s].step = "allocate"
          /\ req' = [req EXCEPT ![s] = [req[s] EXCEPT !.step = "readFees", !.number = NextNumber]]
      BY <2>3 DEF AllocateForCredit, At
    <3>2. req'[s].step = "readFees" /\ req'[s].doc = req[s].doc
      BY <1>1, <3>1 DEF Request
    <3>3. SlotStep(s)
      BY <3>1, <3>2 DEF SlotStep, DocSteps
    <3>4. QED
      BY <1>4, <3>1, <3>3
  <2>4. CASE ReadFees(s)
    <3>1. /\ At(s, "readFees")
          /\ req' = [req EXCEPT ![s] = [req[s] EXCEPT !.step = "cancel",
                                                      !.fees = FeesOf(req[s].doc)]]
          /\ UNCHANGED <<invoice, ledger>>
      BY <2>4 DEF ReadFees, storeVars
    <3>2. /\ req'[s].step = "cancel" /\ req'[s].doc = req[s].doc
          /\ req'[s].fees = FeesOf(req[s].doc)
      BY <1>1, <3>1 DEF Request
    <3>3. SlotStep(s)
      BY <3>1, <3>2 DEF SlotStep, At
    <3>4. QED
      BY <1>4, <3>1, <3>3
  <2>5. CASE ChargeReminder(s)
    <3>1. CASE Goto(s, "stamp")
      <4>1. /\ req[s].step = "charge"
            /\ req' = [req EXCEPT ![s] = [req[s] EXCEPT !.step = "stamp"]]
        BY <2>5, <3>1 DEF ChargeReminder, At, Goto
      <4>2. req'[s].step = "stamp" /\ req'[s].doc = req[s].doc
        BY <1>1, <4>1 DEF Request
      <4>3. SlotStep(s)
        BY <4>1, <4>2 DEF SlotStep, DocSteps
      <4>4. QED
        BY <1>4, <4>1, <4>3
    <3>2. QED
      BY <1>3, <2>5, <3>1 DEF ChargeReminder
  <2>6. QED
    BY <1>3, <1>5, <2>1, <2>2, <2>3, <2>4, <2>5
       DEF AdminStep, InsertDraft, Send, Delete, IssueCredit, StampReminder
<1>6. ASSUME NEW s \in Requests, NEW e \in Events, ReceiveEvent(s, e)
      PROVE  \A t \in Requests : SlotStep(t)
  <2>1. /\ req' = [req EXCEPT ![s] = [IdleRequest EXCEPT
                        !.step = "claim", !.doc = payment[e].doc, !.event = e]]
        /\ Exists(payment[e].doc)
    BY <1>6 DEF ReceiveEvent
  <2>2. req'[s].step = "claim" /\ req'[s].doc = payment[e].doc
    BY <1>1, <2>1 DEF IdleRequest
  <2>3. SlotStep(s)
    BY <2>1, <2>2 DEF SlotStep, DocSteps
  <2>4. QED
    BY <1>4, <2>1, <2>3
<1>7. CASE \/ \E s \in Requests : ApplyEvent(s) \/ FailRequest(s)
           \/ \E e \in Events, d \in Docs : CustomerPays(e, d)
           \/ \E r \in Runners : RunStep(r) \/ FailRun(r)
           \/ Tick
           \/ UNCHANGED vars
  <2>1. ASSUME NEW s \in Requests, ApplyEvent(s) \/ FailRequest(s)
        PROVE  \A t \in Requests : SlotStep(t)
    BY <1>2, <1>3, <2>1 DEF ApplyEvent, FailRequest
  <2>2. ASSUME NEW r \in Runners, RunStep(r) \/ FailRun(r)
        PROVE  UNCHANGED req
    BY <2>2 DEF RunStep, StartRun, ApplyOverdue, SkipOverdue, ReportRun, EnqueueNotice,
                FailRun
  <2>3. (\E e \in Events, d \in Docs : CustomerPays(e, d)) \/ Tick \/ UNCHANGED vars
            => UNCHANGED req
    BY DEF CustomerPays, Tick, vars, serviceVars
  <2>4. QED
    BY <1>2, <1>7, <2>1, <2>2, <2>3
<1>8. QED
  BY <1>5, <1>6, <1>7 DEF Next, WebhookStep

\* A candidate a run still has to do was read before this step or is read in
\* it, as it is.
Reads(r, d) ==
    \/ /\ run[r].step = "apply" /\ d \in run[r].todo
       /\ run'[r].lateFee = run[r].lateFee
       /\ run'[r].at = run[r].at
    \/ /\ UNCHANGED <<invoice, ledger>>
       /\ IsOpen(d)
       /\ run'[r].lateFee[d] = invoice[d].lateFee
       /\ run'[r].at \in 1 .. now

CandidateStep(r) ==
    run'[r].step = "apply" => \A d \in run'[r].todo : Reads(r, d)

\* Time does not go back, and a run only starts afresh or takes a candidate away.
LEMMA RunEffect ==
    ASSUME TypeOK, [Next]_vars
    PROVE  now' \in Nat /\ now' >= now /\ \A r \in Runners : CandidateStep(r)
<1>1. run \in [Runners -> Run] /\ now \in Nat
  BY DEF TypeOK
<1>2. run' = run => \A r \in Runners : CandidateStep(r)
  BY DEF CandidateStep, Reads
<1>3. ASSUME NEW r \in Runners, NEW slot, run' = [run EXCEPT ![r] = slot]
      PROVE  run'[r] = slot /\ \A q \in Runners \ {r} : CandidateStep(q)
  BY <1>1, <1>3 DEF CandidateStep, Reads
<1>4. ASSUME NEW r \in Runners, RunStep(r)
      PROVE  \A q \in Runners : CandidateStep(q)
  <2>1. ASSUME NEW at \in 1 .. now, StartRun(r, at)
        PROVE  \A q \in Runners : CandidateStep(q)
    <3> DEFINE candidates == {d \in Docs : Candidate(d, at)}
               fees == [d \in Docs |->
                            IF d \in candidates THEN invoice[d].lateFee ELSE 0]
    <3>1. /\ run' = [run EXCEPT ![r] =
                        [step |-> "apply", at |-> at, todo |-> candidates,
                         fresh |-> {d \in candidates : invoice[d].status = "SENT"},
                         lateFee |-> fees, notify |-> {}]]
          /\ UNCHANGED <<invoice, ledger>>
      BY <2>1 DEF StartRun, storeVars
    <3>2. run'[r].todo = candidates /\ run'[r].lateFee = fees /\ run'[r].at = at
      BY <1>1, <3>1
    <3>3. \A d \in candidates : IsOpen(d) /\ fees[d] = invoice[d].lateFee
      BY DEF Candidate
    <3> HIDE DEF candidates, fees
    <3>4. CandidateStep(r)
      BY <3>1, <3>2, <3>3 DEF CandidateStep, Reads
    <3>5. QED
      BY <1>3, <3>1, <3>4
  <2>2. ASSUME NEW d \in Docs, ApplyOverdue(r, d) \/ SkipOverdue(r, d)
        PROVE  \A q \in Runners : CandidateStep(q)
    <3>1. /\ run[r].step = "apply"
          /\ \A q \in Runners \ {r} : run'[q] = run[q]
          /\ run'[r].todo = run[r].todo \ {d}
          /\ run'[r].lateFee = run[r].lateFee
          /\ run'[r].at = run[r].at
      BY <1>1, <2>2 DEF ApplyOverdue, SkipOverdue, Run
    <3>2. QED
      BY <3>1 DEF CandidateStep, Reads
  <2>3. CASE ReportRun(r)
    BY <1>1, <2>3 DEF ReportRun, CandidateStep, Reads, IdleRun
  <2>4. ASSUME NEW d \in Docs, EnqueueNotice(r, d)
        PROVE  \A q \in Runners : CandidateStep(q)
    <3>1. /\ run'[r].step # "apply"
          /\ \A q \in Runners \ {r} : run'[q] = run[q]
      BY <1>1, <2>4 DEF EnqueueNotice, IdleRun, Run
    <3>2. QED
      BY <3>1 DEF CandidateStep, Reads
  <2>5. QED
    BY <1>4, <2>1, <2>2, <2>3, <2>4 DEF RunStep
<1>5. ASSUME NEW r \in Runners, FailRun(r)
      PROVE  \A q \in Runners : CandidateStep(q)
  BY <1>1, <1>5 DEF FailRun, CandidateStep, Reads, IdleRun
<1>6. \A s \in Requests : AdminStep(s) \/ WebhookStep(s) \/ FailRequest(s) =>
        run' = run /\ now' = now
  <2>1. \A s \in Requests : AdminStep(s) => run' = run /\ now' = now
    BY DEF AdminStep, AllocateForInvoice, InsertDraft, ReadToSend, ReadToDelete,
           ReadToCredit, ReadToRemind, Begin, Send, Delete, AllocateForCredit,
           ReadFees, IssueCredit, ChargeReminder, StampReminder
  <2>2. \A s \in Requests : WebhookStep(s) \/ FailRequest(s) => run' = run /\ now' = now
    BY DEF WebhookStep, FailRequest, ReceiveEvent, ApplyEvent
  <2>3. QED
    BY <2>1, <2>2
<1>7. \A e \in Events, d \in Docs : CustomerPays(e, d) => run' = run /\ now' = now
  BY DEF CustomerPays
<1>8. Tick \/ UNCHANGED vars => run' = run /\ now' \in Nat /\ now' >= now
  BY <1>1 DEF Tick, vars, serviceVars
<1>9. \A r \in Runners : RunStep(r) \/ FailRun(r) => now' = now
  BY ZenonT(40)
     DEF RunStep, StartRun, ApplyOverdue, SkipOverdue, ReportRun, EnqueueNotice, FailRun
<1>10. QED
  BY <1>1, <1>2, <1>4, <1>5, <1>6, <1>7, <1>8, <1>9 DEF Next

-----------------------------------------------------------------------------
(* What the ledger says and what the row says                              *)

\* One document's figures: a sum needs rows, the gross and the reminder fee
\* are posted as they stand in the row, the interest in the row is covered
\* by what was posted, a waiver is covered by what it waives, and no invoice
\* is over nothing.
Explained(d) ==
    /\ \A t \in TransactionType : Rows(d, t) = 0 => Sum(d, t) = 0
    /\ Issued(d) => Sum(d, "INVOICE_CREATED") = invoice[d].gross
    /\ Sum(d, "REMINDER_FEE_ADDED") = invoice[d].reminderFee
    /\ invoice[d].lateFee <= Sum(d, "LATE_FEE_ADDED")
    /\ -Sum(d, "LATE_FEE_WAIVED") \in 0 .. Sum(d, "LATE_FEE_ADDED")
    /\ -Sum(d, "REMINDER_FEE_WAIVED") \in 0 .. Sum(d, "REMINDER_FEE_ADDED")
    /\ invoice[d].status = "CREDITED" =>
            Sum(d, "CREDIT_NOTE_ISSUED") = -invoice[d].gross
    /\ invoice[d].type = "INVOICE" /\ Numbered(d) => invoice[d].gross # 0

\* What a handler has read of the fees, and has not used yet, is covered by
\* what the ledger says by now.
FeesReadCovered(s) ==
    At(s, "cancel") =>
        /\ req[s].fees.lateFee <= Sum(req[s].doc, "LATE_FEE_ADDED")
        /\ req[s].fees.reminderFee <= Sum(req[s].doc, "REMINDER_FEE_ADDED")

RunReadCovered(r) ==
    run[r].step = "apply" =>
        \A d \in run[r].todo : run[r].lateFee[d] <= Sum(d, "LATE_FEE_ADDED")

BookInv ==
    /\ \A d \in Docs : Explained(d)
    /\ \A s \in Requests : FeesReadCovered(s)
    /\ \A r \in Runners : RunReadCovered(r)

\* The types of what the steps of this section compute with.
LEMMA Figures ==
    ASSUME TypeOK
    PROVE  /\ \A d \in Docs :
                /\ invoice[d] \in InvoiceRow
                /\ invoice[d].gross \in Int /\ invoice[d].due \in Nat
                /\ invoice[d].lateFee \in Nat /\ invoice[d].reminderFee \in Nat
                /\ \A t \in TransactionType : Sum(d, t) \in Int /\ Rows(d, t) \in Nat
           /\ \A s \in Requests :
                /\ req[s].step \in DocSteps => req[s].doc \in Docs
                /\ req[s].fees.lateFee \in Nat /\ req[s].fees.reminderFee \in Nat
           /\ \A r \in Runners :
                /\ run[r].todo \subseteq Docs /\ run[r].at \in Nat
                /\ \A d \in Docs : run[r].lateFee[d] \in Nat
           /\ \A e \in Events : payment[e] \in Payment =>
                payment[e].doc \in Docs /\ payment[e].amount \in Int
<1>1. \A d \in Docs : invoice[d] \in InvoiceRow
                      /\ \A t \in TransactionType : ledger[d][t] \in Entry
  BY DEF TypeOK, StoreTypeOK
<1>2. \A s \in Requests : req[s] \in Request
  BY DEF TypeOK
<1>3. \A r \in Runners : run[r] \in Run
  BY DEF TypeOK
<1>4. QED
  BY <1>1, <1>2, <1>3
     DEF TypeOK, InvoiceRow, Entry, Sum, Rows, Request, Run, Payment

\* At first nothing is posted, so every figure is explained.
LEMMA BookInit == Init => BookInv
<1> SUFFICES ASSUME Init PROVE BookInv
  OBVIOUS
<1>1. \A d \in Docs : invoice[d] = NoRow
  BY DEF Init, StoreInit
<1>2. \A d \in Docs, u \in TransactionType : ledger[d][u] = [rows |-> 0, sum |-> 0]
  BY DEF Init, StoreInit
<1>3. \A d \in Docs : Explained(d)
  BY <1>1, <1>2 DEF Explained, Issued, Numbered, Rows, Sum, NoRow, TransactionType
<1>4. /\ \A s \in Requests : req[s].step = "idle"
      /\ \A r \in Runners : run[r].step = "idle"
  BY DEF Init, IdleRequest, IdleRun
<1>5. QED
  BY <1>3, <1>4 DEF BookInv, FeesReadCovered, RunReadCovered, At

\* A document that a step does not touch stays explained.
LEMMA ExplainedSame ==
    ASSUME NEW d \in Docs, Explained(d), Same(d)
    PROVE  Explained(d)'
<1>1. \A u \in TransactionType : Rows(d, u)' = Rows(d, u) /\ Sum(d, u)' = Sum(d, u)
  BY DEF Same, Rows, Sum
<1>2. invoice'[d] = invoice[d]
  BY DEF Same
<1>3. QED
  BY <1>1, <1>2 DEF Explained, Issued, Numbered, TransactionType

\* Nothing is waived of an invoice that is open.
LEMMA OpenUnwaived ==
    ASSUME TypeOK, RowsInv, BookInv, NEW d \in Docs, IsOpen(d)
    PROVE  /\ Issued(d)
           /\ \A t \in {"PAYMENT_RECEIVED", "CREDIT_NOTE_ISSUED", "LATE_FEE_WAIVED",
                        "REMINDER_FEE_WAIVED"} : Rows(d, t) = 0 /\ Sum(d, t) = 0
<1>1. /\ RowsMatch(d) /\ Explained(d)
      /\ \A t \in TransactionType : Rows(d, t) \in Nat
  BY Figures DEF RowsInv, LedgerRowsMatchStatus, BookInv
<1>2. Issued(d) /\ invoice[d].status \notin {"PAID", "CREDITED"}
  BY DEF IsOpen, Issued, OpenStatuses
<1>3. \A t \in {"PAYMENT_RECEIVED", "CREDIT_NOTE_ISSUED", "LATE_FEE_WAIVED",
                "REMINDER_FEE_WAIVED"} : Rows(d, t) = 0 /\ t \in TransactionType
  BY <1>1, <1>2 DEF RowsMatch, If, TransactionType
<1>4. QED
  BY <1>1, <1>2, <1>3 DEF Explained

\* A document that was never issued has no rows, and one whose row is to be
\* made has no fees either.
LEMMA UnissuedRowless ==
    ASSUME TypeOK, RowsInv, BookInv, NEW d \in Docs, ~Issued(d)
    PROVE  /\ \A t \in TransactionType : Rows(d, t) = 0 /\ Sum(d, t) = 0
           /\ invoice[d].reminderFee = 0 /\ invoice[d].lateFee = 0
<1>1. /\ RowsMatch(d) /\ Explained(d)
      /\ \A t \in TransactionType : Rows(d, t) \in Nat
      /\ invoice[d].lateFee \in Nat
  BY Figures DEF RowsInv, LedgerRowsMatchStatus, BookInv
<1>2. invoice[d].reminderFee = 0
  BY <1>1 DEF RowsMatch
<1>3. \A t \in TransactionType : Rows(d, t) = 0
  BY <1>1, <1>2 DEF RowsMatch, If, TransactionType
<1>4. \A t \in TransactionType : Sum(d, t) = 0
  BY <1>1, <1>3 DEF Explained
<1>5. invoice[d].lateFee <= 0
  BY <1>1, <1>4 DEF Explained, TransactionType
<1>6. QED
  BY <1>1, <1>2, <1>3, <1>4, <1>5

\* The figures add up after each of the steps that touch one document.
LEMMA ExplainedAlone ==
    ASSUME TypeOK, RowsInv, BookInv, NEW d \in Docs, AloneSteps(d)
    PROVE  Explained(d)'
<1>1. /\ Explained(d) /\ RowsMatch(d)
      /\ invoice[d].type = "CREDIT_NOTE" => invoice[d].status = "SENT"
      /\ invoice[d].gross \in Int
      /\ invoice[d].lateFee \in Nat /\ invoice[d].reminderFee \in Nat
      /\ \A t \in TransactionType : Sum(d, t) \in Int /\ Rows(d, t) \in Nat
  BY Figures DEF BookInv, RowsInv, LedgerRowsMatchStatus, NotesStaySent
<1>2. CASE Drafts(d)
  <2>1. ~Issued(d)
    BY <1>2 DEF Drafts, NewRow, Issued
  <2>2. \A t \in TransactionType : Rows(d, t)' = 0 /\ Sum(d, t)' = 0
    BY <1>2, <2>1, UnissuedRowless DEF Drafts, NewRow, AddsNothing
  <2>3. /\ invoice'[d].status = "DRAFT" /\ invoice'[d].gross # 0
        /\ invoice'[d].lateFee = 0 /\ invoice'[d].reminderFee = 0
    BY <1>2 DEF Drafts, NewRow
  <2>4. QED
    BY <2>2, <2>3 DEF Explained, Issued, TransactionType
<1>3. CASE Issues(d)
  <2>1. invoice[d].type = "INVOICE" /\ ~Issued(d) /\ invoice[d].gross # 0
    BY <1>1, <1>3 DEF Issues, Moves, Issued, InvoiceRow, Explained, Numbered,
                      TypeOK, StoreTypeOK
  <2>2. \A t \in TransactionType :
            /\ Rows(d, t)' = IF t = "INVOICE_CREATED" THEN 1 ELSE 0
            /\ Sum(d, t)' = IF t = "INVOICE_CREATED" THEN invoice[d].gross ELSE 0
    BY <1>1, <1>3, <2>1, UnissuedRowless DEF Issues, Adds
  <2>3. /\ invoice'[d].gross = invoice[d].gross /\ invoice'[d].status = "SENT"
        /\ invoice'[d].lateFee = 0 /\ invoice'[d].reminderFee = 0
    BY <1>3, <2>1, UnissuedRowless DEF Issues, Fixed, FeesKept, Moves
  <2>4. QED
    BY <2>1, <2>2, <2>3 DEF Explained, Issued, TransactionType
<1>4. CASE Discards(d)
  <2>1. /\ \A t \in TransactionType : Rows(d, t)' = Rows(d, t) /\ Sum(d, t)' = Sum(d, t)
        /\ Fixed(d) /\ FeesKept(d)
        /\ invoice[d].status = "DRAFT" /\ invoice'[d].status = "DELETED"
    BY <1>4 DEF Discards, AddsNothing, Moves
  <2>2. QED
    BY <1>1, <2>1 DEF Explained, Issued, Numbered, Fixed, FeesKept, TransactionType
<1>5. CASE Pays(d)
  <2>1. PICK e \in Events : payment[e] \in Payment
                            /\ Adds(d, "PAYMENT_RECEIVED", payment[e].amount)
    BY <1>5 DEF Pays
  <2>2. \A t \in TransactionType \ {"PAYMENT_RECEIVED"} :
            Rows(d, t)' = Rows(d, t) /\ Sum(d, t)' = Sum(d, t)
    BY <2>1 DEF Adds
  <2>3. Rows(d, "PAYMENT_RECEIVED")' # 0
    BY <1>1, <2>1 DEF Adds, TransactionType
  <2>4. /\ Fixed(d) /\ FeesKept(d) /\ Issued(d) /\ invoice'[d].status = "PAID"
    BY <1>5 DEF Pays, Closes, IsOpen, OpenStatuses, Issued
  <2>5. QED
    BY <1>1, <2>2, <2>3, <2>4
       DEF Explained, Issued, Numbered, Fixed, FeesKept, TransactionType
<1>6. CASE Charges(d)
  <2>1. \A t \in TransactionType :
            /\ Sum(d, t)' = IF t = "REMINDER_FEE_ADDED" THEN Sum(d, t) + 6000 ELSE Sum(d, t)
            /\ Rows(d, t)' = IF t = "REMINDER_FEE_ADDED" THEN Rows(d, t) + 1 ELSE Rows(d, t)
    BY <1>6 DEF Charges, Adds, REMINDER_FEE_ORE
  <2>2. /\ Fixed(d) /\ invoice'[d].status = invoice[d].status
        /\ invoice'[d].lateFee = invoice[d].lateFee
        /\ invoice[d].reminderFee = 0 /\ invoice'[d].reminderFee = 6000
    BY <1>6 DEF Charges, REMINDER_FEE_ORE
  <2>3. QED
    BY <1>1, <2>1, <2>2 DEF Explained, Issued, Numbered, Fixed, TransactionType
<1>7. CASE Stamps(d)
  <2>1. /\ \A t \in TransactionType : Rows(d, t)' = Rows(d, t) /\ Sum(d, t)' = Sum(d, t)
        /\ Fixed(d) /\ invoice'[d].status = invoice[d].status
        /\ invoice'[d].lateFee = invoice[d].lateFee
        /\ invoice'[d].reminderFee = invoice[d].reminderFee
    BY <1>7 DEF Stamps, AddsNothing
  <2>2. QED
    BY <1>1, <2>1 DEF Explained, Issued, Numbered, Fixed, TransactionType
<1>8. CASE Accrues(d)
  <2>1. PICK r \in Runners :
            /\ run[r].step = "apply" /\ d \in run[r].todo
            /\ invoice'[d].lateFee = FeeAt(r, d)
            /\ IF ChargeAt(r, d) > 0 THEN Adds(d, "LATE_FEE_ADDED", ChargeAt(r, d))
                                     ELSE AddsNothing(d)
    BY <1>8 DEF Accrues
  <2>2. /\ Fixed(d) /\ Issued(d) /\ invoice'[d].status = "OVERDUE"
        /\ invoice'[d].reminderFee = invoice[d].reminderFee
    BY <1>8 DEF Accrues, Closes, IsOpen, OpenStatuses, Issued
  <2>3. /\ run[r].lateFee[d] \in Nat /\ OwedAt(r, d) \in Nat
        /\ run[r].lateFee[d] <= Sum(d, "LATE_FEE_ADDED")
    BY <2>1, RunAmounts, Figures DEF BookInv, RunReadCovered
  <2>4. /\ \A t \in TransactionType \ {"LATE_FEE_ADDED"} :
                Rows(d, t)' = Rows(d, t) /\ Sum(d, t)' = Sum(d, t)
        /\ \/ /\ ChargeAt(r, d) > 0
              /\ Sum(d, "LATE_FEE_ADDED")' = Sum(d, "LATE_FEE_ADDED") + ChargeAt(r, d)
              /\ Rows(d, "LATE_FEE_ADDED")' = Rows(d, "LATE_FEE_ADDED") + 1
           \/ /\ ~(ChargeAt(r, d) > 0)
              /\ Sum(d, "LATE_FEE_ADDED")' = Sum(d, "LATE_FEE_ADDED")
              /\ Rows(d, "LATE_FEE_ADDED")' = Rows(d, "LATE_FEE_ADDED")
    BY <2>1 DEF Adds, AddsNothing, TransactionType
  <2>5. /\ invoice'[d].lateFee <= Sum(d, "LATE_FEE_ADDED")'
        /\ Sum(d, "LATE_FEE_ADDED") <= Sum(d, "LATE_FEE_ADDED")'
        /\ Sum(d, "LATE_FEE_ADDED")' \in Int
        /\ Rows(d, "LATE_FEE_ADDED")' = 0 => Sum(d, "LATE_FEE_ADDED")' = 0
    <3>1. /\ Sum(d, "LATE_FEE_ADDED") \in Int /\ Rows(d, "LATE_FEE_ADDED") \in Nat
          /\ Rows(d, "LATE_FEE_ADDED") = 0 => Sum(d, "LATE_FEE_ADDED") = 0
      BY <1>1 DEF TransactionType, Explained
    <3>2. /\ ChargeAt(r, d) = OwedAt(r, d) - run[r].lateFee[d]
          /\ FeeAt(r, d) = IF OwedAt(r, d) > run[r].lateFee[d] THEN OwedAt(r, d)
                                                               ELSE run[r].lateFee[d]
      BY DEF ChargeAt, FeeAt, Increment, NewLateFee
    <3>3. QED
      BY <2>1, <2>3, <2>4, <3>1, <3>2
  <2>6. QED
    BY <1>1, <2>2, <2>4, <2>5 DEF Explained, Issued, Numbered, Fixed, TransactionType
<1>9. QED
  BY <1>2, <1>3, <1>4, <1>5, <1>6, <1>7, <1>8 DEF AloneSteps

\* A credit writes off the gross and what it has read of the fees.
LEMMA ExplainedCredit ==
    ASSUME TypeOK, RowsInv, BookInv, NEW d \in Docs, NEW note \in Docs,
           Credits(d, note)
    PROVE  Explained(d)' /\ Explained(note)'
<1>1. PICK s \in Requests :
        /\ At(s, "cancel") /\ req[s].doc = d
        /\ Waives(d, "LATE_FEE_WAIVED", req[s].fees.lateFee)
        /\ Waives(d, "REMINDER_FEE_WAIVED", req[s].fees.reminderFee)
  BY DEF Credits
<1>2. /\ Explained(d)
      /\ invoice[d].gross \in Int /\ invoice[d].lateFee \in Nat
      /\ \A t \in TransactionType : Sum(d, t) \in Int /\ Rows(d, t) \in Nat
      /\ req[s].fees.lateFee \in 0 .. Sum(d, "LATE_FEE_ADDED")
      /\ req[s].fees.reminderFee \in 0 .. Sum(d, "REMINDER_FEE_ADDED")
  BY <1>1, Figures DEF BookInv, FeesReadCovered, TransactionType
<1>3. /\ IsOpen(d) /\ Issued(d)
      /\ \A t \in {"CREDIT_NOTE_ISSUED", "LATE_FEE_WAIVED", "REMINDER_FEE_WAIVED"} :
            Rows(d, t) = 0 /\ Sum(d, t) = 0
  BY OpenUnwaived DEF Credits, Closes
<1>4. Explained(d)'
  <2>1. \A t \in {"INVOICE_CREATED", "PAYMENT_RECEIVED", "LATE_FEE_ADDED",
                  "REMINDER_FEE_ADDED"} :
            /\ Rows(d, t)' = Rows(d, t) /\ Sum(d, t)' = Sum(d, t)
            /\ Sum(d, t) \in Int /\ Rows(d, t) \in Nat
            /\ Rows(d, t) = 0 => Sum(d, t) = 0
    BY <1>2 DEF Credits, TransactionType, Explained
  <2>2. /\ Rows(d, "CREDIT_NOTE_ISSUED")' = 1
        /\ Sum(d, "CREDIT_NOTE_ISSUED")' = -invoice[d].gross
    BY <1>2, <1>3 DEF Credits
  <2>3. /\ Sum(d, "LATE_FEE_WAIVED")' = -req[s].fees.lateFee
        /\ Rows(d, "LATE_FEE_WAIVED")' = IF req[s].fees.lateFee > 0 THEN 1 ELSE 0
        /\ Sum(d, "REMINDER_FEE_WAIVED")' = -req[s].fees.reminderFee
        /\ Rows(d, "REMINDER_FEE_WAIVED")' = IF req[s].fees.reminderFee > 0 THEN 1 ELSE 0
    BY <1>1, <1>2, <1>3 DEF Waives
  <2>4. Fixed(d) /\ FeesKept(d) /\ invoice'[d].status = "CREDITED"
    BY DEF Credits, Closes
  <2>5. \A t \in TransactionType : Rows(d, t)' = 0 => Sum(d, t)' = 0
    BY <1>2, <2>1, <2>2, <2>3 DEF TransactionType
  <2>6. QED
    BY <1>2, <1>3, <2>1, <2>2, <2>3, <2>4, <2>5 DEF Explained, Issued, Numbered, Fixed, FeesKept
<1>5. Explained(note)'
  <2>1. ~Issued(note)
    BY DEF Credits, NewRow, Issued
  <2>2. \A t \in TransactionType : Rows(note, t)' = 0 /\ Sum(note, t)' = 0
    BY <2>1, UnissuedRowless DEF Credits, NewRow, AddsNothing
  <2>3. /\ invoice'[note].status = "SENT" /\ invoice'[note].type = "CREDIT_NOTE"
        /\ invoice'[note].lateFee = 0 /\ invoice'[note].reminderFee = 0
    BY DEF Credits, NewRow
  <2>4. QED
    BY <2>2, <2>3 DEF Explained, Issued, TransactionType
<1>6. QED
  BY <1>4, <1>5

\* What was posted of fees is never taken back: a waiver is a row of its own.
LEMMA PostedFeesGrow ==
    ASSUME TypeOK, [Next]_vars, NEW d \in Docs,
           NEW t \in {"LATE_FEE_ADDED", "REMINDER_FEE_ADDED"}
    PROVE  Sum(d, t) <= Sum(d, t)'
<1>1. /\ t \in TransactionType /\ Sum(d, t) \in Int
      /\ \A r \in Runners : ChargeAt(r, d) \in Int
  BY Figures, RunAmounts DEF TransactionType
<1>2. CASE Same(d) \/ UNCHANGED <<invoice, ledger>>
  BY <1>1, <1>2 DEF Same, Sum
<1>3. CASE AloneSteps(d)
  BY <1>1, <1>3 DEF AloneSteps, Drafts, NewRow, Issues, Discards, Pays, Charges, Stamps,
                    Accrues, Adds, AddsNothing, REMINDER_FEE_ORE
<1>4. ASSUME NEW c \in Docs, NEW note \in Docs, Credits(c, note), d \in {c, note}
      PROVE  Sum(d, t) <= Sum(d, t)'
  BY <1>1, <1>4 DEF Credits, NewRow, AddsNothing
<1>5. QED
  BY <1>2, <1>3, <1>4, StepEffect DEF StoreEffect

\* Every handler step keeps the fees of each invoice, and what is owed of it,
\* explained by its rows.
LEMMA BookNext ==
    ASSUME TypeOK, RowsInv, BookInv, [Next]_vars
    PROVE  BookInv'
<1>1. \A d \in Docs : Explained(d)'
  <2>1. \A d \in Docs : Same(d) => Explained(d)'
    BY ExplainedSame DEF BookInv
  <2>2. CASE UNCHANGED <<invoice, ledger>>
    BY <2>1, <2>2 DEF Same
  <2>3. QED
    BY <2>1, <2>2, StepEffect, ExplainedAlone, ExplainedCredit DEF StoreEffect
<1>2. /\ TypeOK'
      /\ \A d \in Docs, t \in {"LATE_FEE_ADDED", "REMINDER_FEE_ADDED"} :
            /\ Sum(d, t) <= Sum(d, t)'
            /\ Sum(d, t) \in Int /\ Sum(d, t)' \in Int
  <2>1. TypeOK'
    BY NextType
  <2>2. \A d \in Docs, t \in TransactionType : Sum(d, t) \in Int /\ Sum(d, t)' \in Int
    BY <2>1 DEF TypeOK, StoreTypeOK, Entry, Sum
  <2>3. \A d \in Docs, t \in {"LATE_FEE_ADDED", "REMINDER_FEE_ADDED"} :
            Sum(d, t) <= Sum(d, t)'
    BY PostedFeesGrow
  <2>4. QED
    BY <2>1, <2>2, <2>3 DEF TransactionType
<1>3. ASSUME NEW s \in Requests
      PROVE  FeesReadCovered(s)'
  <2>1. FeesReadCovered(s) /\ SlotStep(s)
    BY SlotEffect DEF BookInv
  <2>2. CASE req'[s] = req[s]
    <3>1. SUFFICES ASSUME At(s, "cancel")
                   PROVE  (/\ req[s].fees.lateFee <= Sum(req[s].doc, "LATE_FEE_ADDED")
                           /\ req[s].fees.reminderFee
                                <= Sum(req[s].doc, "REMINDER_FEE_ADDED"))'
      BY <2>2 DEF FeesReadCovered, At
    <3>2. /\ req[s].doc \in Docs
          /\ req[s].fees.lateFee \in Nat /\ req[s].fees.reminderFee \in Nat
      BY <3>1, Figures DEF At, DocSteps
    <3>3. QED
      BY <1>2, <2>1, <2>2, <3>1, <3>2 DEF FeesReadCovered, Sum
  <2>3. CASE /\ At(s, "readFees")
             /\ req'[s].doc = req[s].doc
             /\ req'[s].fees = FeesOf(req[s].doc)
             /\ UNCHANGED <<invoice, ledger>>
    <3>1. req[s].doc \in Docs
      BY <2>3, Figures DEF At, DocSteps
    <3>2. /\ invoice[req[s].doc].lateFee <= Sum(req[s].doc, "LATE_FEE_ADDED")
          /\ invoice[req[s].doc].reminderFee = Sum(req[s].doc, "REMINDER_FEE_ADDED")
          /\ Sum(req[s].doc, "REMINDER_FEE_ADDED") \in Int
      BY <1>2, <3>1 DEF BookInv, Explained
    <3>3. QED
      BY <2>3, <3>2 DEF FeesOf, FeesReadCovered, Sum
  <2>4. CASE req'[s].step # "cancel"
    BY <2>4 DEF FeesReadCovered, At
  <2>5. QED
    BY <2>1, <2>2, <2>3, <2>4 DEF SlotStep, DocSteps
<1>4. ASSUME NEW r \in Runners
      PROVE  RunReadCovered(r)'
  <2>1. SUFFICES ASSUME run'[r].step = "apply", NEW d \in run'[r].todo
                 PROVE  run'[r].lateFee[d] <= Sum(d, "LATE_FEE_ADDED")'
    BY DEF RunReadCovered
  <2>2. Reads(r, d) /\ RunReadCovered(r) /\ d \in Docs
    <3>1. run'[r].todo \subseteq Docs
      BY <1>2 DEF TypeOK, Run
    <3>2. QED
      BY <2>1, <3>1, RunEffect DEF CandidateStep, BookInv
  <2>3. CASE /\ run[r].step = "apply" /\ d \in run[r].todo
             /\ run'[r].lateFee = run[r].lateFee
    <3>1. run[r].lateFee[d] \in Nat
      BY <2>2, Figures
    <3>2. QED
      BY <1>2, <2>2, <2>3, <3>1 DEF RunReadCovered
  <2>4. CASE UNCHANGED <<invoice, ledger>> /\ run'[r].lateFee[d] = invoice[d].lateFee
    BY <2>2, <2>4 DEF BookInv, Explained, Sum
  <2>5. QED
    BY <2>2, <2>3, <2>4 DEF Reads
<1>5. QED
  BY <1>1, <1>3, <1>4 DEF BookInv

\* A credit never waives more of a fee than was charged, and writes off the
\* gross, with any number of overdue workers: what it read of the fees can
\* only have been charged before.
THEOREM WaiversCovered == Spec => []WaivedAtMostCharged
<1>1. TypeOK /\ RowsInv /\ BookInv /\ [Next]_vars => RowsInv' /\ BookInv'
  BY RowsNext, BookNext
<1>2. BookInv => WaivedAtMostCharged
  BY DEF BookInv, Explained, WaivedAtMostCharged
<1>3. QED
  BY RowsInit, BookInit, <1>1, <1>2, TypeCorrect, PTL DEF Spec

-----------------------------------------------------------------------------
(* What requests, runs and payments refer to                               *)

\* A row that was inserted is never absent again, and an invoice that left
\* the house never comes back to it.
LEMMA StatusStays ==
    ASSUME TypeOK, [Next]_vars, NEW d \in Docs
    PROVE  /\ Numbered(d) => Numbered(d)'
           /\ Issued(d) => Issued(d)'
<1>1. CASE Same(d) \/ UNCHANGED <<invoice, ledger>>
  BY <1>1 DEF Same, Numbered, Issued
<1>2. CASE AloneSteps(d)
  BY <1>2 DEF AloneSteps, Drafts, NewRow, Issues, Discards, Pays, Charges, Stamps, Accrues,
              Fixed, Moves, Closes, IsOpen, OpenStatuses, Numbered, Issued
<1>3. ASSUME NEW c \in Docs, NEW note \in Docs, Credits(c, note), d \in {c, note}
      PROVE  /\ Numbered(d) => Numbered(d)'
             /\ Issued(d) => Issued(d)'
  BY <1>3 DEF Credits, NewRow, Fixed, Closes, IsOpen, OpenStatuses, Numbered, Issued
<1>4. QED
  BY <1>1, <1>2, <1>3, StepEffect DEF StoreEffect

\* A payment is there for good; a new one is for something the invoice it
\* names was due at some time, and the invoice is none the other for it.
PaymentStep(e) ==
    \/ payment'[e] = payment[e]
    \/ /\ UNCHANGED <<invoice, ledger>>
       /\ \E d \in Docs : \E amount \in EverDue(d) :
            /\ Issued(d) /\ amount > 0
            /\ payment'[e] = [doc |-> d, amount |-> amount]

\* Only a customer makes a payment.
LEMMA PaymentsLeft ==
    /\ \A s \in Requests : AdminStep(s) \/ WebhookStep(s) \/ FailRequest(s) =>
            payment' = payment
    /\ \A r \in Runners : RunStep(r) \/ FailRun(r) => payment' = payment
    /\ Tick \/ UNCHANGED vars => payment' = payment
<1>1. \A s \in Requests : AdminStep(s) \/ WebhookStep(s) \/ FailRequest(s) =>
        payment' = payment
  <2>1. \A s \in Requests, d \in Docs :
            ReadToSend(s, d) \/ ReadToDelete(s, d) \/ ReadToCredit(s, d)
              \/ ReadToRemind(s, d) => payment' = payment
    BY DEF ReadToSend, ReadToDelete, ReadToCredit, ReadToRemind, Begin
  <2>2. \A s \in Requests :
            AllocateForInvoice(s) \/ AllocateForCredit(s) \/ ReadFees(s) \/ FailRequest(s) =>
                payment' = payment
    BY DEF AllocateForInvoice, AllocateForCredit, ReadFees, FailRequest
  <2>3. \A s \in Requests :
            InsertDraft(s) \/ Send(s) \/ Delete(s) \/ IssueCredit(s) => payment' = payment
    BY DEF InsertDraft, Send, Delete, IssueCredit
  <2>4. \A s \in Requests : ChargeReminder(s) \/ StampReminder(s) => payment' = payment
    BY DEF ChargeReminder, StampReminder
  <2>5. \A s \in Requests : WebhookStep(s) => payment' = payment
    <3>1. \A s \in Requests, e \in Events : ReceiveEvent(s, e) => payment' = payment
      BY DEF ReceiveEvent
    <3>2. \A s \in Requests : ApplyEvent(s) => payment' = payment
      BY DEF ApplyEvent
    <3>3. QED
      BY <3>1, <3>2 DEF WebhookStep
  <2>6. QED
    BY <2>1, <2>2, <2>3, <2>4, <2>5 DEF AdminStep
<1>2. \A r \in Runners : RunStep(r) \/ FailRun(r) => payment' = payment
  <2>1. \A r \in Runners, d \in Docs :
            ApplyOverdue(r, d) \/ SkipOverdue(r, d) \/ EnqueueNotice(r, d) =>
                payment' = payment
    BY DEF ApplyOverdue, SkipOverdue, EnqueueNotice
  <2>2. \A r \in Runners : ReportRun(r) \/ FailRun(r) => payment' = payment
    BY DEF ReportRun, FailRun
  <2>3. \A r \in Runners : \A at \in 1 .. now : StartRun(r, at) => payment' = payment
    BY Zenon DEF StartRun
  <2>4. QED
    BY <2>1, <2>2, <2>3 DEF RunStep
<1>3. Tick \/ UNCHANGED vars => payment' = payment
  BY DEF Tick, vars, serviceVars
<1>4. QED
  BY <1>1, <1>2, <1>3

\* Only a claim of an event changes the set of the events processed.
LEMMA ProcessedLeft ==
    /\ \A s \in Requests : AdminStep(s) \/ FailRequest(s) => processed' = processed
    /\ \A s \in Requests, e \in Events : ReceiveEvent(s, e) => processed' = processed
    /\ \A r \in Runners : RunStep(r) \/ FailRun(r) => processed' = processed
    /\ Tick \/ UNCHANGED vars => processed' = processed
<1>1. \A s \in Requests : AdminStep(s) \/ FailRequest(s) => processed' = processed
  <2>1. \A s \in Requests, d \in Docs :
            ReadToSend(s, d) \/ ReadToDelete(s, d) \/ ReadToCredit(s, d)
              \/ ReadToRemind(s, d) => processed' = processed
    BY DEF ReadToSend, ReadToDelete, ReadToCredit, ReadToRemind, Begin, storeVars
  <2>2. \A s \in Requests :
            AllocateForInvoice(s) \/ AllocateForCredit(s) \/ ReadFees(s) \/ FailRequest(s) =>
                processed' = processed
    BY DEF AllocateForInvoice, AllocateForCredit, ReadFees, FailRequest, storeVars
  <2>3. \A s \in Requests :
            InsertDraft(s) \/ Send(s) \/ Delete(s) \/ IssueCredit(s) => processed' = processed
    BY DEF InsertDraft, Send, Delete, IssueCredit
  <2>4. \A s \in Requests : ChargeReminder(s) \/ StampReminder(s) => processed' = processed
    BY DEF ChargeReminder, StampReminder
  <2>5. QED
    BY <2>1, <2>2, <2>3, <2>4 DEF AdminStep
<1>2. \A s \in Requests, e \in Events : ReceiveEvent(s, e) => processed' = processed
  BY DEF ReceiveEvent, storeVars
<1>3. \A r \in Runners : RunStep(r) \/ FailRun(r) => processed' = processed
  <2>1. \A r \in Runners, d \in Docs :
            ApplyOverdue(r, d) \/ SkipOverdue(r, d) \/ EnqueueNotice(r, d) =>
                processed' = processed
    BY DEF ApplyOverdue, SkipOverdue, EnqueueNotice, storeVars
  <2>2. \A r \in Runners : ReportRun(r) \/ FailRun(r) => processed' = processed
    BY DEF ReportRun, FailRun, storeVars
  <2>3. \A r \in Runners : \A at \in 1 .. now : StartRun(r, at) => processed' = processed
    BY Zenon DEF StartRun, storeVars
  <2>4. QED
    BY <2>1, <2>2, <2>3 DEF RunStep
<1>4. Tick \/ UNCHANGED vars => processed' = processed
  BY DEF Tick, vars, storeVars
<1>5. QED
  BY <1>1, <1>2, <1>3, <1>4

\* What a customer paid by an event is written once and never changed.
LEMMA PaymentEffect ==
    ASSUME TypeOK, [Next]_vars
    PROVE  \A e \in Events : PaymentStep(e)
<1>1. ASSUME NEW e \in Events, NEW d \in Docs, CustomerPays(e, d)
      PROVE  \A f \in Events : PaymentStep(f)
  <2>1. PICK amount \in EverDue(d) :
            amount > 0 /\ payment' = [payment EXCEPT ![e] = [doc |-> d, amount |-> amount]]
    BY <1>1 DEF CustomerPays
  <2>2. Issued(d) /\ UNCHANGED <<invoice, ledger>>
    BY <1>1 DEF CustomerPays, Issued, storeVars
  <2>3. \A f \in Events : payment'[f] = IF f = e THEN [doc |-> d, amount |-> amount]
                                                 ELSE payment[f]
    BY <2>1 DEF TypeOK
  <2>4. QED
    BY <2>1, <2>2, <2>3 DEF PaymentStep
<1>2. payment' = payment => \A f \in Events : PaymentStep(f)
  BY DEF PaymentStep
<1>3. QED
  BY <1>1, <1>2, PaymentsLeft DEF Next

\* What a handler works on exists, what a run goes through was issued, and so
\* was what a customer paid.
SlotRefersTo(s) == req[s].step \in DocSteps => Numbered(req[s].doc)
RunRefersTo(r)  == run[r].step = "apply" => \A d \in run[r].todo : Issued(d)
PaymentRefersTo(e) ==
    payment[e] \in Payment => payment[e].amount > 0 /\ Issued(payment[e].doc)

RefersInv ==
    /\ \A s \in Requests : SlotRefersTo(s)
    /\ \A r \in Runners : RunRefersTo(r)
    /\ \A e \in Events : PaymentRefersTo(e)

\* At first nobody works on a document, and nobody has paid.
LEMMA RefersInit == Init => RefersInv
<1> SUFFICES ASSUME Init PROVE RefersInv
  OBVIOUS
<1>1. /\ \A s \in Requests : req[s].step = "idle"
      /\ \A r \in Runners : run[r].step = "idle"
      /\ \A e \in Events : payment[e].doc \notin Docs
  BY NullsAssumption DEF Init, IdleRequest, IdleRun, NoPayment
<1>2. QED
  BY <1>1 DEF RefersInv, SlotRefersTo, RunRefersTo, PaymentRefersTo, Payment, DocSteps

\* A handler takes up only documents that exist, and customers pay only what was issued.
LEMMA RefersNext ==
    ASSUME TypeOK, RefersInv, [Next]_vars
    PROVE  RefersInv'
<1>1. /\ TypeOK'
      /\ \A d \in Docs : (Numbered(d) => Numbered(d)') /\ (Issued(d) => Issued(d)')
  BY NextType, StatusStays
<1>2. ASSUME NEW s \in Requests
      PROVE  SlotRefersTo(s)'
  <2>1. SUFFICES ASSUME req'[s].step \in DocSteps
                 PROVE  invoice'[req'[s].doc].status # "ABSENT"
    BY DEF SlotRefersTo, Numbered
  <2>2. req'[s].doc \in Docs
    BY <1>1, <2>1 DEF TypeOK
  <2>3. Numbered(req'[s].doc)
    BY <2>1, SlotEffect
       DEF SlotStep, RefersInv, SlotRefersTo, Exists, InvoiceStatus, Numbered, At, DocSteps
  <2>4. QED
    BY <1>1, <2>2, <2>3 DEF Numbered
<1>3. ASSUME NEW r \in Runners
      PROVE  RunRefersTo(r)'
  <2>1. SUFFICES ASSUME run'[r].step = "apply", NEW d \in run'[r].todo
                 PROVE  Issued(d)'
    BY DEF RunRefersTo
  <2>2. Reads(r, d) /\ d \in Docs
    BY <1>1, <2>1, RunEffect DEF CandidateStep, TypeOK, Run
  <2>3. Issued(d)
    BY <2>2 DEF Reads, RefersInv, RunRefersTo, IsOpen, OpenStatuses, Issued
  <2>4. QED
    BY <1>1, <2>2, <2>3
<1>4. ASSUME NEW e \in Events
      PROVE  PaymentRefersTo(e)'
  <2>1. SUFFICES ASSUME payment'[e] \in Payment
                 PROVE  /\ payment'[e].amount > 0
                        /\ payment'[e].doc \in Docs
                        /\ Issued(payment'[e].doc)
    BY <1>1 DEF PaymentRefersTo, Issued
  <2>2. PaymentStep(e) /\ payment'[e].doc \in Docs
    BY <2>1, PaymentEffect DEF Payment
  <2>3. CASE payment'[e] = payment[e]
    BY <2>1, <2>2, <2>3 DEF RefersInv, PaymentRefersTo
  <2>4. CASE \E d \in Docs : \E amount \in EverDue(d) :
                /\ Issued(d) /\ amount > 0
                /\ payment'[e] = [doc |-> d, amount |-> amount]
    BY <2>2, <2>4
  <2>5. QED
    BY <2>2, <2>3, <2>4 DEF PaymentStep
<1>5. QED
  BY <1>2, <1>3, <1>4 DEF RefersInv

-----------------------------------------------------------------------------
(* With one overdue worker                                                 *)

\* One process starts one worker, and the worker takes one job at a time.
OneWorker == \A r, q \in Runners : r = q

\* The interest of an invoice is what was posted of it, and what the run has
\* read of a candidate that is still open is what its row says.
InterestPosted(d) == Issued(d) => Sum(d, "LATE_FEE_ADDED") = invoice[d].lateFee

RunReadCurrent(r) ==
    run[r].step = "apply" =>
        \A d \in run[r].todo : IsOpen(d) => run[r].lateFee[d] = invoice[d].lateFee

WorkerInv ==
    /\ \A d \in Docs : InterestPosted(d)
    /\ \A r \in Runners : RunReadCurrent(r)

\* At first no interest is posted, and no run is under way.
LEMMA WorkerInit == Init => WorkerInv
<1> SUFFICES ASSUME Init PROVE WorkerInv
  OBVIOUS
<1>1. \A d \in Docs : ~Issued(d)
  BY DEF Init, StoreInit, NoRow, Issued
<1>2. \A r \in Runners : run[r].step = "idle"
  BY DEF Init, IdleRun
<1>3. QED
  BY <1>1, <1>2 DEF WorkerInv, InterestPosted, RunReadCurrent

\* A handler that writes one document leaves its posted interest equal to the fee on
\* its row.
LEMMA InterestPostedAlone ==
    ASSUME TypeOK, RowsInv, BookInv, WorkerInv, NEW d \in Docs, AloneSteps(d)
    PROVE  InterestPosted(d)'
<1>1. /\ InterestPosted(d) /\ invoice[d].lateFee \in Nat
      /\ "LATE_FEE_ADDED" \in TransactionType
      /\ Sum(d, "LATE_FEE_ADDED") \in Int
      /\ ~Issued(d) => Sum(d, "LATE_FEE_ADDED") = 0 /\ invoice[d].lateFee = 0
  BY Figures, UnissuedRowless DEF WorkerInv, TransactionType
<1>2. CASE Drafts(d)
  BY <1>2 DEF Drafts, InterestPosted, Issued
<1>3. CASE Issues(d) \/ Discards(d) \/ Pays(d)
  <2>1. /\ FeesKept(d) /\ Sum(d, "LATE_FEE_ADDED")' = Sum(d, "LATE_FEE_ADDED")
    BY <1>1, <1>3 DEF Issues, Discards, Pays, Adds, AddsNothing
  <2>2. QED
    BY <1>1, <2>1 DEF FeesKept, InterestPosted
<1>4. CASE Charges(d) \/ Stamps(d)
  <2>1. /\ invoice'[d].lateFee = invoice[d].lateFee
        /\ Sum(d, "LATE_FEE_ADDED")' = Sum(d, "LATE_FEE_ADDED")
    BY <1>1, <1>4 DEF Charges, Stamps, Adds, AddsNothing
  <2>2. QED
    BY <1>1, <2>1 DEF InterestPosted
<1>5. CASE Accrues(d)
  <2>1. PICK r \in Runners :
            /\ run[r].step = "apply" /\ d \in run[r].todo
            /\ invoice'[d].lateFee = FeeAt(r, d)
            /\ IF ChargeAt(r, d) > 0 THEN Adds(d, "LATE_FEE_ADDED", ChargeAt(r, d))
                                     ELSE AddsNothing(d)
    BY <1>5 DEF Accrues
  <2>2. IsOpen(d) /\ Issued(d)
    BY <1>5 DEF Accrues, Closes, IsOpen, OpenStatuses, Issued
  <2>3. /\ run[r].lateFee[d] = Sum(d, "LATE_FEE_ADDED")
        /\ OwedAt(r, d) \in Nat
    BY <1>1, <2>1, <2>2, RunAmounts DEF WorkerInv, RunReadCurrent, InterestPosted
  <2>4. /\ ChargeAt(r, d) = OwedAt(r, d) - run[r].lateFee[d]
        /\ FeeAt(r, d) = IF OwedAt(r, d) > run[r].lateFee[d] THEN OwedAt(r, d)
                                                             ELSE run[r].lateFee[d]
    BY DEF ChargeAt, FeeAt, Increment, NewLateFee
  <2>5. Sum(d, "LATE_FEE_ADDED")' = IF ChargeAt(r, d) > 0
                                    THEN Sum(d, "LATE_FEE_ADDED") + ChargeAt(r, d)
                                    ELSE Sum(d, "LATE_FEE_ADDED")
    BY <1>1, <2>1 DEF Adds, AddsNothing
  <2>6. Sum(d, "LATE_FEE_ADDED")' = FeeAt(r, d)
    BY <1>1, <2>3, <2>4, <2>5
  <2>7. QED
    BY <2>1, <2>6 DEF InterestPosted
<1>6. QED
  BY <1>2, <1>3, <1>4, <1>5 DEF AloneSteps

\* A step that changes the late fee of an open invoice is a run's, which is
\* then done with it.
LEMMA LateFeeMoves ==
    ASSUME TypeOK, [Next]_vars, NEW d \in Docs, IsOpen(d)'
    PROVE  \/ IsOpen(d) /\ invoice'[d].lateFee = invoice[d].lateFee
           \/ ~Issued(d)
           \/ \E r \in Runners : d \in run[r].todo /\ d \notin run'[r].todo
<1>1. invoice'[d].type = "INVOICE" /\ invoice'[d].status \in {"SENT", "OVERDUE"}
  BY DEF IsOpen, OpenStatuses
<1>2. CASE Same(d) \/ UNCHANGED <<invoice, ledger>>
  BY <1>2 DEF Same, IsOpen
<1>3. CASE AloneSteps(d)
  BY <1>1, <1>3 DEF AloneSteps, Drafts, Issues, Discards, Pays, Charges, Stamps, Accrues,
                    Moves, Closes, Fixed, IsOpen, OpenStatuses, Issued
<1>4. ASSUME NEW c \in Docs, NEW note \in Docs, Credits(c, note), d \in {c, note}
      PROVE  FALSE
  BY <1>1, <1>4 DEF Credits, Closes
<1>5. QED
  BY <1>2, <1>3, <1>4, StepEffect DEF StoreEffect

\* With one worker, a run posts exactly the interest by which it raises the fee it read.
LEMMA WorkerNext ==
    ASSUME OneWorker, TypeOK, RowsInv, BookInv, RefersInv, WorkerInv, [Next]_vars
    PROVE  WorkerInv'
<1>1. ASSUME NEW d \in Docs
      PROVE  InterestPosted(d)'
  <2>1. CASE Same(d) \/ UNCHANGED <<invoice, ledger>>
    BY <2>1 DEF WorkerInv, InterestPosted, Issued, Same, Sum, TransactionType
  <2>2. ASSUME NEW c \in Docs, NEW note \in Docs, Credits(c, note), d \in {c, note}
        PROVE  InterestPosted(d)'
    <3>1. CASE d = c
      BY <2>2, <3>1 DEF Credits, Closes, FeesKept, IsOpen, OpenStatuses, Issued,
                        TransactionType, WorkerInv, InterestPosted
    <3>2. CASE d = note
      BY <2>2, <3>2 DEF Credits, Issued, InterestPosted
    <3>3. QED
      BY <2>2, <3>1, <3>2
  <2>3. QED
    BY <2>1, <2>2, StepEffect, InterestPostedAlone DEF StoreEffect
<1>2. ASSUME NEW r \in Runners
      PROVE  RunReadCurrent(r)'
  <2>1. SUFFICES ASSUME run'[r].step = "apply", NEW d \in run'[r].todo, IsOpen(d)'
                 PROVE  run'[r].lateFee[d] = invoice'[d].lateFee
    BY DEF RunReadCurrent
  <2>2. Reads(r, d) /\ RunReadCurrent(r) /\ d \in Docs
    <3>1. run'[r].todo \subseteq Docs
      BY NextType DEF TypeOK, Run
    <3>2. QED
      BY <2>1, <3>1, RunEffect DEF CandidateStep, WorkerInv
  <2>3. CASE UNCHANGED <<invoice, ledger>> /\ run'[r].lateFee[d] = invoice[d].lateFee
    BY <2>3
  <2>4. CASE /\ run[r].step = "apply" /\ d \in run[r].todo
             /\ run'[r].lateFee = run[r].lateFee
    <3>1. IsOpen(d) /\ invoice'[d].lateFee = invoice[d].lateFee
      <4>1. Issued(d)
        BY <2>4 DEF RefersInv, RunRefersTo
      <4>2. QED
        BY <2>1, <2>2, <2>4, <4>1, LateFeeMoves DEF OneWorker
    <3>2. QED
      BY <2>2, <2>4, <3>1 DEF RunReadCurrent
  <2>5. QED
    BY <2>2, <2>3, <2>4 DEF Reads
<1>3. QED
  BY <1>1, <1>2 DEF WorkerInv

\* Nothing is credited or waived of an invoice that was not credited.
LEMMA UncreditedUnwaived ==
    ASSUME TypeOK, RowsInv, BookInv, NEW d \in Docs, Issued(d),
           invoice[d].status # "CREDITED"
    PROVE  \A t \in {"CREDIT_NOTE_ISSUED", "LATE_FEE_WAIVED", "REMINDER_FEE_WAIVED"} :
                Sum(d, t) = 0
<1>1. /\ RowsMatch(d) /\ Explained(d)
      /\ \A t \in TransactionType : Rows(d, t) \in Nat
  BY Figures DEF RowsInv, LedgerRowsMatchStatus, BookInv
<1>2. \A t \in {"CREDIT_NOTE_ISSUED", "LATE_FEE_WAIVED", "REMINDER_FEE_WAIVED"} :
        Rows(d, t) = 0 /\ t \in TransactionType
  BY <1>1 DEF RowsMatch, If, TransactionType
<1>3. QED
  BY <1>1, <1>2 DEF Explained

\* Posted interest and the fee on the row agree, so the balance is what
\* CalculateTotalDue says.
LEMMA WorkerExplains ==
    ASSUME TypeOK, RowsInv, BookInv, WorkerInv
    PROVE  LedgerExplainsDebt
<1> SUFFICES ASSUME NEW d \in Docs, Issued(d)
             PROVE  /\ Sum(d, "INVOICE_CREATED") = invoice[d].gross
                    /\ Sum(d, "LATE_FEE_ADDED") = invoice[d].lateFee
                    /\ Sum(d, "REMINDER_FEE_ADDED") = invoice[d].reminderFee
                    /\ IsOpen(d) => Balance(d) = TotalDue(d)
                    /\ invoice[d].status = "PAID" =>
                            Balance(d) + Sum(d, "PAYMENT_RECEIVED") = TotalDue(d)
  BY DEF LedgerExplainsDebt
<1>1. /\ Sum(d, "INVOICE_CREATED") = invoice[d].gross
      /\ Sum(d, "LATE_FEE_ADDED") = invoice[d].lateFee
      /\ Sum(d, "REMINDER_FEE_ADDED") = invoice[d].reminderFee
  BY DEF BookInv, Explained, WorkerInv, InterestPosted
<1>2. /\ invoice[d].gross \in Int /\ invoice[d].lateFee \in Int
      /\ invoice[d].reminderFee \in Int /\ Sum(d, "PAYMENT_RECEIVED") \in Int
  BY Figures DEF TransactionType
<1>3. TotalDue(d) = invoice[d].gross + invoice[d].lateFee + invoice[d].reminderFee
  BY DEF TotalDue, TotalDueOre
<1>4. IsOpen(d) => Balance(d) = TotalDue(d)
  <2>1. IsOpen(d) => \A t \in {"PAYMENT_RECEIVED", "CREDIT_NOTE_ISSUED",
                               "LATE_FEE_WAIVED", "REMINDER_FEE_WAIVED"} : Sum(d, t) = 0
    BY OpenUnwaived
  <2>2. QED
    BY <1>1, <1>2, <1>3, <2>1 DEF Balance
<1>5. invoice[d].status = "PAID" => Balance(d) + Sum(d, "PAYMENT_RECEIVED") = TotalDue(d)
  BY <1>1, <1>2, <1>3, UncreditedUnwaived DEF Balance
<1>6. QED
  BY <1>1, <1>4, <1>5

\* With one overdue worker every figure a customer is asked for is explained
\* by the rows of the ledger, however everything else interleaves.
THEOREM DebtExplained ==
    ASSUME OneWorker
    PROVE  Spec => []LedgerExplainsDebt
<1>1. Init => RowsInv /\ BookInv /\ RefersInv /\ WorkerInv
  BY RowsInit, BookInit, RefersInit, WorkerInit
<1>2. TypeOK /\ RowsInv /\ BookInv /\ RefersInv /\ WorkerInv /\ [Next]_vars =>
        (RowsInv /\ BookInv /\ RefersInv /\ WorkerInv)'
  BY RowsNext, BookNext, RefersNext, WorkerNext
<1>3. TypeOK /\ RowsInv /\ BookInv /\ WorkerInv => LedgerExplainsDebt
  BY WorkerExplains
<1>4. QED
  BY <1>1, <1>2, <1>3, TypeCorrect, PTL DEF Spec

-----------------------------------------------------------------------------
(* Interest and the clock                                                  *)

\* A later instant is no fewer whole days late.
LEMMA DaysGrow ==
    ASSUME NEW from \in Nat, NEW at \in Nat, NEW later \in Nat, at <= later
    PROVE  /\ DaysBetween(from, at, DayLength) \in Nat
           /\ DaysBetween(from, later, DayLength) \in Nat
           /\ DaysBetween(from, at, DayLength) <= DaysBetween(from, later, DayLength)
<1>1. DayLength \in Nat /\ DayLength > 0
  BY BoundsAssumption
<1>2. ASSUME NEW a \in Nat, NEW b \in Nat, a <= b
      PROVE  a \div DayLength \in Nat /\ a \div DayLength <= b \div DayLength
  <2> DEFINE p == a \div DayLength
             q == b \div DayLength
  <2>1. /\ p \in Nat /\ q \in Nat
        /\ p * DayLength <= a
        /\ b < (q + 1) * DayLength
    BY <1>1
  <2> HIDE DEF p, q
  <2>2. p * DayLength < (q + 1) * DayLength
    BY <1>1, <1>2, <2>1
  <2>3. p < q + 1
    BY <1>1, <2>1, <2>2
  <2>4. QED
    BY <2>1, <2>3 DEF p, q
<1>3. CASE later <= from
  BY <1>3 DEF DaysBetween
<1>4. CASE at <= from /\ later > from
  BY <1>2, <1>4 DEF DaysBetween
<1>5. CASE at > from
  BY <1>2, <1>5 DEF DaysBetween
<1>6. QED
  BY <1>3, <1>4, <1>5

\* Interest of a claim never falls as the day it is counted up to moves on.
LEMMA InterestGrows ==
    ASSUME NEW g \in Int, NEW due \in Nat, NEW at \in Nat, NEW later \in Nat,
           at <= later
    PROVE  InterestAt(g, due, at) <= InterestAt(g, due, later)
BY DaysGrow, LateInterestMonotonic DEF InterestAt

\* What d owes in interest by now.
Owed(d) == InterestAt(invoice[d].gross, invoice[d].due, now)

\* Nobody has charged, and no run has read, more than that; a run counts up
\* to an instant that has passed.
FeeWithin(d) == invoice[d].lateFee <= Owed(d)

RunReadWithin(r) ==
    run[r].step = "apply" =>
        \A d \in run[r].todo : run[r].at <= now /\ run[r].lateFee[d] <= Owed(d)

InterestInv ==
    /\ \A d \in Docs : FeeWithin(d)
    /\ \A r \in Runners : RunReadWithin(r)

\* The interest owed by now is a natural number.
LEMMA OwedType ==
    ASSUME TypeOK, NEW d \in Docs
    PROVE  Owed(d) \in Nat
BY InterestType, Figures DEF Owed, TypeOK

\* At first no fee is charged.
LEMMA InterestInit == Init => InterestInv
<1> SUFFICES ASSUME Init PROVE InterestInv
  OBVIOUS
<1>1. /\ \A d \in Docs : invoice[d].lateFee = 0
      /\ \A r \in Runners : run[r].step = "idle"
  BY DEF Init, StoreInit, NoRow, IdleRun
<1>2. \A d \in Docs : Owed(d) \in Nat
  BY InitType, OwedType
<1>3. QED
  BY <1>1, <1>2 DEF InterestInv, FeeWithin, RunReadWithin

\* What an existing document owes only grows: its gross and its due date stay.
LEMMA OwedGrows ==
    ASSUME TypeOK, [Next]_vars, NEW d \in Docs, Numbered(d)
    PROVE  Owed(d) <= Owed(d)'
<1>1. invoice'[d].gross = invoice[d].gross /\ invoice'[d].due = invoice[d].due
  <2>1. CASE Same(d) \/ UNCHANGED <<invoice, ledger>>
    BY <2>1 DEF Same
  <2>2. CASE AloneSteps(d)
    BY <2>2 DEF AloneSteps, Drafts, NewRow, Issues, Discards, Pays, Charges, Stamps,
                Accrues, Fixed, Numbered
  <2>3. ASSUME NEW c \in Docs, NEW note \in Docs, Credits(c, note), d \in {c, note}
        PROVE  invoice'[d].gross = invoice[d].gross /\ invoice'[d].due = invoice[d].due
    BY <2>3 DEF Credits, NewRow, Fixed, Numbered
  <2>4. QED
    BY <2>1, <2>2, <2>3, StepEffect DEF StoreEffect
<1>2. now \in Nat /\ now' \in Nat /\ now <= now'
  BY RunEffect DEF TypeOK
<1>3. QED
  BY <1>1, <1>2, Figures, InterestGrows DEF Owed

\* No step charges more interest than is owed by then, nor lets a run go on with more.
LEMMA InterestNext ==
    ASSUME TypeOK, RefersInv, InterestInv, [Next]_vars
    PROVE  InterestInv'
<1>1. /\ TypeOK'
      /\ \A d \in Docs : /\ Owed(d) \in Nat
                         /\ Numbered(d) => Owed(d) <= Owed(d)'
                         /\ invoice[d].lateFee \in Nat
      /\ now \in Nat
  BY NextType, OwedType, OwedGrows, Figures DEF TypeOK
<1>2. \A d \in Docs : Owed(d)' \in Nat
  <2>1. ASSUME NEW d \in Docs
        PROVE  Owed(d)' \in Nat
    <3>1. invoice'[d].gross \in Int /\ invoice'[d].due \in Nat /\ now' \in Nat
      BY <1>1 DEF TypeOK, StoreTypeOK, InvoiceRow
    <3>2. QED
      BY <3>1, InterestType DEF Owed
  <2>2. QED
    BY <2>1
<1>3. ASSUME NEW d \in Docs
      PROVE  FeeWithin(d)'
  <2>1. CASE invoice'[d].lateFee = invoice[d].lateFee /\ Numbered(d)
    BY <1>1, <1>2, <2>1 DEF InterestInv, FeeWithin
  <2>2. CASE invoice'[d].lateFee = 0
    BY <1>2, <2>2 DEF FeeWithin
  <2>3. CASE UNCHANGED <<invoice, ledger>> \/ Same(d)
    <3>1. invoice'[d] = invoice[d]
      BY <2>3 DEF Same
    <3>2. CASE ~Numbered(d)
      <4>1. invoice'[d].gross = invoice[d].gross /\ invoice'[d].due = invoice[d].due
        BY <3>1
      <4>2. now' \in Nat /\ now <= now'
        BY RunEffect
      <4>3. Owed(d) <= Owed(d)'
        BY <1>1, <4>1, <4>2, Figures, InterestGrows DEF Owed
      <4>4. QED
        BY <1>1, <1>2, <3>1, <4>3 DEF InterestInv, FeeWithin
    <3>3. QED
      BY <2>1, <3>1, <3>2
  <2>4. CASE Accrues(d)
    <3>1. PICK r \in Runners :
              /\ run[r].step = "apply" /\ d \in run[r].todo
              /\ invoice'[d].lateFee = FeeAt(r, d)
      BY <2>4 DEF Accrues
    <3>2. Numbered(d)
      BY <2>4 DEF Accrues, Closes, IsOpen, OpenStatuses, Numbered
    <3>3. /\ run[r].lateFee[d] \in Nat /\ OwedAt(r, d) \in Nat
          /\ run[r].lateFee[d] <= Owed(d) /\ OwedAt(r, d) <= Owed(d)
      <4>1. run[r].at \in Nat /\ run[r].at <= now /\ run[r].lateFee[d] <= Owed(d)
        BY <3>1, Figures DEF InterestInv, RunReadWithin
      <4>2. OwedAt(r, d) <= Owed(d)
        BY <1>1, <4>1, Figures, InterestGrows DEF OwedAt, Owed
      <4>3. QED
        BY <4>1, <4>2, RunAmounts, Figures
    <3>4. FeeAt(r, d) <= Owed(d)
      BY <3>3 DEF FeeAt, NewLateFee
    <3>5. FeeAt(r, d) \in Nat
      BY RunAmounts
    <3>6. QED
      BY <1>1, <1>2, <3>1, <3>2, <3>4, <3>5 DEF FeeWithin
  <2>5. CASE AloneSteps(d)
    <3>1. CASE Stamps(d)
      <4>1. Numbered(d) /\ invoice'[d].lateFee = invoice[d].lateFee
        BY <3>1 DEF Stamps, RefersInv, SlotRefersTo, At, DocSteps
      <4>2. QED
        BY <2>1, <4>1
    <3>2. QED
      BY <2>1, <2>2, <2>4, <2>5, <3>1
         DEF AloneSteps, Drafts, NewRow, Issues, Discards, Pays, Charges, FeesKept,
             Moves, Closes, IsOpen, OpenStatuses, Numbered
  <2>6. ASSUME NEW c \in Docs, NEW note \in Docs, Credits(c, note), d \in {c, note}
        PROVE  FeeWithin(d)'
    BY <2>1, <2>2, <2>6 DEF Credits, NewRow, FeesKept, Closes, IsOpen, OpenStatuses, Numbered
  <2>7. QED
    BY <2>3, <2>5, <2>6, StepEffect DEF StoreEffect
<1>4. ASSUME NEW r \in Runners
      PROVE  RunReadWithin(r)'
  <2>1. SUFFICES ASSUME run'[r].step = "apply", NEW d \in run'[r].todo
                 PROVE  run'[r].at <= now' /\ run'[r].lateFee[d] <= Owed(d)'
    BY DEF RunReadWithin
  <2>2. Reads(r, d) /\ d \in Docs /\ now' \in Nat /\ now <= now'
    BY <1>1, <2>1, RunEffect DEF CandidateStep, TypeOK, Run
  <2>3. Numbered(d)
    BY <2>2 DEF Reads, RefersInv, RunRefersTo, Issued, IsOpen, OpenStatuses, Numbered
  <2>4. /\ run'[r].at \in Nat /\ run'[r].at <= now
        /\ run'[r].lateFee[d] \in Nat /\ run'[r].lateFee[d] <= Owed(d)
    <3>1. run'[r].at \in Nat /\ run'[r].lateFee[d] \in Nat
      BY <1>1, <2>2 DEF TypeOK, Run
    <3>2. CASE /\ run[r].step = "apply" /\ d \in run[r].todo
               /\ run'[r].lateFee = run[r].lateFee
               /\ run'[r].at = run[r].at
      BY <3>1, <3>2 DEF InterestInv, RunReadWithin
    <3>3. CASE run'[r].lateFee[d] = invoice[d].lateFee /\ run'[r].at \in 1 .. now
      BY <2>2, <3>1, <3>3 DEF InterestInv, FeeWithin
    <3>4. QED
      BY <2>2, <3>2, <3>3 DEF Reads
  <2>5. QED
    BY <1>1, <1>2, <2>2, <2>3, <2>4
<1>5. QED
  BY <1>3, <1>4 DEF InterestInv

\* However many workers run at once, and whichever runs failed half way,
\* started over or were replayed for an earlier day: no invoice is charged
\* more than the statutory interest for the days that have passed.
THEOREM InterestWithinStatute == Spec => []NeverOvercharged
<1>1. Init => RefersInv /\ InterestInv
  BY RefersInit, InterestInit
<1>2. TypeOK /\ RefersInv /\ InterestInv /\ [Next]_vars => (RefersInv /\ InterestInv)'
  BY RefersNext, InterestNext
<1>3. InterestInv => NeverOvercharged
  BY DEF InterestInv, FeeWithin, Owed, NeverOvercharged
<1>4. QED
  BY <1>1, <1>2, <1>3, TypeCorrect, PTL DEF Spec

-----------------------------------------------------------------------------
(* Credit notes and what they credit                                       *)

NoteOf(note, d) ==
    /\ invoice[note].credits = {d}
    /\ invoice[d].type = "INVOICE"
    /\ invoice[d].status = "CREDITED"
    /\ invoice[note].gross = -invoice[d].gross

\* Each note is the note of one credited invoice, nothing but a note credits
\* anything, and each credited invoice has one note.
PairInv ==
    /\ \A note \in Docs : invoice[note].type = "CREDIT_NOTE" =>
            \E d \in Docs : NoteOf(note, d)
    /\ \A n \in Docs : invoice[n].credits # {} => invoice[n].type = "CREDIT_NOTE"
    /\ \A d \in Docs : invoice[d].status = "CREDITED" =>
            \E note \in Docs : \A n \in Docs : invoice[n].credits = {d} <=> n = note

\* At first there is neither a note nor a credited invoice.
LEMMA PairInit == Init => PairInv
<1>1. Init => \A d \in Docs : invoice[d] = NoRow
  BY DEF Init, StoreInit
<1>2. QED
  BY <1>1 DEF PairInv, NoRow

\* What a step that credits nothing leaves alone.
PairKept(e) ==
    /\ invoice'[e].type = invoice[e].type
    /\ invoice'[e].credits = invoice[e].credits
    /\ Numbered(e) => invoice'[e].gross = invoice[e].gross
    /\ invoice'[e].status = "CREDITED" <=> invoice[e].status = "CREDITED"

\* A step that writes one document alone neither makes nor breaks a pair.
LEMMA AlonePairKept ==
    ASSUME TypeOK, RowsInv, PairInv, NEW d \in Docs, AloneSteps(d)
    PROVE  PairKept(d)
<1>1. CASE Drafts(d)
  <2>1. invoice[d].status = "ABSENT" /\ invoice[d].type \in {"INVOICE", "CREDIT_NOTE"}
    BY <1>1, Figures DEF Drafts, NewRow, InvoiceRow
  <2>2. invoice[d].type = "INVOICE" /\ invoice[d].credits = {}
    BY <2>1 DEF RowsInv, NotesStaySent, PairInv
  <2>3. QED
    BY <1>1, <2>1, <2>2 DEF Drafts, PairKept, Numbered
<1>2. CASE ~Drafts(d)
  BY <1>2 DEF AloneSteps, Issues, Discards, Pays, Charges, Stamps, Accrues, Fixed, Moves,
              Closes, IsOpen, OpenStatuses, PairKept
<1>3. QED
  BY <1>1, <1>2

\* If every document keeps its part of its pair, the pairs are kept.
LEMMA PairsKept ==
    ASSUME RowsInv, PairInv, \A e \in Docs : PairKept(e)
    PROVE  PairInv'
<1>1. ASSUME NEW note \in Docs, invoice'[note].type = "CREDIT_NOTE"
      PROVE  \E d \in Docs : NoteOf(note, d)'
  <2>1. invoice[note].type = "CREDIT_NOTE" /\ Numbered(note)
    BY <1>1 DEF PairKept, RowsInv, NotesStaySent, Numbered
  <2>2. PICK d \in Docs : NoteOf(note, d)
    BY <2>1 DEF PairInv
  <2>3. NoteOf(note, d)'
    BY <2>1, <2>2 DEF PairKept, NoteOf, Numbered
  <2>4. QED
    BY <2>3
<1>2. ASSUME NEW d \in Docs, invoice'[d].status = "CREDITED"
      PROVE  \E note \in Docs : \A n \in Docs : invoice'[n].credits = {d} <=> n = note
  <2>1. PICK note \in Docs : \A n \in Docs : invoice[n].credits = {d} <=> n = note
    BY <1>2 DEF PairKept, PairInv
  <2>2. \A n \in Docs : invoice'[n].credits = {d} <=> n = note
    BY <2>1 DEF PairKept
  <2>3. QED
    BY <2>2
<1>3. \A n \in Docs : invoice'[n].credits # {} => invoice'[n].type = "CREDIT_NOTE"
  BY DEF PairKept, PairInv
<1>4. QED
  BY <1>1, <1>2, <1>3 DEF PairInv

\* A credit makes one pair of the invoice and a note that was not there before.
LEMMA CreditPairs ==
    ASSUME TypeOK, RowsInv, PairInv, NEW d \in Docs, NEW note \in Docs,
           Credits(d, note), \A e \in Docs \ {d, note} : Same(e)
    PROVE  PairInv'
<1>1. /\ d # note
      /\ invoice[note].type = "INVOICE" /\ invoice[note].credits = {}
      /\ invoice[note].status = "ABSENT"
  <2>1. d # note /\ invoice[note].status = "ABSENT"
        /\ invoice[note].type \in {"INVOICE", "CREDIT_NOTE"}
    BY Figures DEF Credits, NewRow, InvoiceRow
  <2>2. QED
    BY <2>1 DEF RowsInv, NotesStaySent, PairInv
<1>2. /\ invoice[d].type = "INVOICE" /\ invoice[d].status \in {"SENT", "OVERDUE"}
      /\ invoice'[d].type = "INVOICE" /\ invoice'[d].status = "CREDITED"
      /\ invoice'[d].credits = {} /\ invoice'[d].gross = invoice[d].gross
  BY DEF Credits, Closes, IsOpen, OpenStatuses, Fixed, PairInv
<1>3. /\ invoice'[note].type = "CREDIT_NOTE" /\ invoice'[note].status = "SENT"
      /\ invoice'[note].credits = {d} /\ invoice'[note].gross = -invoice[d].gross
  BY DEF Credits
<1>4. \A e \in Docs \ {d, note} : invoice'[e] = invoice[e]
  BY DEF Same
<1>5. ASSUME NEW n \in Docs, invoice'[n].type = "CREDIT_NOTE"
      PROVE  \E e \in Docs : NoteOf(n, e)'
  <2>1. CASE n = note
    BY <1>2, <1>3, <2>1 DEF NoteOf
  <2>2. CASE n # note
    <3>1. invoice'[n] = invoice[n] /\ invoice[n].type = "CREDIT_NOTE"
      BY <1>2, <1>4, <1>5, <2>2
    <3>2. PICK e \in Docs : NoteOf(n, e)
      BY <3>1 DEF PairInv
    <3>3. e \notin {d, note}
      BY <1>1, <1>2, <3>2 DEF NoteOf
    <3>4. NoteOf(n, e)'
      BY <1>4, <3>1, <3>2, <3>3 DEF NoteOf
    <3>5. QED
      BY <3>4
  <2>3. QED
    BY <2>1, <2>2
<1>6. \A n \in Docs : invoice'[n].credits # {} => invoice'[n].type = "CREDIT_NOTE"
  BY <1>2, <1>3, <1>4 DEF PairInv
<1>7. ASSUME NEW e \in Docs, invoice'[e].status = "CREDITED"
      PROVE  \E m \in Docs : \A n \in Docs : invoice'[n].credits = {e} <=> n = m
  <2>1. CASE e = d
    <3>1. ASSUME NEW n \in Docs, n # note
          PROVE  invoice'[n].credits # {d}
      <4>1. SUFFICES ASSUME n # d, invoice[n].credits = {d}
                     PROVE  FALSE
        BY <1>2, <1>4, <3>1
      <4>2. PICK f \in Docs : NoteOf(n, f)
        BY <4>1 DEF PairInv
      <4>3. f = d
        BY <4>1, <4>2 DEF NoteOf
      <4>4. QED
        BY <1>2, <4>2, <4>3 DEF NoteOf
    <3>2. QED
      BY <1>3, <2>1, <3>1
  <2>2. CASE e # d
    <3>1. invoice[e].status = "CREDITED"
      BY <1>3, <1>4, <1>7, <2>2
    <3>2. PICK m \in Docs : \A n \in Docs : invoice[n].credits = {e} <=> n = m
      BY <3>1 DEF PairInv
    <3>3. invoice[d].credits = {}
      BY <1>2 DEF PairInv
    <3>4. \A n \in Docs : invoice'[n].credits = {e} <=> n = m
      BY <1>1, <1>2, <1>3, <1>4, <2>2, <3>2, <3>3
    <3>5. QED
      BY <3>4
  <2>3. QED
    BY <2>1, <2>2
<1>8. QED
  BY <1>5, <1>6, <1>7 DEF PairInv

\* Every step keeps the pairs, or adds the one that a credit makes.
LEMMA PairNext ==
    ASSUME TypeOK, RowsInv, PairInv, [Next]_vars
    PROVE  PairInv'
<1>1. \A e \in Docs : Same(e) \/ UNCHANGED <<invoice, ledger>> => PairKept(e)
  BY DEF Same, PairKept
<1>2. QED
  BY <1>1, StepEffect, AlonePairKept, PairsKept, CreditPairs DEF StoreEffect

\* Every credited invoice has exactly one credit note, for minus its gross,
\* and every note belongs to a credited invoice.
THEOREM NotesPairUp == Spec => []CreditNotesPairUp
<1>1. TypeOK /\ RowsInv /\ PairInv /\ [Next]_vars => (RowsInv /\ PairInv)'
  BY RowsNext, PairNext
<1>2. PairInv => CreditNotesPairUp
  <2>1. SUFFICES ASSUME PairInv
                 PROVE  \A d \in Docs : invoice[d].status = "CREDITED" =>
                            Cardinality({note \in Docs : invoice[note].credits = {d}}) = 1
    BY DEF PairInv, NoteOf, CreditNotesPairUp
  <2>2. ASSUME NEW d \in Docs, invoice[d].status = "CREDITED"
        PROVE  Cardinality({note \in Docs : invoice[note].credits = {d}}) = 1
    <3> DEFINE notes == {note \in Docs : invoice[note].credits = {d}}
    <3>1. PICK m \in Docs : \A n \in Docs : invoice[n].credits = {d} <=> n = m
      BY <2>1, <2>2 DEF PairInv
    <3>2. notes = {m}
      BY <3>1
    <3>3. Cardinality({m}) = 1
      BY FS_Singleton
    <3> HIDE DEF notes
    <3>4. Cardinality(notes) = 1
      BY <3>2, <3>3
    <3>5. QED
      BY <3>4 DEF notes
  <2>3. QED
    BY <2>2
<1>3. QED
  BY RowsInit, PairInit, <1>1, <1>2, TypeCorrect, PTL DEF Spec

-----------------------------------------------------------------------------
(* The audit trail                                                         *)

\* What an audit row says, as AuditIsTruthful reads it.
Happened(action, d) ==
    /\ action = "INVOICE_CREATED" => Numbered(d)
    /\ action = "INVOICE_SENT" => Rows(d, "INVOICE_CREATED") = 1
    /\ action = "INVOICE_DELETED" => invoice[d].status = "DELETED"
    /\ action = "CREDIT_NOTE_ISSUED" => invoice[d].type = "CREDIT_NOTE"
    /\ action = "REMINDER_SENT" => invoice[d].reminderSentAt > 0
    /\ action = "PAYMENT_RECEIVED" => Rows(d, "PAYMENT_RECEIVED") = 1
    /\ action = "PAYMENT_UNAPPLIED" => invoice[d].status \in {"PAID", "CREDITED"}

\* The clock has started, and nobody was reminded of a row that is not there.
ClockInv ==
    /\ now > 0
    /\ \A d \in Docs : ~Numbered(d) => invoice[d].reminderSentAt = 0

TrailInv == ClockInv /\ \A entry \in audit : Happened(entry[1], entry[2])

\* At first nothing is recorded.
LEMMA TrailInit == Init => TrailInv
BY DEF Init, StoreInit, NoRow, TrailInv, ClockInv

\* What of a document stays as it is.
DocStays(d) ==
    /\ invoice[d].status \in {"DELETED", "PAID", "CREDITED"} =>
            invoice'[d].status = invoice[d].status
    /\ Numbered(d) => invoice'[d].type = invoice[d].type
    /\ invoice[d].reminderSentAt > 0 => invoice'[d].reminderSentAt > 0
    /\ ~Numbered(d)' => invoice'[d].reminderSentAt = 0

\* What an audit entry may tell of a document is never undone.
LEMMA DocsStay ==
    ASSUME TypeOK, RefersInv, ClockInv, [Next]_vars, NEW d \in Docs
    PROVE  DocStays(d)
<1>1. CASE Same(d) \/ UNCHANGED <<invoice, ledger>>
  BY <1>1 DEF Same, DocStays, ClockInv, Numbered
<1>2. CASE Drafts(d)
  BY <1>2 DEF Drafts, NewRow, ClockInv, DocStays, Numbered
<1>3. CASE Stamps(d)
  <2>1. Numbered(d)
    BY <1>3 DEF Stamps, RefersInv, SlotRefersTo, At, DocSteps
  <2>2. QED
    BY <1>3, <2>1 DEF Stamps, Fixed, ClockInv, DocStays, Numbered
<1>4. CASE Issues(d) \/ Discards(d) \/ Pays(d) \/ Accrues(d) \/ Charges(d)
  BY <1>4 DEF Issues, Discards, Pays, Accrues, Charges, Fixed, FeesKept, Moves, Closes, IsOpen,
              OpenStatuses, ClockInv, DocStays, Numbered
<1>5. ASSUME NEW c \in Docs, NEW note \in Docs, Credits(c, note), d \in {c, note}
      PROVE  DocStays(d)
  BY <1>5 DEF Credits, NewRow, FeesKept, Fixed, Closes, IsOpen, OpenStatuses, ClockInv,
              DocStays, Numbered
<1>6. QED
  BY <1>1, <1>2, <1>3, <1>4, <1>5, StepEffect DEF StoreEffect, AloneSteps

\* What has happened has happened.
LEMMA HappenedStays ==
    ASSUME TypeOK, RowsInv, RefersInv, ClockInv, [Next]_vars, NEW d \in Docs,
           NEW action, Happened(action, d)
    PROVE  Happened(action, d)'
<1>1. DocStays(d) /\ (Numbered(d) => Numbered(d)') /\ (Issued(d) => Issued(d)')
  BY DocsStay, StatusStays
<1>2. RowsMatch(d) /\ RowsMatch(d)'
  BY RowsNext DEF RowsInv, LedgerRowsMatchStatus
<1>3. Rows(d, "INVOICE_CREATED") = 1 => Rows(d, "INVOICE_CREATED")' = 1
  BY <1>1, <1>2 DEF RowsMatch, If
<1>4. Rows(d, "PAYMENT_RECEIVED") = 1 => Rows(d, "PAYMENT_RECEIVED")' = 1
  <2>1. Rows(d, "PAYMENT_RECEIVED") = 1 => Issued(d) /\ invoice[d].status = "PAID"
    BY <1>2 DEF RowsMatch, If
  <2>2. Issued(d)' /\ invoice'[d].status = "PAID" => Rows(d, "PAYMENT_RECEIVED")' = 1
    BY <1>2 DEF RowsMatch, If
  <2>3. QED
    BY <1>1, <2>1, <2>2 DEF DocStays
<1>5. invoice[d].type = "CREDIT_NOTE" => invoice'[d].type = "CREDIT_NOTE"
  BY <1>1 DEF DocStays, RowsInv, NotesStaySent, Numbered
<1>6. QED
  BY <1>1, <1>3, <1>4, <1>5 DEF Happened, DocStays

\* A step adds to the trail what it does.
AddsTruth ==
    \/ audit' = audit
    \/ \E action \in AuditAction, d \in Docs :
        /\ audit' = audit \cup {<<action, d>>}
        /\ Happened(action, d)'

\* An entry that says what the step has made true adds nothing untrue to the trail.
LEMMA RecordedTruth ==
    ASSUME NEW d \in Docs
    PROVE  /\ Recorded("INVOICE_CREATED", d) /\ Numbered(d)' => AddsTruth
           /\ Recorded("INVOICE_SENT", d) /\ Rows(d, "INVOICE_CREATED")' = 1 => AddsTruth
           /\ Recorded("INVOICE_DELETED", d) /\ invoice'[d].status = "DELETED" => AddsTruth
           /\ Recorded("CREDIT_NOTE_ISSUED", d) /\ invoice'[d].type = "CREDIT_NOTE" =>
                AddsTruth
           /\ Recorded("REMINDER_SENT", d) /\ invoice'[d].reminderSentAt > 0 => AddsTruth
           /\ Recorded("PAYMENT_RECEIVED", d) /\ Rows(d, "PAYMENT_RECEIVED")' = 1 =>
                AddsTruth
           /\ Recorded("PAYMENT_UNAPPLIED", d)
                /\ invoice'[d].status \in {"PAID", "CREDITED"} => AddsTruth
           /\ Recorded("INVOICE_OVERDUE", d) => AddsTruth
<1>1. ASSUME NEW action \in AuditAction, Recorded(action, d), Happened(action, d)'
      PROVE  AddsTruth
  BY <1>1 DEF Recorded, Added, AddsTruth
<1>2. /\ Numbered(d)' => Happened("INVOICE_CREATED", d)'
      /\ Rows(d, "INVOICE_CREATED")' = 1 => Happened("INVOICE_SENT", d)'
      /\ invoice'[d].status = "DELETED" => Happened("INVOICE_DELETED", d)'
      /\ invoice'[d].type = "CREDIT_NOTE" => Happened("CREDIT_NOTE_ISSUED", d)'
      /\ invoice'[d].reminderSentAt > 0 => Happened("REMINDER_SENT", d)'
      /\ Rows(d, "PAYMENT_RECEIVED")' = 1 => Happened("PAYMENT_RECEIVED", d)'
      /\ invoice'[d].status \in {"PAID", "CREDITED"} => Happened("PAYMENT_UNAPPLIED", d)'
      /\ Happened("INVOICE_OVERDUE", d)'
  BY DEF Happened
<1>3. AuditAction = {"INVOICE_CREATED", "INVOICE_SENT", "INVOICE_DELETED",
                     "CREDIT_NOTE_ISSUED", "REMINDER_SENT", "PAYMENT_RECEIVED",
                     "PAYMENT_UNAPPLIED", "INVOICE_OVERDUE"}
  BY DEF AuditAction
<1>4. QED
  BY <1>1, <1>2, <1>3

\* What the handlers of the admin routes record has happened.
LEMMA AdminAudits ==
    ASSUME TypeOK, RowsInv, RefersInv, ClockInv, [Next]_vars,
           NEW s \in Requests, AdminStep(s)
    PROVE  AddsTruth
<1>1. /\ StoreTypeOK
      /\ \A d \in Docs : invoice[d] \in InvoiceRow
      /\ req[s].number \in Nat /\ req[s].fees \in [lateFee: Nat, reminderFee: Nat]
      /\ req[s].step \in DocSteps => req[s].doc \in Docs
      /\ now \in Nat /\ now > 0
      /\ RowsInv'
  BY RowsNext DEF TypeOK, StoreTypeOK, Request, ClockInv
<1>2. \A d \in Docs :
        /\ Recorded("INVOICE_CREATED", d) /\ Numbered(d)' => AddsTruth
        /\ Recorded("INVOICE_SENT", d) /\ Rows(d, "INVOICE_CREATED")' = 1 => AddsTruth
        /\ Recorded("INVOICE_DELETED", d) /\ invoice'[d].status = "DELETED" => AddsTruth
        /\ Recorded("CREDIT_NOTE_ISSUED", d) /\ invoice'[d].type = "CREDIT_NOTE" => AddsTruth
        /\ Recorded("REMINDER_SENT", d) /\ invoice'[d].reminderSentAt > 0 => AddsTruth
  BY RecordedTruth
<1>3. audit' = audit => AddsTruth
  BY DEF AddsTruth
<1>4. CASE InsertDraft(s)
  <2>1. PICK d \in Docs, gross \in GrossTotals, due \in DueTimes :
            /\ CreateInvoiceWithItems(d, req[s].number, gross, due)
            /\ Recorded("INVOICE_CREATED", d)
    BY <1>4 DEF InsertDraft
  <2>2. CreateChanges(d, req[s].number, gross, due)
    BY <1>1, <2>1, CreateEffect
  <2>3. invoice'[d].status = "DRAFT"
    BY <2>2 DEF CreateChanges, NoRow
  <2>4. QED
    BY <1>2, <2>1, <2>3 DEF Numbered
<1>5. CASE Send(s) \/ Delete(s)
  <2>1. PICK d \in Docs : d = req[s].doc
    BY <1>1, <1>5 DEF Send, Delete, At, DocSteps
  <2>2. CASE MarkSent(d) /\ Recorded("INVOICE_SENT", d)
    <3>1. invoice'[d].type = "INVOICE" /\ invoice'[d].status = "SENT"
      <4>1. /\ invoice[d].status = "DRAFT"
            /\ invoice'[d] = [invoice[d] EXCEPT !.status = "SENT"]
        BY <1>1, <2>1, <2>2, SendEffect DEF MarkSent, IsDraft
      <4>2. invoice[d].type = "INVOICE"
        BY <1>1, <2>1, <4>1 DEF RowsInv, NotesStaySent, InvoiceRow
      <4>3. QED
        BY <1>1, <2>1, <4>1, <4>2 DEF InvoiceRow
    <3>2. Issued(d)' /\ RowsMatch(d)'
      BY <1>1, <2>1, <3>1 DEF RowsInv, LedgerRowsMatchStatus, Issued
    <3>3. Rows(d, "INVOICE_CREATED")' = 1
      BY <3>2 DEF RowsMatch, If
    <3>4. QED
      BY <1>2, <2>1, <2>2, <3>3
  <2>3. CASE DeleteDraftInvoice(d) /\ Recorded("INVOICE_DELETED", d)
    <3>1. invoice'[d].status = "DELETED"
      BY <1>1, <2>1, <2>3, DeleteEffect, ZenonT(40) DEF InvoiceRow
    <3>2. QED
      BY <1>2, <2>1, <2>3, <3>1
  <2>4. QED
    BY <1>3, <1>5, <2>1, <2>2, <2>3 DEF Send, Delete
<1>6. CASE IssueCredit(s)
  <2>1. req[s].doc \in Docs
    BY <1>1, <1>6 DEF IssueCredit, At, DocSteps
  <2>2. CASE \E note \in Docs :
                /\ CreateCreditNote(req[s].doc, note, req[s].number, req[s].fees, now)
                /\ Recorded("CREDIT_NOTE_ISSUED", note)
    <3>1. PICK note \in Docs :
                /\ CreateCreditNote(req[s].doc, note, req[s].number, req[s].fees, now)
                /\ Recorded("CREDIT_NOTE_ISSUED", note)
      BY <2>2
    <3>2. CreditChanges(req[s].doc, note, req[s].number, req[s].fees, now)
      BY <1>1, <2>1, <3>1, CreditEffect
    <3>3. invoice'[note].type = "CREDIT_NOTE"
      BY <3>2 DEF CreditChanges, NoRow
    <3>4. QED
      BY <1>2, <3>1, <3>3
  <2>3. QED
    BY <1>3, <1>6, <2>2 DEF IssueCredit
<1>7. CASE ChargeReminder(s) \/ StampReminder(s)
  <2>1. PICK d \in Docs : d = req[s].doc
    BY <1>1, <1>7 DEF ChargeReminder, StampReminder, At, DocSteps
  <2>2. ChargeReminderFee(d, now) => invoice'[d].reminderSentAt = now
    BY <1>1, <2>1 DEF ChargeReminderFee, StoreTypeOK, InvoiceRow
  <2>3. MarkReminderSent(d, now) => invoice'[d].reminderSentAt = now
    BY <1>1, <2>1 DEF MarkReminderSent, StoreTypeOK, InvoiceRow
  <2>4. QED
    BY <1>1, <1>2, <1>3, <1>7, <2>1, <2>2, <2>3
       DEF ChargeReminder, StampReminder, ReminderRecorded
<1>8. CASE \/ AllocateForInvoice(s) \/ AllocateForCredit(s) \/ ReadFees(s)
           \/ \E e \in Docs : \/ ReadToSend(s, e) \/ ReadToDelete(s, e)
                              \/ ReadToCredit(s, e) \/ ReadToRemind(s, e)
  BY <1>3, <1>8 DEF AllocateForInvoice, AllocateForCredit, ReadFees, ReadToSend, ReadToDelete,
                    ReadToCredit, ReadToRemind, Begin
<1>9. QED
  BY <1>4, <1>5, <1>6, <1>7, <1>8 DEF AdminStep

\* What the webhook records of an event has happened.
LEMMA PaymentAudits ==
    ASSUME TypeOK, RowsInv, RefersInv, ClockInv, [Next]_vars,
           NEW s \in Requests, ApplyEvent(s)
    PROVE  AddsTruth
<1>1. PICK e \in Events, d \in Docs :
        /\ e = req[s].event /\ d = req[s].doc
        /\ payment[e] \in Payment /\ payment[e].doc = d
  <2>1. req[s].event \in Events /\ req[s].doc \in Docs
    BY DEF TypeOK, ApplyEvent, At, DocSteps
  <2>2. payment[req[s].event].doc = req[s].doc
    BY DEF TypeOK, ApplyEvent, At
  <2>3. payment[req[s].event] \in Payment
    BY <2>1, <2>2, NullsAssumption DEF TypeOK, Payment, NoPayment
  <2>4. QED
    BY <2>1, <2>2, <2>3
<1>2. StoreTypeOK /\ payment[e].amount \in Int /\ invoice[d] \in InvoiceRow
  BY <1>1 DEF TypeOK, StoreTypeOK, Payment
<1>3. Issued(d)
  BY <1>1 DEF RefersInv, PaymentRefersTo
<1>4. CASE e \in processed
  BY <1>1, <1>4 DEF ApplyEvent, AddsTruth
<1>5. CASE e \notin processed /\ IsOpen(d)
  <2>1. Recorded("PAYMENT_RECEIVED", d) /\ MarkPaidWithin(d, payment[e].amount)
    BY <1>1, <1>5 DEF ApplyEvent, ClaimEventAndRun, Outcome
  <2>2. invoice'[d].type = "INVOICE" /\ invoice'[d].status = "PAID"
    BY <1>2, <1>5, <2>1, PayEffect DEF InvoiceRow, IsOpen
  <2>3. Issued(d)' /\ RowsMatch(d)'
    BY <1>1, <2>2, RowsNext DEF RowsInv, LedgerRowsMatchStatus, Issued
  <2>4. Rows(d, "PAYMENT_RECEIVED")' = 1
    BY <2>2, <2>3 DEF RowsMatch, If
  <2>5. Recorded("PAYMENT_RECEIVED", d) /\ Rows(d, "PAYMENT_RECEIVED")' = 1 => AddsTruth
    BY <1>1, RecordedTruth
  <2>6. QED
    BY <2>1, <2>4, <2>5
<1>6. CASE e \notin processed /\ ~IsOpen(d)
  <2>1. Recorded("PAYMENT_UNAPPLIED", d) /\ invoice' = invoice
    BY <1>1, <1>6 DEF ApplyEvent, ClaimEventAndRun, Outcome, MarkPaidWithin
  <2>2. invoice'[d].status \in {"PAID", "CREDITED"}
    BY <1>3, <1>6, <2>1 DEF Issued, IsOpen, OpenStatuses
  <2>3. QED
    BY <1>1, <2>1, <2>2, RecordedTruth
<1>7. QED
  BY <1>4, <1>5, <1>6

\* What any step records has happened.
LEMMA StepAudits ==
    ASSUME TypeOK, RowsInv, RefersInv, ClockInv, [Next]_vars
    PROVE  AddsTruth
<1>1. audit' = audit => AddsTruth
  BY DEF AddsTruth
<1>2. ASSUME NEW r \in Runners, RunStep(r) \/ FailRun(r)
      PROVE  AddsTruth
  <2>1. ASSUME NEW d \in Docs, ApplyOverdue(r, d)
        PROVE  AddsTruth
    BY <1>1, <2>1, RecordedTruth DEF ApplyOverdue
  <2>2. ASSUME NEW d \in Docs, SkipOverdue(r, d) \/ EnqueueNotice(r, d)
        PROVE  AddsTruth
    BY <1>1, <2>2 DEF SkipOverdue, EnqueueNotice
  <2>3. ReportRun(r) \/ FailRun(r) => AddsTruth
    BY <1>1 DEF ReportRun, FailRun
  <2>4. \A at \in 1 .. now : StartRun(r, at) => audit' = audit
    BY Zenon DEF StartRun
  <2>5. QED
    BY <1>1, <1>2, <2>1, <2>2, <2>3, <2>4 DEF RunStep
<1>3. ASSUME NEW s \in Requests, WebhookStep(s) \/ FailRequest(s)
      PROVE  AddsTruth
  <2>1. \A e \in Events : ReceiveEvent(s, e) => audit' = audit
    BY DEF ReceiveEvent
  <2>2. FailRequest(s) => audit' = audit
    BY DEF FailRequest
  <2>3. QED
    BY <1>1, <1>3, <2>1, <2>2, PaymentAudits DEF WebhookStep
<1>4. (\E e \in Events, d \in Docs : CustomerPays(e, d)) => audit' = audit
  BY DEF CustomerPays
<1>5. Tick \/ UNCHANGED vars => audit' = audit
  BY DEF Tick, vars, serviceVars
<1>6. QED
  BY <1>1, <1>2, <1>3, <1>4, <1>5, AdminAudits DEF Next

\* New entries are true, and old ones stay so.
LEMMA TrailNext ==
    ASSUME TypeOK, RowsInv, RefersInv, TrailInv, [Next]_vars
    PROVE  TrailInv'
<1>1. ClockInv'
  <2>1. \A d \in Docs : ~Numbered(d)' => invoice'[d].reminderSentAt = 0
    BY DocsStay DEF DocStays, TrailInv
  <2>2. now' > 0
    BY RunEffect DEF TrailInv, ClockInv, TypeOK
  <2>3. QED
    BY <2>1, <2>2 DEF ClockInv
<1>2. ASSUME NEW entry \in audit'
      PROVE  Happened(entry[1], entry[2])'
  <2>1. CASE entry \in audit
    <3>1. entry[2] \in Docs /\ Happened(entry[1], entry[2])
      BY <2>1 DEF TypeOK, TrailInv
    <3>2. QED
      BY <3>1, HappenedStays DEF TrailInv
  <2>2. CASE entry \notin audit
    <3>1. PICK action \in AuditAction, d \in Docs :
            entry = <<action, d>> /\ Happened(action, d)'
      BY <2>2, StepAudits DEF AddsTruth, TrailInv
    <3>2. entry[1] = action /\ entry[2] = d
      BY <3>1
    <3>3. QED
      BY <3>1, <3>2
  <2>3. QED
    BY <2>1, <2>2
<1>3. QED
  BY <1>1, <1>2 DEF TrailInv

\* Whatever is lost of it, the audit trail says only what happened: no sent
\* invoice that was not issued, no payment that was not posted, no reminder
\* nobody got, no payment left unapplied that could have been applied.
THEOREM TrailIsTrue == Spec => []AuditIsTruthful
<1>1. Init => RowsInv /\ RefersInv /\ TrailInv
  BY RowsInit, RefersInit, TrailInit
<1>2. TypeOK /\ RowsInv /\ RefersInv /\ TrailInv /\ [Next]_vars =>
        (RowsInv /\ RefersInv /\ TrailInv)'
  BY RowsNext, RefersNext, TrailNext
<1>3. TrailInv => AuditIsTruthful
  BY DEF TrailInv, Happened, AuditIsTruthful
<1>4. QED
  BY <1>1, <1>2, <1>3, TypeCorrect, PTL DEF Spec

-----------------------------------------------------------------------------
(* The receivable, seen from outside                                       *)

\* The three functions Receivable is instantiated with.
Phases     == [d \in Docs |-> PhaseOf(invoice[d])]
Principals == [d \in Docs |-> Sum(d, "INVOICE_CREATED")]
Claims     == [d \in Docs |-> Balance(d)]

\* What a step may do to one document, seen from outside.
PhaseMoves(d, from, to) == PhaseOf(invoice[d]) = from /\ PhaseOf(invoice[d])' = to
PrincipalStays(d) == Sum(d, "INVOICE_CREATED")' = Sum(d, "INVOICE_CREATED")

SeenAs(d) ==
    \/ /\ PhaseOf(invoice[d])' = PhaseOf(invoice[d])
       /\ PrincipalStays(d) /\ Balance(d)' = Balance(d)
    \/ /\ PhaseMoves(d, "none", "draft") \/ PhaseMoves(d, "draft", "discarded")
       /\ PrincipalStays(d) /\ Balance(d)' = Balance(d)
    \/ /\ PhaseMoves(d, "draft", "open")
       /\ Balance(d)' # 0 /\ Sum(d, "INVOICE_CREATED")' = Balance(d)'
    \/ /\ PhaseMoves(d, "open", "open")
       /\ PrincipalStays(d) /\ Balance(d)' > Balance(d)
    \/ /\ PhaseMoves(d, "open", "paid")
       /\ PrincipalStays(d) /\ Balance(d)' < Balance(d)

\* Each step that touches one document is one of those.
LEMMA AloneSeen ==
    ASSUME TypeOK, RowsInv, BookInv, RefersInv, NEW d \in Docs, AloneSteps(d)
    PROVE  SeenAs(d)
<1>1. /\ invoice[d].type = "CREDIT_NOTE" => invoice[d].status = "SENT"
      /\ invoice[d].type \in {"INVOICE", "CREDIT_NOTE"}
      /\ \A t \in TransactionType : Sum(d, t) \in Int
      /\ invoice[d].type = "INVOICE" /\ Numbered(d) => invoice[d].gross # 0
      /\ invoice[d].gross \in Int
  BY Figures DEF RowsInv, NotesStaySent, BookInv, Explained, InvoiceRow
<1>2. AddsNothing(d) => PrincipalStays(d) /\ Balance(d)' = Balance(d)
  BY DEF AddsNothing, PrincipalStays, Balance, TransactionType
<1>3. CASE Drafts(d)
  <2>1. PhaseMoves(d, "none", "draft")
    BY <1>1, <1>3 DEF Drafts, NewRow, PhaseMoves, PhaseOf
  <2>2. QED
    BY <1>2, <1>3, <2>1 DEF Drafts, NewRow, SeenAs
<1>4. CASE Discards(d)
  <2>1. PhaseMoves(d, "draft", "discarded")
    BY <1>1, <1>4 DEF Discards, Fixed, Moves, PhaseMoves, PhaseOf
  <2>2. QED
    BY <1>2, <1>4, <2>1 DEF Discards, SeenAs
<1>5. CASE Issues(d)
  <2>1. PhaseMoves(d, "draft", "open")
    BY <1>1, <1>5 DEF Issues, Fixed, Moves, PhaseMoves, PhaseOf
  <2>2. \A t \in TransactionType : Sum(d, t) = 0
    BY <1>5, UnissuedRowless DEF Issues, Moves, Issued
  <2>3. invoice[d].gross # 0
    BY <1>1, <1>5 DEF Issues, Moves, Numbered
  <2>4. /\ Sum(d, "INVOICE_CREATED")' = invoice[d].gross
        /\ \A t \in TransactionType \ {"INVOICE_CREATED"} : Sum(d, t)' = 0
    BY <1>1, <1>5, <2>2 DEF Issues, Adds, TransactionType
  <2>5. Balance(d)' = invoice[d].gross
    BY <1>1, <2>4 DEF Balance, TransactionType
  <2>6. QED
    BY <2>1, <2>3, <2>4, <2>5 DEF SeenAs
<1>6. CASE Pays(d)
  <2>1. PhaseMoves(d, "open", "paid")
    BY <1>6 DEF Pays, Fixed, Closes, IsOpen, OpenStatuses, PhaseMoves, PhaseOf
  <2>2. PICK e \in Events : /\ payment[e].amount > 0 /\ payment[e].amount \in Int
                            /\ Adds(d, "PAYMENT_RECEIVED", payment[e].amount)
    BY <1>6 DEF Pays, RefersInv, PaymentRefersTo, Payment
  <2>3. PrincipalStays(d) /\ Balance(d)' < Balance(d)
    BY <1>1, <2>2 DEF Adds, PrincipalStays, Balance, TransactionType
  <2>4. QED
    BY <2>1, <2>3 DEF SeenAs
<1>7. CASE Charges(d)
  <2>1. PhaseMoves(d, "open", "open")
    BY <1>7 DEF Charges, Fixed, IsOpen, OpenStatuses, PhaseMoves, PhaseOf
  <2>2. PrincipalStays(d) /\ Balance(d)' > Balance(d)
    BY <1>1, <1>7 DEF Charges, Adds, PrincipalStays, Balance, TransactionType,
                      REMINDER_FEE_ORE
  <2>3. QED
    BY <2>1, <2>2 DEF SeenAs
<1>8. CASE Stamps(d)
  <2>1. PhaseOf(invoice[d])' = PhaseOf(invoice[d])
    BY <1>8 DEF Stamps, Fixed, PhaseOf
  <2>2. QED
    BY <1>2, <1>8, <2>1 DEF Stamps, SeenAs
<1>9. CASE Accrues(d)
  <2>1. PhaseMoves(d, "open", "open")
    BY <1>9 DEF Accrues, Fixed, Closes, IsOpen, OpenStatuses, PhaseMoves, PhaseOf
  <2>2. PICK r \in Runners :
            IF ChargeAt(r, d) > 0 THEN Adds(d, "LATE_FEE_ADDED", ChargeAt(r, d))
                                  ELSE AddsNothing(d)
    BY <1>9 DEF Accrues
  <2>3. ChargeAt(r, d) \in Int
    BY RunAmounts
  <2>4. CASE ChargeAt(r, d) > 0
    <3>1. PrincipalStays(d) /\ Balance(d)' > Balance(d)
      BY <1>1, <2>2, <2>3, <2>4 DEF Adds, PrincipalStays, Balance, TransactionType
    <3>2. QED
      BY <2>1, <3>1 DEF SeenAs
  <2>5. CASE ~(ChargeAt(r, d) > 0)
    BY <1>2, <2>1, <2>2, <2>5 DEF SeenAs, PhaseMoves
  <2>6. QED
    BY <2>4, <2>5
<1>10. QED
  BY <1>3, <1>4, <1>5, <1>6, <1>7, <1>8, <1>9 DEF AloneSteps

\* What is left alone looks the same.
LEMMA SameSeen ==
    ASSUME NEW d \in Docs, Same(d) \/ UNCHANGED <<invoice, ledger>>
    PROVE  /\ PhaseOf(invoice[d])' = PhaseOf(invoice[d])
           /\ PrincipalStays(d) /\ Balance(d)' = Balance(d)
<1>1. invoice'[d] = invoice[d]
  BY DEF Same
<1>2. \A t \in TransactionType : Sum(d, t)' = Sum(d, t)
  BY DEF Same, Sum
<1>3. PhaseOf(invoice[d])' = PhaseOf(invoice[d])
  BY <1>1 DEF PhaseOf
<1>4. QED
  BY <1>2, <1>3 DEF PrincipalStays, Balance, TransactionType

\* Receivable sees a credit as a cancellation that waives no more than the fees.
LEMMA CreditSeen ==
    ASSUME TypeOK, RowsInv, BookInv, NEW d \in Docs, NEW note \in Docs,
           Credits(d, note)
    PROVE  /\ d # note
           /\ PhaseMoves(d, "open", "cancelled") /\ PhaseMoves(note, "none", "creditNote")
           /\ PrincipalStays(d) /\ PrincipalStays(note)
           /\ Balance(note)' = Balance(note)
           /\ Balance(d)' \in 0 .. (Balance(d) - Sum(d, "INVOICE_CREATED"))
<1>1. /\ \A t \in TransactionType : Sum(d, t) \in Int /\ Sum(note, t) \in Int
      /\ invoice[note].type = "CREDIT_NOTE" => invoice[note].status = "SENT"
      /\ invoice[d].gross \in Int
  BY Figures DEF RowsInv, NotesStaySent
<1>2. /\ d # note
      /\ PhaseMoves(d, "open", "cancelled") /\ PhaseMoves(note, "none", "creditNote")
  <2>1. PhaseMoves(d, "open", "cancelled")
    BY DEF Credits, Fixed, Closes, IsOpen, OpenStatuses, PhaseMoves, PhaseOf
  <2>2. PhaseMoves(note, "none", "creditNote")
    BY <1>1 DEF Credits, NewRow, PhaseMoves, PhaseOf
  <2>3. QED
    BY <2>1, <2>2 DEF Credits
<1>3. AddsNothing(note)
  BY DEF Credits, NewRow
<1>4. PrincipalStays(note) /\ Balance(note)' = Balance(note)
  BY <1>3 DEF AddsNothing, PrincipalStays, Balance, TransactionType
<1>5. PICK s \in Requests :
        /\ At(s, "cancel") /\ req[s].doc = d
        /\ Waives(d, "LATE_FEE_WAIVED", req[s].fees.lateFee)
        /\ Waives(d, "REMINDER_FEE_WAIVED", req[s].fees.reminderFee)
  BY DEF Credits
<1>6. /\ req[s].fees.lateFee \in 0 .. Sum(d, "LATE_FEE_ADDED")
      /\ req[s].fees.reminderFee \in 0 .. Sum(d, "REMINDER_FEE_ADDED")
  BY <1>5, Figures DEF BookInv, FeesReadCovered, TransactionType
<1>7. /\ Sum(d, "INVOICE_CREATED") = invoice[d].gross
      /\ \A t \in {"PAYMENT_RECEIVED", "CREDIT_NOTE_ISSUED", "LATE_FEE_WAIVED",
                   "REMINDER_FEE_WAIVED"} : Sum(d, t) = 0
  <2>1. IsOpen(d)
    BY DEF Credits, Closes
  <2>2. Issued(d)
    BY <2>1, OpenUnwaived
  <2>3. QED
    BY <2>1, <2>2, OpenUnwaived DEF BookInv, Explained
<1>8. /\ Sum(d, "INVOICE_CREATED")' = Sum(d, "INVOICE_CREATED")
      /\ Sum(d, "LATE_FEE_ADDED")' = Sum(d, "LATE_FEE_ADDED")
      /\ Sum(d, "REMINDER_FEE_ADDED")' = Sum(d, "REMINDER_FEE_ADDED")
      /\ Sum(d, "PAYMENT_RECEIVED")' = 0
      /\ Sum(d, "CREDIT_NOTE_ISSUED")' = -invoice[d].gross
      /\ Sum(d, "LATE_FEE_WAIVED")' = -req[s].fees.lateFee
      /\ Sum(d, "REMINDER_FEE_WAIVED")' = -req[s].fees.reminderFee
  <2>1. \A u \in {"INVOICE_CREATED", "LATE_FEE_ADDED", "REMINDER_FEE_ADDED",
                  "PAYMENT_RECEIVED"} : Sum(d, u)' = Sum(d, u)
    BY DEF Credits, TransactionType
  <2>2. Sum(d, "CREDIT_NOTE_ISSUED")' = -invoice[d].gross
    BY <1>1, <1>7 DEF Credits
  <2>3. /\ Sum(d, "LATE_FEE_WAIVED")' = -req[s].fees.lateFee
        /\ Sum(d, "REMINDER_FEE_WAIVED")' = -req[s].fees.reminderFee
    BY <1>5, <1>6, <1>7 DEF Waives
  <2>4. QED
    BY <1>7, <2>1, <2>2, <2>3
<1>9. Balance(d)' \in 0 .. (Balance(d) - Sum(d, "INVOICE_CREATED"))
  BY <1>1, <1>6, <1>7, <1>8 DEF Balance, TransactionType
<1>10. QED
  BY <1>2, <1>4, <1>8, <1>9 DEF PrincipalStays

\* The initial states of the handlers are initial states of Receivable.
LEMMA AbstractInit == Init => Abstract!Init
<1> SUFFICES ASSUME Init PROVE Abstract!Init
  OBVIOUS
<1>1. \A d \in Docs : PhaseOf(invoice[d]) = "none"
  BY DEF Init, StoreInit, NoRow, PhaseOf
<1>2. \A d \in Docs, t \in TransactionType : Sum(d, t) = 0
  BY DEF Init, StoreInit, Sum
<1>3. \A d \in Docs : Sum(d, "INVOICE_CREATED") = 0 /\ Balance(d) = 0
  BY <1>2 DEF Balance, TransactionType
<1>4. QED
  BY <1>1, <1>3 DEF Abstract!Init

\* A step that touches d and looks like one of SeenAs is a step of d.
LEMMA SeenStep ==
    ASSUME NEW d \in Docs, SeenAs(d),
           \A e \in Docs \ {d} :
                /\ PhaseOf(invoice[e])' = PhaseOf(invoice[e])
                /\ PrincipalStays(e) /\ Balance(e)' = Balance(e)
    PROVE  [Abstract!Next]_Abstract!vars
<1>1. /\ Phases' = [Phases EXCEPT ![d] = PhaseOf(invoice[d])']
      /\ Principals' = [Principals EXCEPT ![d] = Sum(d, "INVOICE_CREATED")']
      /\ Claims' = [Claims EXCEPT ![d] = Balance(d)']
  BY DEF Phases, Principals, Claims, PrincipalStays
<1>2. /\ Phases[d] = PhaseOf(invoice[d])
      /\ Principals[d] = Sum(d, "INVOICE_CREATED") /\ Claims[d] = Balance(d)
      /\ Claims'[d] = Balance(d)'
  BY DEF Phases, Principals, Claims
<1>3. /\ PrincipalStays(d) => Principals' = Principals
      /\ Balance(d)' = Balance(d) => Claims' = Claims
      /\ PhaseOf(invoice[d])' = PhaseOf(invoice[d]) => Phases' = Phases
  BY <1>1, <1>2 DEF PrincipalStays, Phases, Principals, Claims
<1>4. ASSUME PhaseMoves(d, "none", "draft") \/ PhaseMoves(d, "draft", "discarded"),
             PrincipalStays(d), Balance(d)' = Balance(d)
      PROVE  Abstract!Draft(d) \/ Abstract!Discard(d)
  <2>1. Principals' = Principals /\ Claims' = Claims
    BY <1>3, <1>4
  <2>2. \/ Phases[d] = "none" /\ Phases' = [Phases EXCEPT ![d] = "draft"]
        \/ Phases[d] = "draft" /\ Phases' = [Phases EXCEPT ![d] = "discarded"]
    BY <1>1, <1>2, <1>4 DEF PhaseMoves
  <2>3. QED
    BY <2>1, <2>2 DEF Abstract!Draft, Abstract!Discard, Abstract!Move, Phases, Principals, Claims
<1>5. ASSUME PhaseMoves(d, "draft", "open"), Balance(d)' # 0,
             Sum(d, "INVOICE_CREATED")' = Balance(d)'
      PROVE  Abstract!Issue(d)
  <2>1. /\ Phases[d] = "draft" /\ Phases' = [Phases EXCEPT ![d] = "open"]
        /\ Principals' = [Principals EXCEPT ![d] = Claims'[d]]
        /\ Claims' = [Claims EXCEPT ![d] = Claims'[d]]
        /\ Claims'[d] # 0
    BY <1>1, <1>2, <1>5 DEF PhaseMoves
  <2>2. QED
    BY <2>1 DEF Abstract!Issue, Abstract!Move, Abstract!ClaimOnly, Phases, Principals, Claims
<1>6. ASSUME PhaseMoves(d, "open", "open"), PrincipalStays(d), Balance(d)' > Balance(d)
      PROVE  Abstract!Charge(d)
  <2>1. /\ Phases[d] = "open" /\ Phases' = Phases /\ Principals' = Principals
        /\ Claims' = [Claims EXCEPT ![d] = Claims'[d]]
        /\ Claims'[d] > Claims[d]
    BY <1>1, <1>2, <1>3, <1>6 DEF PhaseMoves
  <2>2. QED
    BY <2>1 DEF Abstract!Charge, Abstract!ClaimOnly, Phases, Principals, Claims
<1>7. ASSUME PhaseMoves(d, "open", "paid"), PrincipalStays(d), Balance(d)' < Balance(d)
      PROVE  Abstract!Pay(d)
  <2>1. /\ Phases[d] = "open" /\ Phases' = [Phases EXCEPT ![d] = "paid"]
        /\ Principals' = Principals
        /\ Claims' = [Claims EXCEPT ![d] = Claims'[d]]
        /\ Claims'[d] < Claims[d]
    BY <1>1, <1>2, <1>3, <1>7 DEF PhaseMoves
  <2>2. QED
    BY <2>1 DEF Abstract!Pay, Abstract!Move, Abstract!ClaimOnly, Phases, Principals, Claims
<1>8. ASSUME PhaseOf(invoice[d])' = PhaseOf(invoice[d]), PrincipalStays(d),
             Balance(d)' = Balance(d)
      PROVE  UNCHANGED Abstract!vars
  <2>1. Phases' = Phases /\ Principals' = Principals /\ Claims' = Claims
    BY <1>3, <1>8
  <2>2. QED
    BY <2>1 DEF Abstract!vars, Phases, Principals, Claims
<1>9. QED
  BY <1>4, <1>5, <1>6, <1>7, <1>8 DEF SeenAs, Abstract!Next

\* A credit is a cancellation.
LEMMA CancelStep ==
    ASSUME TypeOK, RowsInv, BookInv, NEW d \in Docs, NEW note \in Docs,
           Credits(d, note), \A e \in Docs \ {d, note} : Same(e)
    PROVE  Abstract!Cancel(d, note)
<1>1. /\ d # note
      /\ PhaseMoves(d, "open", "cancelled") /\ PhaseMoves(note, "none", "creditNote")
      /\ \A e \in Docs : PrincipalStays(e)
      /\ \A e \in Docs \ {d} : Balance(e)' = Balance(e)
      /\ \A e \in Docs \ {d, note} : PhaseOf(invoice[e])' = PhaseOf(invoice[e])
      /\ Balance(d)' \in 0 .. (Balance(d) - Sum(d, "INVOICE_CREATED"))
  BY CreditSeen, SameSeen
<1>2. /\ Phases[d] = "open" /\ Phases[note] = "none"
      /\ Phases' = [Phases EXCEPT ![d] = "cancelled", ![note] = "creditNote"]
  BY <1>1 DEF PhaseMoves, Phases
<1>3. Principals' = Principals
  BY <1>1 DEF PrincipalStays, Principals
<1>4. /\ Claims' = [Claims EXCEPT ![d] = Claims'[d]]
      /\ Claims'[d] \in 0 .. (Claims[d] - Principals[d])
  BY <1>1 DEF Claims, Principals
<1>5. QED
  BY <1>2, <1>3, <1>4 DEF Abstract!Cancel, Abstract!ClaimOnly, Phases, Principals, Claims

\* Every step of the handlers is a step of Receivable, or a stutter.
LEMMA AbstractStep ==
    ASSUME TypeOK, RowsInv, BookInv, RefersInv, [Next]_vars
    PROVE  [Abstract!Next]_Abstract!vars
<1>1. CASE UNCHANGED <<invoice, ledger>>
  <2>1. \A e \in Docs : /\ PhaseOf(invoice[e])' = PhaseOf(invoice[e])
                        /\ PrincipalStays(e) /\ Balance(e)' = Balance(e)
    BY <1>1, SameSeen
  <2>2. Phases' = Phases /\ Principals' = Principals /\ Claims' = Claims
    BY <2>1 DEF Phases, Principals, Claims, PrincipalStays
  <2>3. QED
    BY <2>2 DEF Abstract!vars, Phases, Principals, Claims
<1>2. ASSUME NEW d \in Docs, AloneSteps(d), \A e \in Docs \ {d} : Same(e)
      PROVE  [Abstract!Next]_Abstract!vars
  <2>1. SeenAs(d)
    BY <1>2, AloneSeen
  <2>2. \A e \in Docs \ {d} : /\ PhaseOf(invoice[e])' = PhaseOf(invoice[e])
                              /\ PrincipalStays(e) /\ Balance(e)' = Balance(e)
    BY <1>2, SameSeen
  <2>3. QED
    BY <2>1, <2>2, SeenStep
<1>3. ASSUME NEW d \in Docs, NEW note \in Docs, Credits(d, note),
             \A e \in Docs \ {d, note} : Same(e)
      PROVE  Abstract!Next
  <2>1. Abstract!Cancel(d, note)
    BY <1>3, CancelStep
  <2>2. QED
    BY <2>1 DEF Abstract!Next
<1>4. QED
  BY <1>1, <1>2, <1>3, StepEffect DEF StoreEffect

\* The handlers of InvoiceService, whatever interleaves, fails or is started
\* twice, implement the promise of Receivable: an open invoice's claim only
\* grows, it is settled once, by a payment or by a credit that leaves the
\* customer owing no less than nothing, and then its ledger never moves.
THEOREM ReceivableImplemented == Spec => ImplementsReceivable
<1>1. Init => RowsInv /\ BookInv /\ RefersInv
  BY RowsInit, BookInit, RefersInit
<1>2. TypeOK /\ RowsInv /\ BookInv /\ RefersInv /\ [Next]_vars =>
        (RowsInv /\ BookInv /\ RefersInv)'
  BY RowsNext, BookNext, RefersNext
<1>3. TypeOK /\ RowsInv /\ BookInv /\ RefersInv /\ [Next]_vars =>
        [Abstract!Next]_Abstract!vars
  BY AbstractStep
<1>4. QED
  BY <1>1, <1>2, <1>3, AbstractInit, TypeCorrect, PTL
     DEF Spec, ImplementsReceivable, Abstract!Spec

-----------------------------------------------------------------------------
(* What was paid and what is due                                           *)

\* The payment at hand of an invoice that is still open is covered by its
\* balance; and once it is PAID the balance is not negative.
PaymentCovered(e, d) ==
    payment[e] \in Payment /\ payment[e].doc = d /\ IsOpen(d) =>
        payment[e].amount <= Balance(d)

PaidWithinDue(d) ==
    Issued(d) /\ invoice[d].status = "PAID" => Balance(d) >= 0

PaymentInv ==
    /\ \A e \in Events, d \in Docs : PaymentCovered(e, d)
    /\ \A d \in Docs : PaidWithinDue(d)

\* The balance of an invoice only grows while it stays open, falls by
\* a payment when that closes it, and stays when it was closed before.
BalanceMoves(d) ==
    \/ IsOpen(d) /\ IsOpen(d)' /\ Balance(d) <= Balance(d)'
    \/ /\ IsOpen(d) /\ invoice'[d].status = "PAID"
       /\ \E e \in Events :
            /\ payment[e] \in Payment /\ payment[e].doc = d
            /\ Balance(d)' = Balance(d) - payment[e].amount
    \/ invoice'[d].status = "CREDITED"
    \/ /\ ~IsOpen(d) /\ ~IsOpen(d)'
       /\ invoice'[d].status = invoice[d].status /\ Balance(d)' = Balance(d)

\* The sums of the ledger stay integers.
LEMMA FiguresNext ==
    ASSUME TypeOK, [Next]_vars, NEW d \in Docs
    PROVE  \A t \in TransactionType : Sum(d, t)' \in Int
<1>1. TypeOK'
  BY NextType
<1>2. QED
  BY <1>1 DEF TypeOK, StoreTypeOK, Ledger, Entry, Sum

\* The balance of an issued invoice falls only by its payment and its credit.
LEMMA BalanceEffect ==
    ASSUME TypeOK, RowsInv, BookInv, RefersInv, [Next]_vars, NEW d \in Docs, Issued(d)
    PROVE  BalanceMoves(d)
<1>1. \A t \in TransactionType : Sum(d, t) \in Int
  BY Figures
<1>2. Balance(d) \in Int
  BY <1>1 DEF Balance, TransactionType
<1>3. Balance(d)' \in Int
  BY FiguresNext DEF Balance, TransactionType
<1>4. CASE Same(d) \/ UNCHANGED <<invoice, ledger>>
  <2>1. Balance(d)' = Balance(d)
    BY <1>4, SameSeen
  <2>2. invoice'[d] = invoice[d]
    BY <1>4 DEF Same
  <2>3. QED
    BY <1>2, <2>1, <2>2 DEF BalanceMoves, IsOpen
<1>5. CASE Pays(d)
  <2>1. PICK e \in Events : /\ payment[e] \in Payment /\ payment[e].doc = d
                            /\ Adds(d, "PAYMENT_RECEIVED", payment[e].amount)
    BY <1>5 DEF Pays
  <2>2. payment[e].amount \in Int
    BY <2>1 DEF Payment
  <2>3. Balance(d)' = Balance(d) - payment[e].amount
    BY <1>1, <2>1, <2>2 DEF Adds, Balance, TransactionType
  <2>4. QED
    BY <1>5, <2>1, <2>3 DEF Pays, Closes, BalanceMoves
<1>6. CASE AloneSteps(d) /\ ~Pays(d)
  <2>1. ~Drafts(d) /\ ~Issues(d) /\ ~Discards(d)
    BY DEF Issued, Drafts, NewRow, Issues, Discards, Moves
  <2>2. CASE Charges(d) \/ Accrues(d)
    <3>1. IsOpen(d) /\ IsOpen(d)'
      BY <2>2 DEF Charges, Accrues, Fixed, Closes, IsOpen, OpenStatuses
    <3>2. SeenAs(d)
      BY <1>6, AloneSeen
    <3>3. PhaseOf(invoice[d]) = "open" /\ PhaseOf(invoice[d])' = "open"
      BY <3>1 DEF IsOpen, OpenStatuses, PhaseOf
    <3>4. Balance(d) <= Balance(d)'
      BY <1>2, <1>3, <3>2, <3>3 DEF SeenAs, PhaseMoves
    <3>5. QED
      BY <3>1, <3>4 DEF BalanceMoves
  <2>3. CASE Stamps(d)
    <3>1. Balance(d)' = Balance(d)
      BY <2>3 DEF Stamps, AddsNothing, Balance, TransactionType
    <3>2. QED
      BY <1>2, <2>3, <3>1 DEF Stamps, Fixed, IsOpen, BalanceMoves
  <2>4. QED
    BY <1>6, <2>1, <2>2, <2>3 DEF AloneSteps
<1>7. ASSUME NEW c \in Docs, NEW note \in Docs, Credits(c, note), d \in {c, note}
      PROVE  BalanceMoves(d)
  BY <1>7 DEF Credits, NewRow, Closes, Issued, BalanceMoves
<1>8. QED
  BY <1>4, <1>5, <1>6, <1>7, StepEffect DEF StoreEffect

\* What an invoice was due at any time its ledger covers while it is open.
LEMMA EverDueCovered ==
    ASSUME TypeOK, RowsInv, BookInv, NEW d \in Docs, IsOpen(d), NEW amount \in EverDue(d)
    PROVE  amount <= Balance(d)
<1>1. /\ Issued(d)
      /\ \A t \in {"PAYMENT_RECEIVED", "CREDIT_NOTE_ISSUED", "LATE_FEE_WAIVED",
                   "REMINDER_FEE_WAIVED"} : Sum(d, t) = 0
  BY OpenUnwaived
<1>2. /\ invoice[d].gross \in Int /\ invoice[d].lateFee \in Nat
      /\ invoice[d].reminderFee \in Nat
      /\ Sum(d, "LATE_FEE_ADDED") \in Int
  BY Figures DEF TransactionType
<1>3. /\ Sum(d, "INVOICE_CREATED") = invoice[d].gross
      /\ Sum(d, "REMINDER_FEE_ADDED") = invoice[d].reminderFee
      /\ invoice[d].lateFee <= Sum(d, "LATE_FEE_ADDED")
  BY <1>1 DEF BookInv, Explained
<1>4. PICK late \in 0 .. invoice[d].lateFee, reminder \in {0, invoice[d].reminderFee} :
            amount = invoice[d].gross + late + reminder
  BY DEF EverDue, TotalDueOre
<1>5. QED
  BY <1>1, <1>2, <1>3, <1>4 DEF Balance

\* At first nobody has paid.
LEMMA PaymentInit == Init => PaymentInv
<1> SUFFICES ASSUME Init PROVE PaymentInv
  OBVIOUS
<1>1. /\ \A e \in Events : payment[e].doc \notin Docs
      /\ \A d \in Docs : invoice[d].status = "ABSENT"
  BY NullsAssumption DEF Init, StoreInit, NoRow, NoPayment
<1>2. QED
  BY <1>1 DEF PaymentInv, PaymentCovered, PaidWithinDue, Payment

\* What a customer paid stays within what is due while the invoice is open.
LEMMA PaymentNext ==
    ASSUME TypeOK, RowsInv, BookInv, RefersInv, PaymentInv, [Next]_vars
    PROVE  PaymentInv'
<1>1. ASSUME NEW e \in Events, NEW d \in Docs
      PROVE  PaymentCovered(e, d)'
  <2>1. SUFFICES ASSUME payment'[e] \in Payment, payment'[e].doc = d, IsOpen(d)'
                 PROVE  payment'[e].amount <= Balance(d)'
    BY DEF PaymentCovered
  <2>2. CASE payment'[e] = payment[e]
    <3>1. Issued(d) /\ payment[e].amount \in Int
      BY <2>1, <2>2 DEF RefersInv, PaymentRefersTo, Payment
    <3>2. IsOpen(d) /\ Balance(d) <= Balance(d)'
      BY <2>1, <3>1, BalanceEffect DEF BalanceMoves, IsOpen, OpenStatuses
    <3>3. payment[e].amount <= Balance(d)
      BY <2>1, <2>2, <3>2 DEF PaymentInv, PaymentCovered
    <3>4. Balance(d) \in Int /\ Balance(d)' \in Int
      BY Figures, FiguresNext DEF Balance, TransactionType
    <3>5. QED
      BY <2>2, <3>1, <3>2, <3>3, <3>4
  <2>3. CASE /\ UNCHANGED <<invoice, ledger>>
             /\ payment'[e].amount \in EverDue(d)
    <3>1. IsOpen(d) /\ Balance(d)' = Balance(d)
      BY <2>1, <2>3, SameSeen DEF IsOpen
    <3>2. QED
      BY <2>3, <3>1, EverDueCovered
  <2>4. PaymentStep(e)
    BY PaymentEffect
  <2>5. ASSUME NEW c \in Docs, NEW amount \in EverDue(c),
               payment'[e] = [doc |-> c, amount |-> amount]
        PROVE  payment'[e].amount \in EverDue(d)
    BY <2>1, <2>5
  <2>6. QED
    BY <2>2, <2>3, <2>4, <2>5 DEF PaymentStep
<1>2. ASSUME NEW d \in Docs
      PROVE  PaidWithinDue(d)'
  <2>1. SUFFICES ASSUME Issued(d)', invoice'[d].status = "PAID"
                 PROVE  Balance(d)' >= 0
    BY DEF PaidWithinDue
  <2>2. Balance(d) \in Int
    BY Figures DEF Balance, TransactionType
  <2>3. CASE Issued(d)
    <3>1. CASE \E e \in Events :
                /\ payment[e] \in Payment /\ payment[e].doc = d /\ IsOpen(d)
                /\ Balance(d)' = Balance(d) - payment[e].amount
      <4>1. PICK e \in Events :
                /\ payment[e] \in Payment /\ payment[e].doc = d /\ IsOpen(d)
                /\ Balance(d)' = Balance(d) - payment[e].amount
        BY <3>1
      <4>2. payment[e].amount <= Balance(d) /\ payment[e].amount \in Int
        BY <4>1 DEF PaymentInv, PaymentCovered, Payment
      <4>3. QED
        BY <2>2, <4>1, <4>2
    <3>2. CASE invoice'[d].status = invoice[d].status /\ Balance(d)' = Balance(d)
      BY <2>1, <2>3, <3>2 DEF PaymentInv, PaidWithinDue
    <3>3. QED
      BY <2>1, <2>3, <3>1, <3>2, BalanceEffect DEF BalanceMoves, IsOpen, OpenStatuses
  <2>4. CASE ~Issued(d)
    <3>1. ~IsOpen(d)
      BY <2>4 DEF IsOpen, OpenStatuses, Issued
    <3>2. CASE Same(d) \/ UNCHANGED <<invoice, ledger>>
      BY <2>1, <2>4, <3>2 DEF Same, Issued
    <3>3. CASE AloneSteps(d)
      BY <2>1, <2>4, <3>1, <3>3 DEF AloneSteps, Drafts, Issues, Discards, Pays, Charges,
                                    Stamps, Accrues, Moves, Closes, Fixed, Issued
    <3>4. ASSUME NEW c \in Docs, NEW note \in Docs, Credits(c, note), d \in {c, note}
          PROVE  FALSE
      BY <2>1, <3>4 DEF Credits, Closes
    <3>5. QED
      BY <3>2, <3>3, <3>4, StepEffect DEF StoreEffect
  <2>5. QED
    BY <2>3, <2>4
<1>3. QED
  BY <1>1, <1>2 DEF PaymentInv
=============================================================================
