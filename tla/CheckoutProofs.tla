--------------------------- MODULE CheckoutProofs ---------------------------
(***************************************************************************)
(* What is proved of payment links: that the customers they let pay are    *)
(* those InvoiceService expects, so that everything proved of its handlers *)
(* holds beside the links as well; that no more is taken than is due; and, *)
(* for an invoice whose links were not crossed, that one link works, one   *)
(* payment is made, and the invoice names it.                              *)
(*                                                                         *)
(* With one overdue worker (OneWorker): with two of them the interest of   *)
(* an invoice may fall, and a link may be for more than it was ever due.   *)
(***************************************************************************)
EXTENDS Checkout, InvoiceServiceProofs

-----------------------------------------------------------------------------
(* What links and sessions are for                                         *)

\* A request for a link works on an issued invoice and asks for what that was
\* due at some time; once it has a session, the session is its invoice's.
LinkRefersTo(l, d) ==
    linking[l].doc = d => Issued(d) /\ linking[l].amount \in EverDue(d)

LinkFormed(l) ==
    LET at == linking[l] IN
    /\ at.step = "idle" => at.doc = NoDoc
    /\ at.step # "idle" => at.doc \in Docs
    /\ at.step = "expire" => at.old \in Events
    /\ at.step \in {"expire", "attach"} =>
            /\ at.new \in Events
            /\ checkout[at.new].state # "none" /\ checkout[at.new].doc = at.doc

\* A session is for what its invoice was due at some time, and is paid once.
SessionRefersTo(e, d) ==
    checkout[e].state # "none" /\ checkout[e].doc = d =>
        Issued(d) /\ checkout[e].amount > 0 /\ checkout[e].amount \in EverDue(d)

SessionFormed(e) ==
    /\ checkout[e].state # "none" => checkout[e].doc \in Docs
    /\ checkout[e].state # "complete" => payment[e] = NoPayment

LinksInv ==
    /\ \A l \in LinkRequests : LinkFormed(l) /\ \A d \in Docs : LinkRefersTo(l, d)
    /\ \A e \in Events : SessionFormed(e) /\ \A d \in Docs : SessionRefersTo(e, d)

\* What is known of the handlers' part of the state.
HandlersInv == TypeOK /\ RowsInv /\ BookInv /\ RefersInv /\ WorkerInv
BaseInv == CheckoutTypeOK /\ HandlersInv /\ LinksInv

\* What is known of the handlers holds after each of their steps.
LEMMA HandlersNext ==
    ASSUME OneWorker, HandlersInv, [Next]_vars
    PROVE  HandlersInv'
BY NextType, RowsNext, BookNext, RefersNext, WorkerNext DEF HandlersInv

\* What an invoice was due at some time it was due at some time: its interest
\* does not fall, and its reminder fee comes once.
LEMMA EverDueGrows ==
    ASSUME HandlersInv, [Next]_vars, NEW d \in Docs, Issued(d)
    PROVE  EverDue(d) \subseteq EverDue(d)'
<1>1. /\ invoice'[d].gross = invoice[d].gross
      /\ invoice[d].lateFee <= invoice'[d].lateFee
      /\ invoice[d].reminderFee \in {0, invoice'[d].reminderFee}
  <2>1. invoice[d].lateFee \in Nat
    BY Figures DEF HandlersInv
  <2>2. CASE Same(d) \/ UNCHANGED <<invoice, ledger>>
    BY <2>1, <2>2 DEF Same
  <2>3. CASE Accrues(d)
    <3>1. PICK r \in Runners :
            /\ run[r].step = "apply" /\ d \in run[r].todo
            /\ invoice'[d].lateFee = FeeAt(r, d)
      BY <2>3 DEF Accrues
    <3>2. run[r].lateFee[d] = invoice[d].lateFee
      BY <2>3, <3>1 DEF Accrues, Closes, HandlersInv, WorkerInv, RunReadCurrent
    <3>3. OwedAt(r, d) \in Nat
      BY RunAmounts DEF HandlersInv
    <3>4. invoice[d].lateFee <= invoice'[d].lateFee
      BY <2>1, <3>1, <3>2, <3>3 DEF FeeAt, NewLateFee
    <3>5. QED
      BY <2>3, <3>4 DEF Accrues, Fixed
  <2>4. CASE AloneSteps(d) /\ ~Accrues(d)
    BY <2>1, <2>4 DEF AloneSteps, Drafts, NewRow, Issues, Discards, Pays, Charges, Stamps,
                      Moves, Fixed, FeesKept, Issued
  <2>5. ASSUME NEW c \in Docs, NEW note \in Docs, Credits(c, note), d \in {c, note}
        PROVE  /\ invoice'[d].gross = invoice[d].gross
               /\ invoice[d].lateFee <= invoice'[d].lateFee
               /\ invoice[d].reminderFee \in {0, invoice'[d].reminderFee}
    BY <2>1, <2>5 DEF Credits, NewRow, Fixed, FeesKept, Issued
  <2>6. QED
    BY <2>2, <2>3, <2>4, <2>5, StepEffect DEF StoreEffect, HandlersInv
<1>2. /\ invoice[d].gross \in Int /\ invoice[d].lateFee \in Nat
      /\ invoice'[d].lateFee \in Nat
  BY Figures, NextType DEF HandlersInv, TypeOK, StoreTypeOK, InvoiceRow
<1>3. ASSUME NEW amount \in EverDue(d)
      PROVE  amount \in EverDue(d)'
  <2>1. PICK late \in 0 .. invoice[d].lateFee, reminder \in {0, invoice[d].reminderFee} :
            amount = TotalDueOre(invoice[d].gross, late, reminder)
    BY DEF EverDue
  <2>2. /\ late \in 0 .. invoice'[d].lateFee /\ reminder \in {0, invoice'[d].reminderFee}
        /\ amount = TotalDueOre(invoice'[d].gross, late, reminder)
    BY <1>1, <1>2, <2>1
  <2>3. QED
    BY <2>2 DEF EverDue
<1>4. QED
  BY <1>3

-----------------------------------------------------------------------------
(* A step beside the links is a step of the handlers                       *)

\* Every step of the composition is a step of InvoiceService, or leaves its variables
\* alone.
LEMMA StepRefines ==
    ASSUME BaseInv, [CheckoutNext]_allVars
    PROVE  [Next]_vars
<1>1. ASSUME NEW e \in Events, PayThroughLink(e)
      PROVE  Next
  <2>1. PICK d \in Docs : d = checkout[e].doc /\ Issued(d)
    BY <1>1 DEF PayThroughLink, BaseInv, LinksInv, SessionFormed, SessionRefersTo
  <2>2. checkout[e].amount > 0 /\ checkout[e].amount \in EverDue(d) /\ payment[e] = NoPayment
    BY <1>1, <2>1 DEF PayThroughLink, BaseInv, LinksInv, SessionFormed, SessionRefersTo
  <2>3. CustomerPays(e, d)
    BY <1>1, <2>1, <2>2 DEF PayThroughLink, CustomerPays, Issued
  <2>4. QED
    BY <2>3 DEF Next
<1>2. ASSUME NEW s \in Requests, ApplyEventWithId(s)
      PROVE  Next
  BY <1>2 DEF ApplyEventWithId, WebhookStep, Next
<1>3. HandlerStep => Next
  BY DEF HandlerStep, WebhookStep, Next
<1>4. ASSUME NEW l \in LinkRequests,
             \/ \E d \in Docs : ReadForLink(l, d)
             \/ \E e \in Events : CreateSession(l, e)
             \/ ExpireOld(l) \/ AttachSession(l) \/ FailLink(l)
      PROVE  UNCHANGED vars
  <2>1. \A d \in Docs : ReadForLink(l, d) => UNCHANGED vars
    BY Zenon DEF ReadForLink
  <2>2. \A e \in Events : CreateSession(l, e) => UNCHANGED vars
    BY Zenon DEF CreateSession
  <2>3. ExpireOld(l) \/ AttachSession(l) \/ FailLink(l) => UNCHANGED vars
    BY Zenon DEF ExpireOld, AttachSession, FailLink
  <2>4. QED
    BY <1>4, <2>1, <2>2, <2>3
<1>5. ASSUME NEW e \in Events, SessionTimesOut(e)
      PROVE  UNCHANGED vars
  BY <1>5 DEF SessionTimesOut
<1>6. UNCHANGED allVars => UNCHANGED vars
  BY DEF allVars
<1>7. QED
  BY <1>1, <1>2, <1>3, <1>4, <1>5, <1>6 DEF CheckoutNext

-----------------------------------------------------------------------------
(* Links stay with the invoices they were asked for                        *)

\* Every link request and session keeps its type.
LEMMA LinkTypes ==
    ASSUME BaseInv, [CheckoutNext]_allVars
    PROVE  CheckoutTypeOK'
<1>1. /\ checkout \in [Events -> Session] /\ stripeId \in [Docs -> StripeId]
      /\ linking \in [LinkRequests -> LinkRequest] /\ crossed \in SUBSET Docs
      /\ TypeOK'
  BY StepRefines, NextType DEF BaseInv, CheckoutTypeOK, HandlersInv
<1>2. ASSUME NEW l \in LinkRequests, NEW d \in Docs, ReadForLink(l, d)
      PROVE  CheckoutTypeOK'
  <2>1. LinkAmount(d) \in Int
    BY Figures DEF LinkAmount, TotalDue, TotalDueOre, BaseInv, HandlersInv
  <2>2. (IF stripeId[d].kind = "session" THEN stripeId[d].of ELSE NoEvent)
            \in Events \cup {NoEvent}
    BY <1>1 DEF StripeId
  <2>3. linking' \in [LinkRequests -> LinkRequest]
    BY <1>1, <1>2, <2>1, <2>2 DEF ReadForLink, LinkRequest, IdleLink
  <2>4. crossed' \in SUBSET Docs /\ checkout' = checkout /\ stripeId' = stripeId
    BY <1>1, <1>2 DEF ReadForLink
  <2>5. QED
    BY <1>1, <2>3, <2>4 DEF CheckoutTypeOK
<1>3. ASSUME NEW l \in LinkRequests, NEW e \in Events, CreateSession(l, e)
      PROVE  CheckoutTypeOK'
  <2>1. linking[l] \in LinkRequest
    BY <1>1
  <2>2. checkout' \in [Events -> Session]
    BY <1>1, <1>3, <2>1 DEF CreateSession, Session, LinkRequest
  <2>3. linking' \in [LinkRequests -> LinkRequest]
    BY <1>1, <1>3, <2>1 DEF CreateSession, LinkRequest
  <2>4. crossed' = crossed /\ stripeId' = stripeId
    BY <1>3 DEF CreateSession
  <2>5. QED
    BY <1>1, <2>2, <2>3, <2>4 DEF CheckoutTypeOK
<1>4. ASSUME NEW l \in LinkRequests, ExpireOld(l)
      PROVE  CheckoutTypeOK'
  <2>1. linking[l] \in LinkRequest /\ linking[l].old \in Events /\ linking[l].doc \in Docs
    BY <1>1, <1>4 DEF ExpireOld, LinkAt, BaseInv, LinksInv, LinkFormed
  <2>2. checkout' \in [Events -> Session]
    BY <1>1, <1>4, <2>1 DEF ExpireOld, Expired, Session
  <2>3. linking' \in [LinkRequests -> LinkRequest]
    BY <1>1, <1>4, <2>1 DEF ExpireOld, LinkRequest
  <2>4. crossed' \in SUBSET Docs /\ stripeId' = stripeId
    BY <1>1, <1>4, <2>1 DEF ExpireOld
  <2>5. QED
    BY <1>1, <2>2, <2>3, <2>4 DEF CheckoutTypeOK
<1>5. ASSUME NEW l \in LinkRequests, AttachSession(l)
      PROVE  CheckoutTypeOK'
  <2>1. linking[l].new \in Events /\ linking[l].doc \in Docs
    BY <1>5 DEF AttachSession, LinkAt, BaseInv, LinksInv, LinkFormed
  <2>2. checkout' \in [Events -> Session]
    BY <1>1, <1>5, <2>1, ZenonT(40) DEF AttachSession, Session
  <2>3. linking' \in [LinkRequests -> LinkRequest]
    BY <1>1, <1>5 DEF AttachSession, LinkRequest, IdleLink
  <2>4. stripeId' \in [Docs -> StripeId]
    BY <1>1, <1>5, <2>1 DEF AttachSession, StripeId
  <2>5. crossed' = crossed
    BY <1>5 DEF AttachSession
  <2>6. QED
    BY <1>1, <2>2, <2>3, <2>4, <2>5 DEF CheckoutTypeOK
<1>6. ASSUME NEW l \in LinkRequests, FailLink(l)
      PROVE  CheckoutTypeOK'
  <2>1. linking' \in [LinkRequests -> LinkRequest]
    BY <1>1, <1>6 DEF FailLink, LinkRequest, IdleLink
  <2>2. UNCHANGED <<checkout, stripeId, crossed>>
    BY <1>6 DEF FailLink
  <2>3. QED
    BY <1>1, <2>1, <2>2 DEF CheckoutTypeOK
<1>7. ASSUME NEW e \in Events, PayThroughLink(e) \/ SessionTimesOut(e)
      PROVE  CheckoutTypeOK'
  <2>1. checkout' \in [Events -> Session]
    BY <1>1, <1>7 DEF PayThroughLink, SessionTimesOut, Session
  <2>2. linking' = linking /\ stripeId' = stripeId
    BY <1>7 DEF PayThroughLink, SessionTimesOut
  <2>3. checkout[e].doc \in Docs
    BY <1>7 DEF PayThroughLink, SessionTimesOut, BaseInv, LinksInv, SessionFormed
  <2>4. crossed' \in SUBSET Docs
    BY <1>1, <1>7, <2>3 DEF PayThroughLink, SessionTimesOut
  <2>5. QED
    BY <1>1, <2>1, <2>2, <2>4 DEF CheckoutTypeOK
<1>8. ASSUME NEW s \in Requests, ApplyEventWithId(s)
      PROVE  CheckoutTypeOK'
  <2>1. req[s].event \in Events
    BY <1>8 DEF ApplyEventWithId, ApplyEvent, At, BaseInv, HandlersInv, TypeOK
  <2>2. stripeId' \in [Docs -> StripeId]
    BY <1>1, <1>8, <2>1 DEF ApplyEventWithId, StripeId, PaymentId
  <2>3. UNCHANGED <<checkout, linking, crossed>>
    BY <1>8 DEF ApplyEventWithId
  <2>4. QED
    BY <1>1, <2>2, <2>3 DEF CheckoutTypeOK
<1>9. CASE HandlerStep \/ UNCHANGED allVars
  BY <1>1, <1>9 DEF HandlerStep, allVars, checkoutVars, CheckoutTypeOK
<1>10. QED
  BY <1>2, <1>3, <1>4, <1>5, <1>6, <1>7, <1>8, <1>9 DEF CheckoutNext

\* A session that was made keeps its invoice and its amount.
SessionStays(e) ==
    checkout[e].state # "none" =>
        /\ checkout'[e].state # "none"
        /\ checkout'[e].doc = checkout[e].doc
        /\ checkout'[e].amount = checkout[e].amount

\* A session keeps its invoice and its amount once it is created.
LEMMA SessionsStay ==
    ASSUME BaseInv, [CheckoutNext]_allVars, NEW e \in Events
    PROVE  SessionStays(e)
<1>1. checkout \in [Events -> Session]
  BY DEF BaseInv, CheckoutTypeOK
<1>2. ASSUME NEW l \in LinkRequests, NEW f \in Events, CreateSession(l, f)
      PROVE  SessionStays(e)
  BY <1>1, <1>2 DEF CreateSession, NoCheckout, SessionStays
<1>3. ASSUME NEW l \in LinkRequests, ExpireOld(l)
      PROVE  SessionStays(e)
  BY <1>1, <1>3 DEF ExpireOld, Expired, SessionStays, Session
<1>4. ASSUME NEW l \in LinkRequests, AttachSession(l)
      PROVE  SessionStays(e)
  BY <1>1, <1>4 DEF AttachSession, SessionStays, Session
<1>5. ASSUME NEW f \in Events, PayThroughLink(f) \/ SessionTimesOut(f)
      PROVE  SessionStays(e)
  BY <1>1, <1>5 DEF PayThroughLink, SessionTimesOut, SessionStays, Session
<1>6. ASSUME checkout' = checkout
      PROVE  SessionStays(e)
  BY <1>6 DEF SessionStays
<1>7. ASSUME NEW l \in LinkRequests, FailLink(l) \/ \E d \in Docs : ReadForLink(l, d)
      PROVE  checkout' = checkout
  <2>1. \A d \in Docs : ReadForLink(l, d) => checkout' = checkout
    BY DEF ReadForLink
  <2>2. FailLink(l) => checkout' = checkout
    BY DEF FailLink
  <2>3. QED
    BY <1>7, <2>1, <2>2
<1>8. ASSUME NEW s \in Requests, ApplyEventWithId(s)
      PROVE  checkout' = checkout
  BY <1>8 DEF ApplyEventWithId
<1>9. HandlerStep \/ UNCHANGED allVars => checkout' = checkout
  BY DEF HandlerStep, allVars, checkoutVars
<1>10. QED
  BY <1>2, <1>3, <1>4, <1>5, <1>6, <1>7, <1>8, <1>9 DEF CheckoutNext

\* What a step does to a request for a link: it stays, ends, starts on an
\* open invoice, or goes on with a session of its own.
LinkMoves(l) ==
    \/ linking'[l] = linking[l]
    \/ linking'[l] = IdleLink
    \/ /\ linking'[l].step = "create"
       /\ \E d \in Docs :
            /\ IsOpen(d) /\ linking'[l].doc = d /\ linking'[l].amount = TotalDue(d)
            /\ UNCHANGED invoice
    \/ /\ linking[l].step # "idle"
       /\ linking'[l].step \in {"expire", "attach"}
       /\ linking'[l].doc = linking[l].doc /\ linking'[l].amount = linking[l].amount
       /\ linking'[l].step = "expire" => linking'[l].old \in Events
       /\ linking'[l].new \in Events
       /\ \/ /\ checkout'[linking'[l].new].state # "none"
             /\ checkout'[linking'[l].new].doc = linking'[l].doc
          \/ /\ linking[l].step \in {"expire", "attach"}
             /\ linking'[l].new = linking[l].new

\* Each step leaves a link request alone, starts it, moves it on or ends it.
LEMMA LinksMove ==
    ASSUME BaseInv, [CheckoutNext]_allVars, NEW l \in LinkRequests
    PROVE  LinkMoves(l)
<1>1. /\ checkout \in [Events -> Session] /\ linking \in [LinkRequests -> LinkRequest]
      /\ linking[l] \in LinkRequest
  BY DEF BaseInv, CheckoutTypeOK
<1>2. ASSUME NEW k \in LinkRequests, NEW d \in Docs, ReadForLink(k, d)
      PROVE  LinkMoves(l)
  BY <1>1, <1>2 DEF ReadForLink, MayBePaid, LinkAmount, IdleLink, LinkMoves, vars, storeVars
<1>3. ASSUME NEW k \in LinkRequests, NEW e \in Events, CreateSession(k, e)
      PROVE  LinkMoves(l)
  <2>1. CASE k = l
    BY <1>1, <1>3, <2>1 DEF CreateSession, LinkAt, LinkMoves, LinkRequest
  <2>2. CASE k # l
    BY <1>1, <1>3, <2>2 DEF CreateSession, LinkMoves
  <2>3. QED
    BY <2>1, <2>2
<1>4. ASSUME NEW k \in LinkRequests, ExpireOld(k)
      PROVE  LinkMoves(l)
  <2>1. CASE k = l
    BY <1>1, <1>4, <2>1 DEF ExpireOld, LinkAt, LinkMoves, LinkRequest, BaseInv, LinksInv,
                            LinkFormed
  <2>2. CASE k # l
    BY <1>1, <1>4, <2>2 DEF ExpireOld, LinkMoves
  <2>3. QED
    BY <2>1, <2>2
<1>5. ASSUME NEW k \in LinkRequests, AttachSession(k) \/ FailLink(k)
      PROVE  LinkMoves(l)
  BY <1>1, <1>5 DEF AttachSession, FailLink, LinkMoves
<1>6. ASSUME linking' = linking
      PROVE  LinkMoves(l)
  BY <1>6 DEF LinkMoves
<1>7. ASSUME NEW e \in Events, PayThroughLink(e) \/ SessionTimesOut(e)
      PROVE  linking' = linking
  BY <1>7 DEF PayThroughLink, SessionTimesOut
<1>8. ASSUME NEW s \in Requests, ApplyEventWithId(s)
      PROVE  linking' = linking
  BY <1>8 DEF ApplyEventWithId
<1>9. HandlerStep \/ UNCHANGED allVars => linking' = linking
  BY DEF HandlerStep, allVars, checkoutVars
<1>10. QED
  BY <1>2, <1>3, <1>4, <1>5, <1>6, <1>7, <1>8, <1>9 DEF CheckoutNext

\* A session is new for what a request asked for, or was there before; and
\* a payment is made by completing it.
SessionMoves(e) ==
    /\ \/ checkout[e].state # "none" \/ checkout'[e].state = "none"
       \/ \E l \in LinkRequests :
            /\ linking[l].step # "idle" /\ linking[l].amount > 0
            /\ checkout'[e].doc = linking[l].doc
            /\ checkout'[e].amount = linking[l].amount
    /\ \/ payment'[e] = payment[e]
            /\ (checkout[e].state = "complete" => checkout'[e].state = "complete")
       \/ payment[e] = NoPayment /\ checkout'[e].state = "complete"

\* Each step leaves a session alone, creates it, or completes or expires an open one.
LEMMA SessionsMove ==
    ASSUME BaseInv, [CheckoutNext]_allVars, NEW e \in Events
    PROVE  SessionMoves(e)
<1>1. checkout \in [Events -> Session] /\ payment \in [Events -> Payment \cup {NoPayment}]
  BY DEF BaseInv, CheckoutTypeOK, TypeOK
<1>2. ASSUME NEW l \in LinkRequests, NEW f \in Events, CreateSession(l, f)
      PROVE  SessionMoves(e)
  <2>1. payment' = payment
    BY <1>2 DEF CreateSession, vars, serviceVars
  <2>2. QED
    BY <1>1, <1>2, <2>1 DEF CreateSession, LinkAt, NoCheckout, SessionMoves
<1>3. ASSUME NEW l \in LinkRequests, ExpireOld(l)
      PROVE  SessionMoves(e)
  <2>1. payment' = payment
    BY <1>3 DEF ExpireOld, vars, serviceVars
  <2>2. QED
    BY <1>1, <1>3, <2>1 DEF ExpireOld, Expired, SessionMoves, Session
<1>4. ASSUME NEW l \in LinkRequests, AttachSession(l)
      PROVE  SessionMoves(e)
  <2>1. payment' = payment
    BY <1>4 DEF AttachSession, vars, serviceVars
  <2>2. QED
    BY <1>1, <1>4, <2>1 DEF AttachSession, SessionMoves, Session
<1>5. ASSUME NEW f \in Events, PayThroughLink(f)
      PROVE  SessionMoves(e)
  <2>1. payment[f] = NoPayment
    BY <1>5 DEF PayThroughLink, BaseInv, LinksInv, SessionFormed
  <2>2. QED
    BY <1>1, <1>5, <2>1 DEF PayThroughLink, SessionMoves, Session
<1>6. ASSUME NEW f \in Events, SessionTimesOut(f)
      PROVE  SessionMoves(e)
  <2>1. payment' = payment
    BY <1>6 DEF SessionTimesOut, vars, serviceVars
  <2>2. QED
    BY <1>1, <1>6, <2>1 DEF SessionTimesOut, SessionMoves, Session
<1>7. ASSUME checkout' = checkout, payment' = payment
      PROVE  SessionMoves(e)
  BY <1>7 DEF SessionMoves
<1>8. ASSUME NEW l \in LinkRequests, FailLink(l) \/ \E d \in Docs : ReadForLink(l, d)
      PROVE  checkout' = checkout /\ payment' = payment
  <2>1. \A d \in Docs : ReadForLink(l, d) => checkout' = checkout /\ payment' = payment
    BY DEF ReadForLink, vars, serviceVars
  <2>2. FailLink(l) => checkout' = checkout /\ payment' = payment
    BY DEF FailLink, vars, serviceVars
  <2>3. QED
    BY <1>8, <2>1, <2>2
<1>9. ASSUME NEW s \in Requests, ApplyEventWithId(s)
      PROVE  checkout' = checkout /\ payment' = payment
  BY <1>9 DEF ApplyEventWithId, ApplyEvent
<1>10. HandlerStep => payment' = payment
  <2>1. \A s \in Requests, f \in Events : ReceiveEvent(s, f) => payment' = payment
    BY DEF ReceiveEvent
  <2>2. QED
    BY <2>1, PaymentsLeft DEF HandlerStep
<1>11. HandlerStep \/ UNCHANGED allVars => checkout' = checkout /\ payment' = payment
  BY <1>10 DEF HandlerStep, allVars, checkoutVars, vars, serviceVars
<1>12. QED
  BY <1>2, <1>3, <1>4, <1>5, <1>6, <1>7, <1>8, <1>9, <1>11 DEF CheckoutNext

\* What is known of handlers, links and sessions is inductive.
LEMMA BaseNext ==
    ASSUME OneWorker, BaseInv, [CheckoutNext]_allVars
    PROVE  BaseInv'
<1>1. CheckoutTypeOK' /\ HandlersInv'
  BY LinkTypes, StepRefines, HandlersNext DEF BaseInv
<1>2. /\ linking \in [LinkRequests -> LinkRequest] /\ linking' \in [LinkRequests -> LinkRequest]
      /\ checkout' \in [Events -> Session]
      /\ NoDoc \notin Docs
  BY <1>1, NullsAssumption DEF BaseInv, CheckoutTypeOK
<1>3. ASSUME NEW d \in Docs, Issued(d)
      PROVE  Issued(d)' /\ EverDue(d) \subseteq EverDue(d)'
  BY <1>3, StepRefines, StatusStays, EverDueGrows DEF BaseInv, HandlersInv
<1>4. ASSUME NEW l \in LinkRequests
      PROVE  LinkFormed(l)'
  <2>1. LinkFormed(l)
    BY DEF BaseInv, LinksInv
  <2>2. LinkMoves(l)
    BY LinksMove
  <2>3. \A e \in Events : SessionStays(e)
    BY SessionsStay
  <2>4. QED
    BY <1>2, <2>1, <2>2, <2>3 DEF LinkMoves, LinkFormed, SessionStays, IdleLink, LinkRequest
<1>5. ASSUME NEW l \in LinkRequests, NEW d \in Docs
      PROVE  LinkRefersTo(l, d)'
  <2>1. SUFFICES ASSUME linking'[l].doc = d
                 PROVE  Issued(d)' /\ linking'[l].amount \in EverDue(d)'
    BY DEF LinkRefersTo
  <2>2. CASE linking'[l].doc = linking[l].doc /\ linking'[l].amount = linking[l].amount
    BY <1>3, <2>1, <2>2 DEF BaseInv, LinksInv, LinkRefersTo
  <2>3. CASE /\ UNCHANGED invoice
             /\ IsOpen(d) /\ linking'[l].amount = TotalDue(d)
    <3>1. Issued(d)
      BY <2>3 DEF IsOpen, OpenStatuses, Issued
    <3>2. invoice[d].lateFee \in Nat
      BY Figures DEF BaseInv, HandlersInv
    <3>3. TotalDue(d) \in EverDue(d)
      BY <3>2 DEF TotalDue, EverDue
    <3>4. QED
      BY <1>3, <2>3, <3>1, <3>3
  <2>4. LinkMoves(l)
    BY LinksMove
  <2>5. QED
    BY <1>2, <2>1, <2>2, <2>3, <2>4 DEF LinkMoves, IdleLink
<1>6. ASSUME NEW e \in Events
      PROVE  SessionFormed(e)'
  <2>1. SessionFormed(e) /\ SessionStays(e) /\ SessionMoves(e)
    BY SessionsStay, SessionsMove DEF BaseInv, LinksInv
  <2>2. \A l \in LinkRequests : linking[l].step # "idle" => linking[l].doc \in Docs
    BY DEF BaseInv, LinksInv, LinkFormed
  <2>3. QED
    BY <2>1, <2>2 DEF SessionFormed, SessionStays, SessionMoves
<1>7. ASSUME NEW e \in Events, NEW d \in Docs
      PROVE  SessionRefersTo(e, d)'
  <2>1. SUFFICES ASSUME checkout'[e].state # "none", checkout'[e].doc = d
                 PROVE  /\ Issued(d)'
                        /\ checkout'[e].amount > 0
                        /\ checkout'[e].amount \in EverDue(d)'
    BY DEF SessionRefersTo
  <2>2. CASE checkout[e].state # "none"
    <3>1. checkout'[e].doc = checkout[e].doc /\ checkout'[e].amount = checkout[e].amount
      BY <2>2, SessionsStay DEF SessionStays
    <3>2. QED
      BY <1>3, <2>1, <2>2, <3>1 DEF BaseInv, LinksInv, SessionRefersTo
  <2>3. CASE checkout[e].state = "none"
    <3>1. PICK l \in LinkRequests : /\ linking[l].amount > 0 /\ linking[l].doc = d
                                    /\ checkout'[e].amount = linking[l].amount
      BY <2>1, <2>3, SessionsMove DEF SessionMoves
    <3>2. QED
      BY <1>3, <3>1 DEF BaseInv, LinksInv, LinkRefersTo
  <2>4. QED
    BY <2>2, <2>3
<1>8. QED
  BY <1>1, <1>4, <1>5, <1>6, <1>7 DEF BaseInv, LinksInv

\* At first there are no links and no sessions.
LEMMA BaseInit == CheckoutInit => BaseInv
<1> SUFFICES ASSUME CheckoutInit PROVE BaseInv
  OBVIOUS
<1>1. HandlersInv
  BY InitType, RowsInit, BookInit, RefersInit, WorkerInit DEF CheckoutInit, HandlersInv
<1>2. CheckoutTypeOK
  BY <1>1 DEF CheckoutInit, CheckoutTypeOK, HandlersInv, Session, NoCheckout, StripeId, NullId,
              LinkRequest, IdleLink
<1>3. /\ \A e \in Events : checkout[e] = NoCheckout /\ payment[e] = NoPayment
      /\ \A l \in LinkRequests : linking[l] = IdleLink
  BY DEF CheckoutInit, Init
<1>4. LinksInv
  BY <1>3, NullsAssumption DEF LinksInv, LinkFormed, LinkRefersTo, SessionFormed,
                               SessionRefersTo, NoCheckout, IdleLink
<1>5. QED
  BY <1>1, <1>2, <1>4 DEF BaseInv

\* A payment through a link is one of those the handlers of InvoiceService
\* expect: the invoice was issued, the amount was due at some time, and each
\* session is paid once.  So whatever is proved of them is so beside the
\* links as well.
THEOREM LinksImplementService ==
    ASSUME OneWorker
    PROVE  CheckoutSpec => ImplementsInvoiceService
<1>1. CheckoutInit => BaseInv /\ Init
  BY BaseInit DEF CheckoutInit
<1>2. BaseInv /\ [CheckoutNext]_allVars => BaseInv' /\ [Next]_vars
  BY BaseNext, StepRefines
<1>3. QED
  BY <1>1, <1>2, PTL DEF CheckoutSpec, Spec, ImplementsInvoiceService

\* Whichever links are paid, how often and how late, no more is posted than
\* is due.
THEOREM NoOverpayment ==
    ASSUME OneWorker
    PROVE  CheckoutSpec => []NeverOverpaid
<1>1. Init => PaymentInv
  BY PaymentInit
<1>2. BaseInv /\ PaymentInv /\ [CheckoutNext]_allVars => BaseInv' /\ PaymentInv'
  BY BaseNext, StepRefines, PaymentNext DEF BaseInv, HandlersInv
<1>3. PaymentInv => NeverOverpaid
  BY DEF PaymentInv, PaidWithinDue, NeverOverpaid
<1>4. QED
  BY <1>1, <1>2, <1>3, BaseInit, PTL DEF CheckoutSpec, CheckoutInit

-----------------------------------------------------------------------------
(* Links that are not crossed                                              *)

\* An event that was processed tells of a payment, and the invoice it is for
\* is not open any more.
SettledInv ==
    \A e \in processed :
        /\ payment[e] # NoPayment
        /\ \A d \in Docs : payment[e].doc = d => ~IsOpen(d)

\* One link is made at a time; the session that can be paid is the one the
\* invoice names; while a link is made nothing has been paid, and what can be
\* paid is what the request is to expire, until it has.
OneRequest(d) ==
    \A l, k \in LinkRequests : linking[l].doc = d /\ linking[k].doc = d => l = k

NamesPayable(d) ==
    \A e \in Payable(d) : stripeId[d].kind = "session" /\ stripeId[d].of = e

RequestAlone(d) ==
    \A l \in LinkRequests : linking[l].doc = d =>
        /\ Payments(d) = {}
        /\ linking[l].step \in {"create", "expire"} =>
                \A e \in Payable(d) : linking[l].old = e
        /\ linking[l].step = "attach" => Payable(d) = {}

\* Once a payment was made nothing more can be paid, and a PAID invoice names
\* the payment.
PaidOnce(d) ==
    /\ Payments(d) # {} => Payable(d) = {}
    /\ \A e, f \in Payments(d) : e = f

NamesPayment(d) ==
    Issued(d) /\ invoice[d].status = "PAID" =>
        /\ stripeId[d].kind = "intent" /\ stripeId[d].of \in Payments(d)
        /\ payment[stripeId[d].of].amount = Sum(d, "PAYMENT_RECEIVED")

Straight(d) ==
    OneRequest(d) /\ NamesPayable(d) /\ RequestAlone(d) /\ PaidOnce(d) /\ NamesPayment(d)

CrossInv == SettledInv /\ \A d \in Docs \ crossed : Straight(d)

\* An invoice becomes PAID by the claim of an event that tells of its payment,
\* and what it was paid does not change after that.
LEMMA PaidKept ==
    ASSUME HandlersInv, [Next]_vars, NEW d \in Docs, Issued(d)', invoice'[d].status = "PAID"
    PROVE  \/ /\ Issued(d) /\ invoice[d].status = "PAID"
              /\ Sum(d, "PAYMENT_RECEIVED")' = Sum(d, "PAYMENT_RECEIVED")
           \/ \E e \in Events :
                /\ IsOpen(d) /\ e \notin processed /\ processed' = processed \cup {e}
                /\ payment[e] \in Payment /\ payment[e].doc = d
                /\ Sum(d, "PAYMENT_RECEIVED")' = payment[e].amount
<1>1. CASE Same(d) \/ UNCHANGED <<invoice, ledger>>
  BY <1>1 DEF Same, Issued, Sum, TransactionType
<1>2. CASE Pays(d)
  <2>1. IsOpen(d)
    BY <1>2 DEF Pays, Closes
  <2>2. Sum(d, "PAYMENT_RECEIVED") = 0
    BY <2>1, OpenUnwaived DEF HandlersInv
  <2>3. PICK e \in Events :
            /\ payment[e] \in Payment /\ payment[e].doc = d
            /\ e \notin processed /\ processed' = processed \cup {e}
            /\ Adds(d, "PAYMENT_RECEIVED", payment[e].amount)
    BY <1>2 DEF Pays
  <2>4. Sum(d, "PAYMENT_RECEIVED")' = payment[e].amount
    BY <2>2, <2>3 DEF Adds, TransactionType, Payment
  <2>5. QED
    BY <2>1, <2>3, <2>4
<1>3. CASE AloneSteps(d) /\ ~Pays(d)
  BY <1>3 DEF AloneSteps, Drafts, Issues, Discards, Charges, Stamps, Accrues, Moves, Closes,
              IsOpen, OpenStatuses, Fixed, AddsNothing, Issued, TransactionType
<1>4. ASSUME NEW c \in Docs, NEW note \in Docs, Credits(c, note), d \in {c, note}
      PROVE  FALSE
  BY <1>4 DEF Credits, Closes
<1>5. QED
  BY <1>1, <1>2, <1>3, <1>4, StepEffect DEF StoreEffect, HandlersInv

\* An invoice stays straight through a step that makes no session payable, no
\* payment and no request for it.
LEMMA StraightKept ==
    ASSUME NEW d \in Docs, Straight(d),
           Payable(d)' \subseteq Payable(d), Payments(d)' = Payments(d),
           stripeId'[d] = stripeId[d],
           \A l \in LinkRequests : linking'[l] = linking[l] \/ linking'[l].doc # d,
           NamesPayment(d)'
    PROVE  Straight(d)'
<1>1. OneRequest(d)'
  BY DEF Straight, OneRequest
<1>2. NamesPayable(d)'
  BY DEF Straight, NamesPayable
<1>3. RequestAlone(d)'
  BY DEF Straight, RequestAlone
<1>4. PaidOnce(d)'
  BY DEF Straight, PaidOnce
<1>5. QED
  BY <1>1, <1>2, <1>3, <1>4 DEF Straight

\* The handlers leave the invoices that are paid named as they are, unless
\* the event of a payment is claimed.
LEMMA NamesKept ==
    ASSUME HandlersInv, [Next]_vars, NEW d \in Docs, NamesPayment(d),
           stripeId'[d] = stripeId[d], processed' = processed,
           \A e \in Payments(d) : payment'[e] = payment[e]
    PROVE  NamesPayment(d)'
<1>1. SUFFICES ASSUME Issued(d)', invoice'[d].status = "PAID"
               PROVE  /\ stripeId[d].kind = "intent" /\ stripeId[d].of \in Payments(d)'
                      /\ payment'[stripeId[d].of].amount = Sum(d, "PAYMENT_RECEIVED")'
  BY DEF NamesPayment
<1>2. /\ Issued(d) /\ invoice[d].status = "PAID"
      /\ Sum(d, "PAYMENT_RECEIVED")' = Sum(d, "PAYMENT_RECEIVED")
  BY <1>1, PaidKept
<1>3. QED
  BY <1>2 DEF NamesPayment, Payments

\* Events are processed by the handler of a payment alone.
LEMMA ProcessedStep ==
    ASSUME BaseInv, [CheckoutNext]_allVars
    PROVE  processed' = processed \/ \E s \in Requests : ApplyEventWithId(s)
<1>1. ASSUME NEW l \in LinkRequests,
             \/ \E d \in Docs : ReadForLink(l, d)
             \/ \E e \in Events : CreateSession(l, e)
             \/ ExpireOld(l) \/ AttachSession(l) \/ FailLink(l)
      PROVE  processed' = processed
  <2>1. \A d \in Docs : ReadForLink(l, d) => processed' = processed
    BY Zenon DEF ReadForLink, vars, storeVars
  <2>2. \A e \in Events : CreateSession(l, e) => processed' = processed
    BY Zenon DEF CreateSession, vars, storeVars
  <2>3. ExpireOld(l) \/ AttachSession(l) \/ FailLink(l) => processed' = processed
    BY Zenon DEF ExpireOld, AttachSession, FailLink, vars, storeVars
  <2>4. QED
    BY <1>1, <2>1, <2>2, <2>3
<1>2. \A e \in Events : PayThroughLink(e) \/ SessionTimesOut(e) => processed' = processed
  BY DEF PayThroughLink, SessionTimesOut, vars, storeVars
<1>3. HandlerStep => processed' = processed
  BY ProcessedLeft DEF HandlerStep
<1>4. UNCHANGED allVars => processed' = processed
  BY DEF allVars, vars, storeVars
<1>5. QED
  BY <1>1, <1>2, <1>3, <1>4 DEF CheckoutNext

\* An event is processed once its payment is there, and it settles the invoice.
LEMMA SettledNext ==
    ASSUME BaseInv, SettledInv, [CheckoutNext]_allVars
    PROVE  SettledInv'
<1>1. HandlersInv /\ [Next]_vars
  BY StepRefines DEF BaseInv
<1>2. ASSUME NEW e \in processed, NEW d \in Docs, payment[e].doc = d
      PROVE  ~IsOpen(d)'
  <2>1. ~IsOpen(d) /\ payment[e] \in Payment /\ e \in Events
    BY <1>1, <1>2, NullsAssumption DEF SettledInv, HandlersInv, TypeOK, StoreTypeOK, NoPayment
  <2>2. Issued(d)
    BY <1>1, <1>2, <2>1 DEF HandlersInv, RefersInv, PaymentRefersTo
  <2>3. BalanceMoves(d)
    BY <1>1, <2>2, BalanceEffect DEF HandlersInv
  <2>4. QED
    BY <2>1, <2>3 DEF BalanceMoves, IsOpen, OpenStatuses
<1>3. ASSUME NEW e \in processed
      PROVE  payment'[e] = payment[e] /\ payment[e] # NoPayment
  <2>1. e \in Events /\ payment[e] # NoPayment
    BY <1>1, <1>3 DEF SettledInv, HandlersInv, TypeOK, StoreTypeOK
  <2>2. QED
    BY <2>1, SessionsMove DEF SessionMoves
<1>4. ASSUME NEW s \in Requests, ApplyEventWithId(s), NEW e \in processed' \ processed
      PROVE  /\ payment' = payment /\ payment[e] # NoPayment
             /\ \A d \in Docs : payment[e].doc = d => ~IsOpen(d)'
  <2>1. ApplyEvent(s) /\ payment' = payment
    BY <1>4 DEF ApplyEventWithId, ApplyEvent
  <2>2. e = req[s].event /\ e \notin processed
    BY <1>4, <2>1 DEF ApplyEvent, ClaimEventAndRun
  <2>3. PICK d \in Docs : d = req[s].doc /\ payment[e].doc = d
    BY <1>1, <2>1, <2>2 DEF ApplyEvent, At, DocSteps, HandlersInv, TypeOK
  <2>4. StoreTypeOK /\ invoice[d] \in InvoiceRow
    BY <1>1 DEF HandlersInv, TypeOK, StoreTypeOK
  <2>5. \/ MarkPaidWithin(d, payment[e].amount)
        \/ ~IsOpen(d) /\ UNCHANGED <<invoice, ledger>>
    BY <2>1, <2>2, <2>3 DEF ApplyEvent, ClaimEventAndRun
  <2>6. ~IsOpen(d)'
    BY <2>4, <2>5 DEF MarkPaidWithin, StoreTypeOK, InvoiceRow, IsOpen, OpenStatuses
  <2>7. QED
    BY <2>1, <2>3, <2>6, NullsAssumption DEF NoPayment
<1>5. CASE processed' = processed
  BY <1>2, <1>3, <1>5 DEF SettledInv
<1>6. ASSUME NEW s \in Requests, ApplyEventWithId(s)
      PROVE  SettledInv'
  <2>1. payment' = payment
    BY <1>6 DEF ApplyEventWithId, ApplyEvent
  <2>2. QED
    BY <1>2, <1>3, <1>4, <1>6, <2>1 DEF SettledInv
<1>7. QED
  BY <1>5, <1>6, ProcessedStep

-----------------------------------------------------------------------------
(* One lemma for each step that can cross links                            *)

\* A link request that starts alone knows the session that is payable.
LEMMA ReadStraight ==
    ASSUME BaseInv, CrossInv, NEW l \in LinkRequests, NEW c \in Docs, ReadForLink(l, c),
           NEW d \in Docs \ crossed'
    PROVE  Straight(d)'
<1>1. /\ UNCHANGED vars /\ UNCHANGED <<checkout, stripeId>> /\ d \notin crossed
      /\ linking \in [LinkRequests -> LinkRequest]
  BY DEF ReadForLink, BaseInv, CheckoutTypeOK
<1>2. Straight(d)
  BY <1>1 DEF CrossInv
<1>3. /\ payment' = payment /\ processed' = processed /\ invoice' = invoice /\ ledger' = ledger
      /\ Payable(d)' = Payable(d) /\ Payments(d)' = Payments(d)
  BY <1>1 DEF vars, storeVars, serviceVars, Payable, Payments
<1>4. NamesPayment(d)'
  BY <1>1, <1>2, <1>3 DEF Straight, NamesPayment, Issued, Sum
<1>5. \A k \in LinkRequests \ {l} : linking'[k] = linking[k]
  BY <1>1 DEF ReadForLink
<1>6. /\ linking'[l].step = "create" /\ linking'[l].doc = c
      /\ linking'[l].old = IF stripeId[c].kind = "session" THEN stripeId[c].of ELSE NoEvent
  BY <1>1 DEF ReadForLink, IdleLink
<1>7. CASE c # d
  BY <1>1, <1>2, <1>3, <1>4, <1>5, <1>6, <1>7, StraightKept
<1>8. CASE c = d
  <2>1. BeingLinked(d) = {} /\ Payments(d) \subseteq processed /\ IsOpen(d)
    BY <1>8 DEF ReadForLink, MayBePaid
  <2>2. Payments(d) = {}
    BY <2>1 DEF CrossInv, SettledInv, Payments
  <2>3. \A k \in LinkRequests \ {l} : linking'[k].doc # d
    BY <1>5, <2>1 DEF BeingLinked
  <2>4. OneRequest(d)'
    BY <2>3 DEF OneRequest
  <2>5. NamesPayable(d)' /\ PaidOnce(d)'
    BY <1>1, <1>2, <1>3 DEF Straight, NamesPayable, PaidOnce
  <2>6. RequestAlone(d)'
    BY <1>2, <1>3, <1>6, <1>8, <2>2, <2>3 DEF Straight, NamesPayable, RequestAlone
  <2>7. QED
    BY <1>4, <2>4, <2>5, <2>6 DEF Straight
<1>9. QED
  BY <1>7, <1>8

\* A session created by a request that is alone is the only one that is new.
LEMMA CreateStraight ==
    ASSUME BaseInv, CrossInv, NEW l \in LinkRequests, NEW e \in Events, CreateSession(l, e),
           NEW d \in Docs \ crossed'
    PROVE  Straight(d)'
<1>1. /\ UNCHANGED vars /\ stripeId' = stripeId /\ crossed' = crossed
      /\ linking \in [LinkRequests -> LinkRequest] /\ checkout \in [Events -> Session]
  BY DEF CreateSession, BaseInv, CheckoutTypeOK
<1>2. Straight(d)
  BY <1>1 DEF CrossInv
<1>3. /\ payment' = payment /\ processed' = processed /\ invoice' = invoice /\ ledger' = ledger
      /\ Payments(d)' = Payments(d)
  BY <1>1 DEF vars, storeVars, serviceVars, Payments
<1>4. Payable(d)' = Payable(d)
  BY <1>1 DEF CreateSession, NoCheckout, Payable
<1>5. NamesPayment(d)'
  BY <1>1, <1>2, <1>3 DEF Straight, NamesPayment, Issued, Sum
<1>6. /\ \A k \in LinkRequests \ {l} : linking'[k] = linking[k]
      /\ linking[l].step = "create" /\ linking'[l].doc = linking[l].doc
      /\ linking'[l].old = linking[l].old
      /\ linking'[l].step = IF linking[l].old # NoEvent THEN "expire" ELSE "attach"
  BY <1>1 DEF CreateSession, LinkAt, LinkRequest
<1>7. CASE linking[l].doc # d
  BY <1>1, <1>2, <1>3, <1>4, <1>5, <1>6, <1>7, StraightKept
<1>8. CASE linking[l].doc = d
  <2>1. OneRequest(d)'
    BY <1>2, <1>6 DEF Straight, OneRequest
  <2>2. NamesPayable(d)' /\ PaidOnce(d)'
    BY <1>1, <1>2, <1>3, <1>4 DEF Straight, NamesPayable, PaidOnce
  <2>3. \A e_ \in Payable(d) : linking[l].old = e_
    BY <1>2, <1>6, <1>8 DEF Straight, RequestAlone
  <2>4. linking[l].old = NoEvent => Payable(d) = {}
    BY <2>3, NullsAssumption DEF Payable
  <2>5. RequestAlone(d)'
    BY <1>2, <1>3, <1>4, <1>6, <2>3, <2>4 DEF Straight, RequestAlone
  <2>6. QED
    BY <1>5, <2>1, <2>2, <2>5 DEF Straight
<1>9. QED
  BY <1>7, <1>8

\* An old session that was expired by a request that is alone is payable no more.
LEMMA ExpireStraight ==
    ASSUME BaseInv, CrossInv, NEW l \in LinkRequests, ExpireOld(l), NEW d \in Docs \ crossed'
    PROVE  Straight(d)'
<1>1. /\ UNCHANGED vars /\ stripeId' = stripeId /\ d \notin crossed
      /\ linking \in [LinkRequests -> LinkRequest] /\ checkout \in [Events -> Session]
  BY DEF ExpireOld, BaseInv, CheckoutTypeOK
<1>2. Straight(d)
  BY <1>1 DEF CrossInv
<1>3. /\ payment' = payment /\ processed' = processed /\ invoice' = invoice /\ ledger' = ledger
      /\ Payments(d)' = Payments(d)
  BY <1>1 DEF vars, storeVars, serviceVars, Payments
<1>4. Payable(d)' \subseteq Payable(d)
  BY <1>1 DEF ExpireOld, Expired, Payable, Session
<1>5. NamesPayment(d)'
  BY <1>1, <1>2, <1>3 DEF Straight, NamesPayment, Issued, Sum
<1>6. /\ \A k \in LinkRequests \ {l} : linking'[k] = linking[k]
      /\ linking[l].step = "expire" /\ linking'[l].doc = linking[l].doc
      /\ linking'[l].step = "attach"
  BY <1>1 DEF ExpireOld, LinkAt, LinkRequest
<1>7. CASE linking[l].doc # d
  BY <1>1, <1>2, <1>3, <1>4, <1>5, <1>6, <1>7, StraightKept
<1>8. CASE linking[l].doc = d
  <2>1. OneRequest(d)'
    BY <1>2, <1>6 DEF Straight, OneRequest
  <2>2. \A e \in Payable(d) : linking[l].old = e
    BY <1>2, <1>6, <1>8 DEF Straight, RequestAlone
  <2>3. linking[l].old \notin Payable(d)'
    BY <1>1, <1>8 DEF ExpireOld, Expired, Payable, Session
  <2>4. Payable(d)' = {}
    BY <1>4, <2>2, <2>3
  <2>5. NamesPayable(d)' /\ PaidOnce(d)'
    BY <1>2, <1>3, <2>4 DEF Straight, NamesPayable, PaidOnce
  <2>6. RequestAlone(d)'
    BY <1>2, <1>3, <1>6, <2>4 DEF Straight, RequestAlone
  <2>7. QED
    BY <1>5, <2>1, <2>5, <2>6 DEF Straight
<1>9. QED
  BY <1>7, <1>8

\* The session a lone request attaches is the one that is payable.
LEMMA AttachStraight ==
    ASSUME BaseInv, CrossInv, NEW l \in LinkRequests, AttachSession(l),
           NEW d \in Docs \ crossed'
    PROVE  Straight(d)'
<1>1. /\ UNCHANGED vars /\ crossed' = crossed
      /\ linking \in [LinkRequests -> LinkRequest] /\ checkout \in [Events -> Session]
      /\ stripeId \in [Docs -> StripeId]
      /\ linking[l].step = "attach" /\ linking[l].doc \in Docs
      /\ linking[l].new \in Events /\ checkout[linking[l].new].doc = linking[l].doc
  BY DEF AttachSession, LinkAt, BaseInv, CheckoutTypeOK, LinksInv, LinkFormed
<1>2. Straight(d)
  BY <1>1 DEF CrossInv
<1>3. /\ payment' = payment /\ processed' = processed /\ invoice' = invoice /\ ledger' = ledger
      /\ Payments(d)' = Payments(d)
  BY <1>1 DEF vars, storeVars, serviceVars, Payments
<1>4. Payable(d)' \subseteq Payable(d) \cup {linking[l].new}
  BY <1>1 DEF AttachSession, Payable, Session
<1>5. /\ \A k \in LinkRequests \ {l} : linking'[k] = linking[k]
      /\ linking'[l] = IdleLink /\ linking'[l].doc \notin Docs
  BY <1>1, NullsAssumption DEF AttachSession, IdleLink
<1>6. CASE linking[l].doc # d
  <2>1. stripeId'[d] = stripeId[d]
    BY <1>1, <1>6 DEF AttachSession
  <2>2. Payable(d)' \subseteq Payable(d)
    BY <1>1, <1>6 DEF AttachSession, Payable, Session
  <2>3. NamesPayment(d)'
    BY <1>2, <1>3, <2>1 DEF Straight, NamesPayment, Issued, Sum
  <2>4. QED
    BY <1>2, <1>3, <1>5, <2>1, <2>2, <2>3, StraightKept
<1>7. CASE linking[l].doc = d
  <2>1. Payable(d) = {} /\ Payments(d) = {}
    BY <1>1, <1>2, <1>7 DEF Straight, RequestAlone
  <2>2. \A k \in LinkRequests : linking'[k].doc # d
    BY <1>2, <1>5, <1>7 DEF Straight, OneRequest
  <2>3. stripeId'[d].kind = "session" /\ stripeId'[d].of = linking[l].new
    BY <1>1, <1>7 DEF AttachSession
  <2>4. OneRequest(d)' /\ RequestAlone(d)'
    BY <2>2 DEF OneRequest, RequestAlone
  <2>5. NamesPayable(d)'
    BY <1>4, <2>1, <2>3 DEF NamesPayable
  <2>6. PaidOnce(d)'
    BY <1>3, <2>1 DEF PaidOnce
  <2>7. NamesPayment(d)'
    BY <1>2, <1>3, <2>1 DEF Straight, NamesPayment, Issued
  <2>8. QED
    BY <2>4, <2>5, <2>6, <2>7 DEF Straight
<1>8. QED
  BY <1>6, <1>7

\* The payable session of an uncrossed invoice is paid when nothing was paid before.
LEMMA PayStraight ==
    ASSUME BaseInv, CrossInv, NEW e \in Events, PayThroughLink(e), NEW d \in Docs \ crossed'
    PROVE  Straight(d)'
<1>1. /\ UNCHANGED storeVars /\ stripeId' = stripeId /\ linking' = linking /\ d \notin crossed
      /\ checkout \in [Events -> Session]
      /\ payment \in [Events -> Payment \cup {NoPayment}]
      /\ checkout[e].state = "open" /\ payment[e] = NoPayment /\ checkout[e].doc \in Docs
  BY DEF PayThroughLink, BaseInv, CheckoutTypeOK, TypeOK, LinksInv, SessionFormed
<1>2. Straight(d)
  BY <1>1 DEF CrossInv
<1>3. invoice' = invoice /\ ledger' = ledger
  BY <1>1 DEF storeVars
<1>4. payment' = [payment EXCEPT ![e] = [doc |-> checkout[e].doc, amount |-> checkout[e].amount]]
  BY DEF PayThroughLink
<1>5. Payable(d)' = Payable(d) \ {e}
  BY <1>1 DEF PayThroughLink, Payable, Session
<1>6. e \notin Payments(d)
  BY <1>1, NullsAssumption DEF Payments, NoPayment
<1>7. CASE checkout[e].doc # d
  <2>1. Payments(d)' = Payments(d)
    BY <1>1, <1>4, <1>6, <1>7 DEF Payments
  <2>2. \A f \in Payments(d) : payment'[f] = payment[f]
    BY <1>1, <1>4, <1>6 DEF Payments
  <2>3. NamesPayment(d)'
    BY <1>1, <1>2, <1>3, <2>1, <2>2 DEF Straight, NamesPayment, Issued, Sum
  <2>4. QED
    BY <1>1, <1>2, <1>5, <2>1, <2>3, StraightKept
<1>8. CASE checkout[e].doc = d
  <2>1. e \in Payable(d)
    BY <1>1, <1>8 DEF PayThroughLink, Payable
  <2>2. Payable(d)' = {}
    BY <1>2, <1>5, <2>1 DEF Straight, NamesPayable
  <2>3. Payments(d) = {}
    BY <1>2, <2>1 DEF Straight, PaidOnce
  <2>4. Payments(d)' = {e}
    BY <1>1, <1>4, <1>8, <2>3 DEF Payments
  <2>5. BeingLinked(d) = {}
    BY <1>8 DEF PayThroughLink
  <2>6. OneRequest(d)' /\ RequestAlone(d)'
    BY <1>1, <2>5 DEF OneRequest, RequestAlone, BeingLinked
  <2>7. NamesPayable(d)' /\ PaidOnce(d)'
    BY <2>2, <2>4 DEF NamesPayable, PaidOnce
  <2>8. NamesPayment(d)'
    BY <1>2, <1>3, <2>3 DEF Straight, NamesPayment, Issued
  <2>9. QED
    BY <2>6, <2>7, <2>8 DEF Straight
<1>9. QED
  BY <1>7, <1>8

\* The webhook stores the id of the one payment of an uncrossed invoice.
LEMMA ApplyStraight ==
    ASSUME BaseInv, CrossInv, NEW s \in Requests, ApplyEventWithId(s),
           NEW d \in Docs \ crossed'
    PROVE  Straight(d)'
<1>1. /\ UNCHANGED <<checkout, linking, crossed>> /\ payment' = payment
      /\ stripeId \in [Docs -> StripeId] /\ ApplyEvent(s)
      /\ HandlersInv /\ [Next]_vars
  BY DEF ApplyEventWithId, ApplyEvent, BaseInv, CheckoutTypeOK, WebhookStep, Next
<1>2. Straight(d)
  BY <1>1 DEF CrossInv
<1>3. Payable(d)' = Payable(d) /\ Payments(d)' = Payments(d)
  BY <1>1 DEF Payable, Payments
<1>4. PICK e \in Events, c \in Docs :
        /\ e = req[s].event /\ c = req[s].doc /\ payment[e].doc = c
        /\ stripeId' = IF invoice'[c].status # invoice[c].status
                       THEN [stripeId EXCEPT ![c] = [kind |-> "intent", of |-> e]]
                       ELSE stripeId
        /\ \/ processed' = processed
           \/ processed' = processed \cup {e}
  BY <1>1 DEF ApplyEventWithId, ApplyEvent, ClaimEventAndRun, At, DocSteps, HandlersInv,
              TypeOK, PaymentId
<1>5. CASE c = d /\ invoice'[d].status # invoice[d].status
  <2>1. Payments(d) # {}
    BY <1>4, <1>5 DEF Payments
  <2>2. Payable(d) = {} /\ \A l \in LinkRequests : linking[l].doc # d
    BY <1>2, <2>1 DEF Straight, PaidOnce, RequestAlone
  <2>3. OneRequest(d)' /\ NamesPayable(d)' /\ RequestAlone(d)'
    BY <1>1, <1>3, <2>2 DEF OneRequest, NamesPayable, RequestAlone
  <2>4. PaidOnce(d)'
    BY <1>2, <1>3 DEF Straight, PaidOnce
  <2>5. stripeId'[d].kind = "intent" /\ stripeId'[d].of = e /\ e \in Payments(d)
    BY <1>1, <1>4, <1>5 DEF Payments
  <2>6. NamesPayment(d)'
    <3>1. SUFFICES ASSUME Issued(d)', invoice'[d].status = "PAID"
                   PROVE  payment[e].amount = Sum(d, "PAYMENT_RECEIVED")'
      BY <1>1, <1>3, <2>5 DEF NamesPayment
    <3>2. PICK f \in Events : /\ f \notin processed /\ processed' = processed \cup {f}
                              /\ Sum(d, "PAYMENT_RECEIVED")' = payment[f].amount
      BY <1>1, <1>5, <3>1, PaidKept
    <3>3. f = e
      BY <1>4, <3>2
    <3>4. QED
      BY <3>2, <3>3
  <2>7. QED
    BY <2>3, <2>4, <2>6 DEF Straight
<1>6. CASE c # d \/ invoice'[d].status = invoice[d].status
  <2>1. stripeId'[d] = stripeId[d]
    BY <1>1, <1>4, <1>6
  <2>2. NamesPayment(d)'
    <3>1. SUFFICES ASSUME Issued(d)', invoice'[d].status = "PAID"
                   PROVE  NamesPayment(d)'
      BY DEF NamesPayment
    <3>2. CASE /\ Issued(d) /\ invoice[d].status = "PAID"
               /\ Sum(d, "PAYMENT_RECEIVED")' = Sum(d, "PAYMENT_RECEIVED")
      BY <1>1, <1>2, <1>3, <2>1, <3>2 DEF Straight, NamesPayment
    <3>3. ASSUME NEW f \in Events, IsOpen(d), f \notin processed,
                 processed' = processed \cup {f}, payment[f].doc = d
          PROVE  FALSE
      <4>1. f = e /\ c = d
        BY <1>4, <3>3
      <4>2. QED
        BY <1>6, <3>1, <3>3, <4>1 DEF IsOpen, OpenStatuses
    <3>4. QED
      BY <1>1, <3>1, <3>2, <3>3, PaidKept
  <2>3. QED
    BY <1>1, <1>2, <1>3, <2>1, <2>2, StraightKept
<1>7. QED
  BY <1>5, <1>6

\* Any other step makes no payment, processes none, and opens no session.
LEMMA QuietStraight ==
    ASSUME BaseInv, CrossInv, NEW d \in Docs \ crossed,
           \/ \E l \in LinkRequests : FailLink(l)
           \/ \E e \in Events : SessionTimesOut(e)
           \/ HandlerStep
           \/ UNCHANGED allVars
    PROVE  Straight(d)'
<1>1. [CheckoutNext]_allVars
  BY DEF CheckoutNext
<1>2. /\ HandlersInv /\ [Next]_vars /\ Straight(d)
      /\ linking \in [LinkRequests -> LinkRequest] /\ checkout \in [Events -> Session]
  BY <1>1, StepRefines DEF BaseInv, CheckoutTypeOK, CrossInv
<1>3. /\ payment' = payment /\ processed' = processed
      /\ UNCHANGED <<linking, stripeId>> \/ \E l \in LinkRequests : FailLink(l)
      /\ stripeId' = stripeId
      /\ checkout' = checkout \/ \E e \in Events : SessionTimesOut(e)
  <2>1. CASE \E l \in LinkRequests : FailLink(l)
    BY <2>1 DEF FailLink, vars, storeVars, serviceVars
  <2>2. CASE \E e \in Events : SessionTimesOut(e)
    BY <2>2 DEF SessionTimesOut, vars, storeVars, serviceVars
  <2>3. CASE UNCHANGED allVars
    BY <2>3 DEF allVars, checkoutVars, vars, storeVars, serviceVars
  <2>4. CASE HandlerStep
    <3>1. \A s \in Requests, e \in Events : ReceiveEvent(s, e) => payment' = payment
      BY DEF ReceiveEvent
    <3>2. payment' = payment
      BY <2>4, <3>1, PaymentsLeft DEF HandlerStep
    <3>3. processed' = processed
      BY <2>4, ProcessedLeft DEF HandlerStep
    <3>4. QED
      BY <2>4, <3>2, <3>3 DEF HandlerStep, checkoutVars
  <2>5. QED
    BY <2>1, <2>2, <2>3, <2>4
<1>4. Payments(d)' = Payments(d) /\ \A e \in Payments(d) : payment'[e] = payment[e]
  BY <1>3 DEF Payments
<1>5. Payable(d)' \subseteq Payable(d)
  <2>1. CASE checkout' = checkout
    BY <2>1 DEF Payable
  <2>2. ASSUME NEW e \in Events, SessionTimesOut(e)
        PROVE  Payable(d)' \subseteq Payable(d)
    BY <1>2, <2>2 DEF Payable, SessionTimesOut, Session
  <2>3. QED
    BY <1>3, <2>1, <2>2
<1>6. \A l \in LinkRequests : linking'[l] = linking[l] \/ linking'[l].doc # d
  BY <1>2, <1>3, NullsAssumption DEF FailLink, IdleLink
<1>7. NamesPayment(d)'
  BY <1>2, <1>3, <1>4, NamesKept DEF Straight
<1>8. QED
  BY <1>2, <1>3, <1>4, <1>5, <1>6, <1>7, StraightKept

\* Nothing takes an invoice back once its links were crossed.
LEMMA CrossedStays ==
    ASSUME [CheckoutNext]_allVars
    PROVE  crossed \subseteq crossed'
<1>1. ASSUME NEW l \in LinkRequests,
             \/ \E d \in Docs : ReadForLink(l, d)
             \/ \E e \in Events : CreateSession(l, e)
             \/ ExpireOld(l) \/ AttachSession(l) \/ FailLink(l)
      PROVE  crossed \subseteq crossed'
  <2>1. \A d \in Docs : ReadForLink(l, d) => crossed \subseteq crossed'
    BY DEF ReadForLink
  <2>2. \A e \in Events : CreateSession(l, e) => crossed \subseteq crossed'
    BY DEF CreateSession
  <2>3. ExpireOld(l) \/ AttachSession(l) \/ FailLink(l) => crossed \subseteq crossed'
    BY DEF ExpireOld, AttachSession, FailLink
  <2>4. QED
    BY <1>1, <2>1, <2>2, <2>3
<1>2. \A e \in Events : PayThroughLink(e) \/ SessionTimesOut(e) => crossed \subseteq crossed'
  BY DEF PayThroughLink, SessionTimesOut
<1>3. \A s \in Requests : ApplyEventWithId(s) => crossed \subseteq crossed'
  BY DEF ApplyEventWithId
<1>4. HandlerStep \/ UNCHANGED allVars => crossed \subseteq crossed'
  BY DEF HandlerStep, allVars, checkoutVars
<1>5. QED
  BY <1>1, <1>2, <1>3, <1>4 DEF CheckoutNext

\* Every step leaves the invoices straight whose links it does not cross.
LEMMA CrossNext ==
    ASSUME BaseInv, CrossInv, [CheckoutNext]_allVars
    PROVE  CrossInv'
<1>1. SettledInv'
  BY SettledNext DEF CrossInv
<1>2. ASSUME NEW d \in Docs \ crossed'
      PROVE  Straight(d)'
  <2>1. d \in Docs \ crossed
    BY CrossedStays
  <2>2. ASSUME NEW l \in LinkRequests,
               \/ \E c \in Docs : ReadForLink(l, c)
               \/ \E e \in Events : CreateSession(l, e)
               \/ ExpireOld(l) \/ AttachSession(l)
        PROVE  Straight(d)'
    BY <2>2, ReadStraight, CreateStraight, ExpireStraight, AttachStraight
  <2>3. ASSUME NEW e \in Events, PayThroughLink(e)
        PROVE  Straight(d)'
    BY <2>3, PayStraight
  <2>4. ASSUME NEW s \in Requests, ApplyEventWithId(s)
        PROVE  Straight(d)'
    BY <2>4, ApplyStraight
  <2>5. CASE \/ \E l \in LinkRequests : FailLink(l)
             \/ \E e \in Events : SessionTimesOut(e)
             \/ HandlerStep
             \/ UNCHANGED allVars
    BY <2>1, <2>5, QuietStraight
  <2>6. QED
    BY <2>2, <2>3, <2>4, <2>5 DEF CheckoutNext
<1>3. QED
  BY <1>1, <1>2 DEF CrossInv

\* At first nothing was paid or crossed.
LEMMA CrossInit == CheckoutInit => CrossInv
<1> SUFFICES ASSUME CheckoutInit PROVE CrossInv
  OBVIOUS
<1>1. /\ processed = {} /\ \A e \in Events : checkout[e] = NoCheckout /\ payment[e] = NoPayment
      /\ \A l \in LinkRequests : linking[l] = IdleLink
      /\ \A d \in Docs : ~Issued(d)
  BY DEF CheckoutInit, Init, StoreInit, Issued, NoRow
<1>2. SettledInv
  BY <1>1 DEF SettledInv
<1>3. ASSUME NEW d \in Docs
      PROVE  Straight(d)
  <2>1. /\ Payable(d) = {} /\ Payments(d) = {}
        /\ \A l \in LinkRequests : linking[l].doc # d
    BY <1>1, NullsAssumption DEF Payable, Payments, NoCheckout, NoPayment, IdleLink
  <2>2. QED
    BY <1>1, <2>1 DEF Straight, OneRequest, NamesPayable, RequestAlone, PaidOnce, NamesPayment
<1>4. QED
  BY <1>2, <1>3 DEF CrossInv

\* What holds of the invoices that are not crossed is an invariant.
LEMMA CrossInvariant ==
    ASSUME OneWorker
    PROVE  CheckoutSpec => []CrossInv
<1>1. CheckoutInit => BaseInv /\ CrossInv
  BY BaseInit, CrossInit
<1>2. BaseInv /\ CrossInv /\ [CheckoutNext]_allVars => BaseInv' /\ CrossInv'
  BY BaseNext, CrossNext
<1>3. QED
  BY <1>1, <1>2, PTL DEF CheckoutSpec

\* A set without two different members has at most one.
LEMMA AtMostOne ==
    ASSUME NEW S, \A x, y \in S : x = y
    PROVE  Cardinality(S) <= 1
<1>1. CASE S = {}
  BY <1>1, FS_EmptySet
<1>2. CASE S # {}
  <2>1. PICK x \in S : S = {x}
    BY <1>2
  <2>2. QED
    BY <2>1, FS_Singleton
<1>3. QED
  BY <1>1, <1>2

\* Links to an invoice that are made one at a time leave one that works: the
\* earlier session is expired before the new one is handed out, whichever of
\* the requests dies half way.
THEOREM OneLinkWorks ==
    ASSUME OneWorker
    PROVE  CheckoutSpec => []OneLinkUnlessCrossed
<1>1. ASSUME CrossInv
      PROVE  OneLinkUnlessCrossed
  <2>1. ASSUME NEW d \in Docs \ crossed
        PROVE  \A e, f \in Payable(d) : e = f
    BY <1>1 DEF CrossInv, Straight, NamesPayable
  <2>2. QED
    BY <2>1, AtMostOne DEF OneLinkUnlessCrossed
<1>2. QED
  BY <1>1, CrossInvariant, PTL

\* So no customer pays an invoice twice whose links were not crossed.
THEOREM PaidOnceWhenStraight ==
    ASSUME OneWorker
    PROVE  CheckoutSpec => []PaidOnceUnlessCrossed
<1>1. ASSUME CrossInv
      PROVE  PaidOnceUnlessCrossed
  <2>1. ASSUME NEW d \in Docs \ crossed
        PROVE  \A e, f \in Payments(d) : e = f
    BY <1>1 DEF CrossInv, Straight, PaidOnce
  <2>2. QED
    BY <2>1, AtMostOne DEF PaidOnceUnlessCrossed
<1>2. QED
  BY <1>1, CrossInvariant, PTL

\* And the PAID invoice names the payment that settled it, of the amount that
\* its book says was received: no link request has written its session over
\* the payment's id.
THEOREM PaidNamesPayment ==
    ASSUME OneWorker
    PROVE  CheckoutSpec => []PaidNamesItsPayment
<1>1. CrossInv => PaidNamesItsPayment
  BY DEF CrossInv, Straight, NamesPayment, Payments, PaidNamesItsPayment
<1>2. QED
  BY <1>1, CrossInvariant, PTL
=============================================================================
