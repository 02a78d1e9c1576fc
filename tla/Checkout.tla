------------------------------ MODULE Checkout ------------------------------
(***************************************************************************)
(* Payment links: createPaymentLink of services/payment.service.ts and the *)
(* Stripe checkout sessions behind it (lib/stripe.ts), on top of the       *)
(* handlers of InvoiceService.                                             *)
(*                                                                         *)
(* A session is named by the event that will tell of its completion, so    *)
(* the payments InvoiceService lets a customer make out of nothing are     *)
(* made here through a session that createPaymentLink asked for and handed *)
(* out; that nothing else changes for the handlers is                      *)
(* ImplementsInvoiceService.                                               *)
(*                                                                         *)
(* A session is paid at once (a card) or not at all: a bank debit that     *)
(* settles later completes its session unpaid, which handleStripeEvent     *)
(* acknowledges and forgets, and is left out.                              *)
(***************************************************************************)
EXTENDS InvoiceService

CONSTANTS
    LinkRequests  \* slots for createPaymentLink requests in flight

VARIABLES
    checkout,     \* Stripe: its sessions, by the event of their completion
    stripeId,     \* Invoice.stripePaymentId, by invoice
    linking,      \* the createPaymentLink requests in flight
    crossed       \* history: invoices one of whose links met something else

checkoutVars == <<checkout, stripeId, linking, crossed>>
allVars == <<vars, checkoutVars>>

-----------------------------------------------------------------------------
(* State                                                                   *)

\* shown: the link has been handed out.  A session lives for 24 hours.
Session ==
    [state: {"none", "open", "expired", "complete"}, doc: Docs \cup {NoDoc},
     amount: Int, shown: BOOLEAN]
NoCheckout == [state |-> "none", doc |-> NoDoc, amount |-> 0, shown |-> FALSE]

\* stripePaymentId holds the id of a session (cs_...) until a payment puts
\* the id of its payment intent (pi_...) there.
StripeId == [kind: {"null", "session", "intent"}, of: Events \cup {NoEvent}]
NullId == [kind |-> "null", of |-> NoEvent]

\* amount and old are what the request read of the invoice; new is the
\* session it created.
LinkRequest ==
    [step: {"idle", "create", "expire", "attach"}, doc: Docs \cup {NoDoc},
     amount: Int, old: Events \cup {NoEvent}, new: Events \cup {NoEvent}]
IdleLink ==
    [step |-> "idle", doc |-> NoDoc, amount |-> 0, old |-> NoEvent, new |-> NoEvent]

CheckoutTypeOK ==
    /\ TypeOK
    /\ checkout \in [Events -> Session]
    /\ stripeId \in [Docs -> StripeId]
    /\ linking \in [LinkRequests -> LinkRequest]
    /\ crossed \in SUBSET Docs

CheckoutInit ==
    /\ Init
    /\ checkout = [e \in Events |-> NoCheckout]
    /\ stripeId = [d \in Docs |-> NullId]
    /\ linking = [l \in LinkRequests |-> IdleLink]
    /\ crossed = {}

LinkAt(l, step) == linking[l].step = step

\* The sessions a customer holds a working link to.
Payable(d) == {e \in Events :
    checkout[e].doc = d /\ checkout[e].state = "open" /\ checkout[e].shown}

Payments(d) == {e \in Events : payment[e].doc = d}
BeingLinked(d) == {l \in LinkRequests : linking[l].doc = d}

-----------------------------------------------------------------------------
(* createPaymentLink                                                       *)

\* Not a credit note, a draft, a paid or a credited invoice.
MayBePaid_Anything(d) == Issued(d)
MayBePaid(d) == IsOpen(d)

LinkAmount_FeesTwice(d) == TotalDue(d) + invoice[d].lateFee + invoice[d].reminderFee
LinkAmount(d) == TotalDue(d)

\* The invoice and its client are read; the amount is what is due by then.
ReadForLink(l, d) ==
    /\ LinkAt(l, "idle")
    /\ MayBePaid(d)
    /\ linking' = [linking EXCEPT ![l] =
            [IdleLink EXCEPT !.step = "create", !.doc = d, !.amount = LinkAmount(d),
                !.old = IF stripeId[d].kind = "session" THEN stripeId[d].of ELSE NoEvent]]
    /\ crossed' = IF BeingLinked(d) # {} \/ Payments(d) \ processed # {}
                  THEN crossed \cup {d} ELSE crossed
    /\ UNCHANGED <<vars, checkout, stripeId>>

\* Stripe creates the page; it refuses an amount that is not positive.
CreateSession(l, e) ==
    /\ LinkAt(l, "create")
    /\ checkout[e] = NoCheckout
    /\ linking[l].amount > 0
    /\ checkout' = [checkout EXCEPT ![e] =
            [state |-> "open", doc |-> linking[l].doc, amount |-> linking[l].amount,
             shown |-> FALSE]]
    /\ linking' = [linking EXCEPT
            ![l].new = e,
            ![l].step = IF linking[l].old # NoEvent THEN "expire" ELSE "attach"]
    /\ UNCHANGED <<vars, stripeId, crossed>>

\* A session that is complete or expired stays what it is, and a call that
\* fails is only logged.
Expired_Never(e) == checkout[e]
Expired(e) ==
    [checkout[e] EXCEPT !.state = IF @ = "open" THEN "expired" ELSE @]

ExpireOld(l) ==
    LET e == linking[l].old
    IN  /\ LinkAt(l, "expire")
        /\ \/ /\ checkout' = [checkout EXCEPT ![e] = Expired(e)]
              /\ UNCHANGED crossed
           \/ /\ MayFail
              /\ crossed' = crossed \cup {linking[l].doc}
              /\ UNCHANGED checkout
        /\ linking' = [linking EXCEPT ![l].step = "attach"]
        /\ UNCHANGED <<vars, stripeId>>

\* attachCheckoutSession names the invoice by its id alone.  With the answer
\* the link is out.
AttachSession(l) ==
    LET e == linking[l].new
    IN  /\ LinkAt(l, "attach")
        /\ stripeId' = [stripeId EXCEPT ![linking[l].doc] =
                [kind |-> "session", of |-> e]]
        /\ checkout' = [checkout EXCEPT ![e].shown = TRUE]
        /\ linking' = [linking EXCEPT ![l] = IdleLink]
        /\ UNCHANGED <<vars, crossed>>

\* The request throws or its process dies; its session is left at Stripe,
\* and nobody has the link.
FailLink(l) ==
    /\ ~LinkAt(l, "idle")
    /\ MayFail \/ linking[l].amount <= 0
    /\ linking' = [linking EXCEPT ![l] = IdleLink]
    /\ UNCHANGED <<vars, checkout, stripeId, crossed>>

-----------------------------------------------------------------------------
(* Stripe and the customer                                                 *)

PayThroughLink(e) ==
    LET d == checkout[e].doc
    IN  /\ "pay" \in Ops
        /\ checkout[e].state = "open" /\ checkout[e].shown
        /\ checkout' = [checkout EXCEPT ![e].state = "complete"]
        /\ payment' = [payment EXCEPT ![e] = [doc |-> d, amount |-> checkout[e].amount]]
        /\ crossed' = IF BeingLinked(d) # {} THEN crossed \cup {d} ELSE crossed
        /\ UNCHANGED <<storeVars, req, run, audit, emailJobs, now, stripeId, linking>>

SessionTimesOut(e) ==
    /\ checkout[e].state = "open"
    /\ checkout' = [checkout EXCEPT ![e].state = "expired"]
    /\ UNCHANGED <<vars, stripeId, linking, crossed>>

-----------------------------------------------------------------------------
(* The handlers of InvoiceService beside all this                          *)

\* `session.payment_intent ?? session.id`: of a paid session, the intent.
PaymentId_Session(e) == [kind |-> "session", of |-> e]
PaymentId(e) == [kind |-> "intent", of |-> e]

\* The same UPDATE that makes the invoice PAID stores the payment's id.
ApplyEventWithId(s) ==
    LET d == req[s].doc
    IN  /\ ApplyEvent(s)
        /\ stripeId' = IF invoice'[d].status # invoice[d].status
                       THEN [stripeId EXCEPT ![d] = PaymentId(req[s].event)]
                       ELSE stripeId
        /\ UNCHANGED <<checkout, linking, crossed>>

HandlerStep ==
    /\ \/ \E s \in Requests :
            \/ AdminStep(s) \/ FailRequest(s)
            \/ \E e \in Events : ReceiveEvent(s, e)
       \/ \E r \in Runners : RunStep(r) \/ FailRun(r)
       \/ Tick
    /\ UNCHANGED checkoutVars

CheckoutNext ==
    \/ \E l \in LinkRequests :
        \/ \E d \in Docs : ReadForLink(l, d)
        \/ \E e \in Events : CreateSession(l, e)
        \/ ExpireOld(l)
        \/ AttachSession(l)
        \/ FailLink(l)
    \/ \E e \in Events : PayThroughLink(e) \/ SessionTimesOut(e)
    \/ \E s \in Requests : ApplyEventWithId(s)
    \/ HandlerStep

CheckoutSpec == CheckoutInit /\ [][CheckoutNext]_allVars

-----------------------------------------------------------------------------
(* What must hold                                                          *)

\* "Any earlier checkout link for this invoice stops working"
\* (payment.service.ts:84): links made one at a time leave one that works,
\* whichever of the requests for them died half way.
OneLinkUnlessCrossed ==
    \A d \in Docs \ crossed : Cardinality(Payable(d)) <= 1

\* So no customer pays one invoice twice, unless a link was made while
\* another was being made, while a payment was being made or still to be told
\* of, or after Stripe could not be asked to expire the old one.
PaidOnceUnlessCrossed ==
    \A d \in Docs \ crossed : Cardinality(Payments(d)) <= 1

\* A PAID invoice names the payment that settled it, under the same
\* condition: a link request that crosses a payment writes its new session
\* over the payment's id.
PaidNamesItsPayment ==
    \A d \in Docs \ crossed :
        Issued(d) /\ invoice[d].status = "PAID" =>
            /\ stripeId[d].kind = "intent"
            /\ payment[stripeId[d].of].doc = d
            /\ payment[stripeId[d].of].amount = Sum(d, "PAYMENT_RECEIVED")

\* A link is for what was due when it was made, and what is due only grows
\* until the invoice is settled: whichever links are paid, how often and how
\* late, no more is posted than is due.
NeverOverpaid ==
    \A d \in Docs : Issued(d) /\ invoice[d].status = "PAID" => Balance(d) >= 0

\* A payment through a link is one of those InvoiceService expects, and a
\* link request does nothing to what the handlers work on.
ImplementsInvoiceService == Spec
=============================================================================
