----------------------------- MODULE Receivable -----------------------------
(***************************************************************************)
(* What the invoicing code promises of a receivable, seen from outside: a  *)
(* document is drafted, perhaps discarded, issued for an amount; what is   *)
(* claimed grows while it is open; it is then either paid or cancelled,    *)
(* once, and from there nothing about it moves.                            *)
(*                                                                         *)
(* The claim is the balance of the ledger.  A cancellation writes off the  *)
(* principal and does not turn the claim on the customer into a debt to    *)
(* them; that it writes off the fees as well is the code's intention       *)
(* (CreditedLedgerIsZero in InvoiceService) and not part of this promise.  *)
(***************************************************************************)
EXTENDS Integers

CONSTANT Docs

VARIABLES
    phase,      \* how far each document has come
    principal,  \* the amount it was issued for, 0 before
    claim       \* what its ledger says the customer owes

vars == <<phase, principal, claim>>

Phase == {"none", "draft", "discarded", "open", "paid", "cancelled", "creditNote"}

TypeOK ==
    /\ phase \in [Docs -> Phase]
    /\ principal \in [Docs -> Int]
    /\ claim \in [Docs -> Int]

Init ==
    /\ phase = [d \in Docs |-> "none"]
    /\ principal = [d \in Docs |-> 0]
    /\ claim = [d \in Docs |-> 0]

Move(d, from, to) == phase[d] = from /\ phase' = [phase EXCEPT ![d] = to]

\* Only d's claim changes, to whatever the caller then constrains it to.
ClaimOnly(d) == claim' = [claim EXCEPT ![d] = claim'[d]]

Draft(d)   == Move(d, "none", "draft") /\ UNCHANGED <<principal, claim>>
Discard(d) == Move(d, "draft", "discarded") /\ UNCHANGED <<principal, claim>>

Issue(d) ==
    /\ Move(d, "draft", "open")
    /\ ClaimOnly(d)
    /\ claim'[d] # 0
    /\ principal' = [principal EXCEPT ![d] = claim'[d]]

\* Interest or a fee is added.
Charge(d) ==
    /\ phase[d] = "open"
    /\ ClaimOnly(d)
    /\ claim'[d] > claim[d]
    /\ UNCHANGED <<phase, principal>>

Pay(d) ==
    /\ Move(d, "open", "paid")
    /\ ClaimOnly(d)
    /\ claim'[d] < claim[d]
    /\ UNCHANGED principal

Cancel(d, note) ==
    /\ phase[d] = "open"
    /\ phase[note] = "none"
    /\ phase' = [phase EXCEPT ![d] = "cancelled", ![note] = "creditNote"]
    /\ ClaimOnly(d)
    /\ claim'[d] \in 0 .. (claim[d] - principal[d])
    /\ UNCHANGED principal

Next ==
    \E d \in Docs :
        \/ Draft(d)
        \/ Discard(d)
        \/ Issue(d)
        \/ Charge(d)
        \/ Pay(d)
        \/ \E note \in Docs : Cancel(d, note)

Spec == Init /\ [][Next]_vars
=============================================================================
