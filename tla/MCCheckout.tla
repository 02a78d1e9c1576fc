----------------------------- MODULE MCCheckout -----------------------------
(***************************************************************************)
(* Instances of Checkout for TLC.                                          *)
(***************************************************************************)
EXTENDS Checkout, TLC

OneGross  == {3650}
DueAtOnce == {1}

\* There is an id for every number, so no handler waits for one.
ASSUME RoomAssumption == MaxNumber <= Cardinality(Docs)

\* Nothing reads the audit trail or the email queue, and no property of these
\* runs speaks of them.
WithoutTrail == <<storeVars, req, run, payment, now, checkoutVars>>

Symmetry ==
    Permutations(Docs) \cup Permutations(Requests) \cup Permutations(Events)
        \cup Permutations(LinkRequests)
=============================================================================
