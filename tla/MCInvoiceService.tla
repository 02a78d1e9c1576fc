-------------------------- MODULE MCInvoiceService --------------------------
(***************************************************************************)
(* Instances of InvoiceService for TLC.                                    *)
(***************************************************************************)
EXTENDS InvoiceService, TLC

\* Two invoices: one that earns an öre of interest a day, one below zero.
OneGross  == {3650}
TwoGross  == {3650, -200}
DueAtOnce == {1}

\* There is an id for every number, so no handler waits for one.
ASSUME RoomAssumption == MaxNumber <= Cardinality(Docs)

\* What a handler can read: nothing reads the audit trail or the email queue,
\* so states that differ in them alone go on alike.  For runs whose properties
\* do not speak of them.
WithoutTrail == <<storeVars, req, run, payment, now>>

Symmetry == Permutations(Docs) \cup Permutations(Requests) \cup Permutations(Events)
=============================================================================
