----------------------------- MODULE MCReports -----------------------------
(***************************************************************************)
(* Instances of Reports for TLC.                                           *)
(***************************************************************************)
EXTENDS Reports, TLC

Line(quantity, price, rate) ==
    [quantity |-> quantity, unitPriceOre |-> price, vatRate |-> rate]

\* Lines of every rate, with a discount, the VAT of two a half öre; and an
\* invoice below zero.
TwoBaskets ==
    {<<Line(1, 2, 2500), Line(3, 1250, 1200), Line(1, 7, 0), Line(-1, 25, 600)>>,
     <<Line(-2, 101, 600), Line(1, 6, 2500)>>}

TotalsOfBaskets == {GrossOf(basket) : basket \in Baskets}
DueAtOnce == {1}

\* What a handler or a report can read: neither the audit trail and the jobs
\* nor the day of a reminder.
Undated == [d \in Docs |-> [invoice[d] EXCEPT !.reminderSentAt = 0]]
WithoutTrail ==
    <<Undated, ledger, lastNumber, processed, req, run, payment, now,
      items, sentAt, journal, clock>>

\* Reminders, which no line and no year bears on, only of an invoice above
\* zero and only at the first instant.
FewReminders ==
    \A d \in Docs : invoice[d].reminderFee > 0 =>
        invoice[d].gross > 0 /\ journal[1][d]["REMINDER_FEE_ADDED"].rows > 0

Symmetry == Permutations(Docs) \cup Permutations(Requests) \cup Permutations(Events)
=============================================================================
