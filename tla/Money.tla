------------------------------- MODULE Money -------------------------------
(***************************************************************************)
(* The arithmetic of lib/money.ts.  Amounts are integers of öre, VAT rates *)
(* and interest rates are basis points.  The code divides in JavaScript    *)
(* doubles and then rounds.  For lines inside the columns' range (int4,    *)
(* about 21 million kronor) and interest up to some 5 million kronor the   *)
(* products are exact and no quotient that is not a half is close enough   *)
(* to one for the division to move it, so a quotient is modelled as an     *)
(* exact fraction n/d.                                                     *)
(*                                                                         *)
(* No operator here is RECURSIVE: modules with theorems extend this one.   *)
(* A name with an underscore is a mutated form of the definition after it: *)
(* a bug the code could plausibly have.  Nothing uses it.                  *)
(***************************************************************************)
EXTENDS Integers, Sequences, Functions

VatRates == {2500, 1200, 600, 0}

\* The Riksbank's reference rate and the statutory markup, in basis points.
REFERENCE_RATE_BASIS_POINTS       == 200
LATE_INTEREST_MARKUP_BASIS_POINTS == 800

REMINDER_FEE_ORE == 6000

-----------------------------------------------------------------------------
(* Rounding                                                                *)

\* Math.round alone, which rounds a half towards plus infinity.
RoundHalfUp(n, d) == (2 * n + d) \div (2 * d)

\* The fraction n/d (d > 0) to the nearest integer, half away from zero.
RoundOre(n, d) ==
    IF n < 0 THEN -RoundHalfUp(-n, d) ELSE RoundHalfUp(n, d)

\* What rounding is for.
Magnitude(n) == IF n < 0 THEN -n ELSE n

\* r is the integer nearest to n/d; of the two nearest to a half, the one
\* further from zero.
IsNearest(r, n, d) ==
    /\ 2 * Magnitude(r * d - n) <= d
    /\ 2 * Magnitude(r * d - n) = d => Magnitude(r * d) > Magnitude(n)

-----------------------------------------------------------------------------
(* Invoice lines                                                           *)

CalculateLine(quantity, unitPriceOre, vatRate) ==
    LET net == quantity * unitPriceOre
        vat == RoundOre(net * vatRate, 10000)
    IN  [netOre |-> net, vatOre |-> vat, grossOre |-> net + vat]

\* Each line's VAT is rounded before it is summed; the gross total is the
\* sum of the other two totals and not a sum of its own.
SumLines(lines) ==
    LET net == SumFunction([i \in DOMAIN lines |-> lines[i].netOre])
        vat == SumFunction([i \in DOMAIN lines |-> lines[i].vatOre])
    IN  [netTotalOre |-> net, vatTotalOre |-> vat, grossTotalOre |-> net + vat]

\* The items of an invoice, calculated; and those of its credit note, where
\* the sign lives on the quantity and every derived figure follows from it.
Calculated(items) ==
    [i \in DOMAIN items |->
        CalculateLine(items[i].quantity, items[i].unitPriceOre, items[i].vatRate)]

Mirrored(items) == [i \in DOMAIN items |-> [items[i] EXCEPT !.quantity = -@]]

\* What a customer owes on an invoice right now.
TotalDueOre(grossTotalOre, lateFeeOre, reminderFeeOre) ==
    grossTotalOre + lateFeeOre + reminderFeeOre

-----------------------------------------------------------------------------
(* Statutory late payment interest                                         *)

CalculateLateInterest_ByTheDay(outstandingOre, daysLate) ==
    IF daysLate <= 0 \/ outstandingOre <= 0
    THEN 0
    ELSE daysLate * RoundOre(outstandingOre
                               * (REFERENCE_RATE_BASIS_POINTS
                                    + LATE_INTEREST_MARKUP_BASIS_POINTS),
                             10000 * 365)
CalculateLateInterest(outstandingOre, daysLate) ==
    IF daysLate <= 0 \/ outstandingOre <= 0
    THEN 0
    ELSE RoundOre(outstandingOre * daysLate
                    * (REFERENCE_RATE_BASIS_POINTS
                         + LATE_INTEREST_MARKUP_BASIS_POINTS),
                  10000 * 365)

\* Whole days between two instants, floored, never negative.  An instant is
\* counted in units of which DayLength make a day.
DaysBetween(from, to, DayLength) ==
    IF to <= from THEN 0 ELSE (to - from) \div DayLength

-----------------------------------------------------------------------------

\* The VAT of a line is its net at the line's rate, to the nearest öre, a
\* half away from zero for an invoice and a discount alike; and however many
\* nights it was accrued over, the interest is ten percent a year on the
\* gross, to the nearest öre over the whole period: rounding does not add up
\* from night to night.
NearestFigures(items, days) ==
    LET lines == Calculated(items)
        gross == SumLines(lines).grossTotalOre
    IN  /\ \A i \in DOMAIN items :
                IsNearest(lines[i].vatOre, lines[i].netOre * items[i].vatRate, 10000)
        /\ gross > 0 =>
                IsNearest(CalculateLateInterest(gross, days), gross * days, 3650)
=============================================================================
