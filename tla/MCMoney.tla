------------------------------ MODULE MCMoney ------------------------------
(***************************************************************************)
(* The arithmetic of Money, on every invoice of a few lines and for every  *)
(* day it may be late, against what each figure is defined to be; and the  *)
(* payment references of Ocr, against the mistakes they are made to catch. *)
(***************************************************************************)
EXTENDS Money, Ocr

CONSTANTS
    Quantities, \* of a line; a line below zero is a discount
    Prices,     \* in öre
    MaxLines,
    MaxDays,    \* bound on the days an invoice gets late
    Numbers     \* numbers of the year's series that are tried

VARIABLES
    items,      \* the lines entered, none while a reference is tried
    days,       \* how many days late the invoice is
    reference   \* the payment reference tried, or an empty one

vars == <<items, days, reference>>

Item == [quantity: Quantities, unitPriceOre: Prices, vatRate: VatRates]

Total(lines) == SumLines(Calculated(lines))

\* createInvoice refuses a total of zero.
Init ==
    /\ days = 0
    /\ \/ /\ items \in UNION {[1 .. n -> Item] : n \in 1 .. MaxLines}
          /\ Total(items).grossTotalOre # 0
          /\ reference = <<>>
       \/ /\ items = <<>>
          /\ reference \in {OcrReference(InvoiceNumberDigits(2026, n)) : n \in Numbers}

DayPasses ==
    /\ days < MaxDays
    /\ items # <<>>
    /\ days' = days + 1
    /\ UNCHANGED <<items, reference>>

Spec == Init /\ [][DayPasses]_vars

\* A discount line, one item and several of it.
SomeQuantities == {-2, 1, 3}

\* The first of a year, and those around the end of four digits.
SomeNumbers == 1 .. 120 \cup 9985 .. 10015

-----------------------------------------------------------------------------

\* VAT and interest of an invoice are to the nearest öre, on whatever day it is
\* late: money.ts rounds once, and nothing it rounded is rounded again.
FiguresAreNearest == NearestFigures(items, days)

\* A reference that ocr.ts prints is accepted as it stands, and refused with
\* one mistake in it.
ReferenceCatchesMistakes == reference # <<>> => CatchesMistakes(reference)
=============================================================================
