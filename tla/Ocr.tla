-------------------------------- MODULE Ocr --------------------------------
(***************************************************************************)
(* Payment references (lib/ocr.ts): the digits of an invoice number, the   *)
(* length of the whole modulo ten, and a Luhn check digit.  A string of    *)
(* digits is a sequence of them.                                           *)
(***************************************************************************)
EXTENDS Integers, Sequences, Functions
Seqs == INSTANCE SequencesExt

Digit == 0 .. 9

\* allocateInvoiceNumber: the year, then the number padded to four digits; a
\* number beyond 9999 gets longer.  The dash between them is dropped.
DecimalDigits(n, width) ==
    [i \in 1 .. width |-> (n \div 10 ^ (width - i)) % 10]
InvoiceNumberDigits(year, n) ==
    DecimalDigits(year, 4)
      \o DecimalDigits(n, CHOOSE w \in 4 .. 9 : n < 10 ^ w /\ (w > 4 => n >= 10 ^ (w - 1)))

\* A doubled value above nine has its digits summed.
Doubled(value) == IF 2 * value > 9 THEN 2 * value - 9 ELSE 2 * value

\* The digit left of the check digit is the first to be doubled.
LuhnSum(digits) ==
    SumFunction([i \in DOMAIN digits |->
        IF (Len(digits) - i) % 2 = 0 THEN Doubled(digits[i]) ELSE digits[i]])

LuhnCheckDigit(digits) == (10 - (LuhnSum(digits) % 10)) % 10

IsValidLuhn(digits) ==
    Len(digits) >= 2 /\ LuhnCheckDigit(Seqs!Front(digits)) = Seqs!Last(digits)

LengthDigit_OfNumber(digits) == Len(digits) % 10
LengthDigit(digits) == (Len(digits) + 2) % 10

OcrReference(digits) ==
    LET withLength == Append(digits, LengthDigit(digits))
    IN  Append(withLength, LuhnCheckDigit(withLength))

\* What the bank checks before a payment goes through.
BankAccepts(typed) ==
    IsValidLuhn(typed) /\ Seqs!Last(Seqs!Front(typed)) = Len(typed) % 10

-----------------------------------------------------------------------------

\* The bank takes the reference as printed, and refuses it with one mistake:
\* any digit typed wrong, a digit of the invoice number left out or typed
\* twice or added, two neighbours swapped, except a 0 and a 9, Luhn's blind
\* spot (ocr.ts:7-13, 67-70).
CatchesMistakes(reference) ==
    LET positions == DOMAIN reference
        number    == 1 .. Len(reference) - 2
    IN  /\ BankAccepts(reference)
        /\ \A i \in positions, typed \in Digit \ {0} :
                ~BankAccepts([reference EXCEPT ![i] = (@ + typed) % 10])
        /\ \A i \in number : ~BankAccepts(Seqs!RemoveAt(reference, i))
        /\ \A i \in number, digit \in Digit :
                ~BankAccepts(Seqs!InsertAt(reference, i, digit))
        /\ \A i \in positions \ {1} :
                /\ reference[i - 1] # reference[i]
                /\ {reference[i - 1], reference[i]} # {0, 9}
                => ~BankAccepts([reference EXCEPT ![i] = reference[i - 1],
                                                  ![i - 1] = reference[i]])
=============================================================================
