------------------------------- MODULE Money --------------------------------
(***************************************************************************)
(* Amounts between the minor units that are stored and the text of an      *)
(* amount field (web/src/lib/money.ts).  A text is told by its digits,     *)
(* read as one number, and by how many of them follow the point.           *)
(***************************************************************************)
EXTENDS Integers

CONSTANT MaxAmount  \* MAX_AMOUNT_MINOR

ASSUME MoneyAssumption == MaxAmount \in Nat

\* The exponents of the currencies on offer.
Exponents == 0..3

ScaleFor(exponent) ==
    CASE exponent = 0 -> 1
      [] exponent = 1 -> 10
      [] exponent = 2 -> 100
      [] exponent = 3 -> 1000

Text == [digits : Nat, fraction : Exponents]

Empty == [digits |-> 0, fraction |-> 0]

\* undefined, which the requests replace by 0.
Undefined == 0

\* Faulty variant: a missing fraction is not filled up with zeros.
MajorToMinorUnpadded(text, exponent) ==
    IF text.fraction <= exponent /\ text.digits \in 1..MaxAmount THEN text.digits ELSE Undefined

MajorToMinor(text, exponent) ==
    IF text.fraction > exponent THEN Undefined
    ELSE LET minor == text.digits * ScaleFor(exponent - text.fraction)
         IN IF minor \in 1..MaxAmount THEN minor ELSE Undefined

\* The fraction is always written in full.
MinorToMajorInput(minor, exponent) == [digits |-> minor, fraction |-> exponent]

\* Two texts stand for the same amount of money.
SameMajor(one, other) ==
    one.digits * ScaleFor(other.fraction) = other.digits * ScaleFor(one.fraction)
=============================================================================
