------------------------------ MODULE MCLedger ------------------------------
(***************************************************************************)
(* Instances of Ledger for TLC: one currency of each exponent the catalog  *)
(* has, one amount that truncates and one that overflows when scaled up.   *)
(***************************************************************************)
EXTENDS Ledger, TLC

CONSTANTS TWD, USD, KWD

MCExponent == [c \in Currencies |-> CASE c = TWD -> 0 [] c = USD -> 2 [] c = KWD -> 3]

RowSymmetry == Permutations(Rows)
BothSymmetry == Permutations(Rows) \cup Permutations(Clients)
=============================================================================
