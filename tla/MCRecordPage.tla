---------------------------- MODULE MCRecordPage ----------------------------
(* A page, with two exponents and the amounts 1 and 2. *)
EXTENDS RecordPage, TLC

MCUnits == {0, 1}
MCTexts == {[digits |-> 2, fraction |-> 0]}
MCFirstText == [digits |-> 1, fraction |-> 0]
MCMaxWork == [s \in Screens |-> IF s \in {"details", "rule", "budget", "categories"} THEN 2 ELSE 3]

Symmetry == Permutations(CallIds)
=============================================================================
