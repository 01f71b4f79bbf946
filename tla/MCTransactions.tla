--------------------------- MODULE MCTransactions ---------------------------
(***************************************************************************)
(* Instances of Transactions for TLC: two contents that are told apart by  *)
(* their fingerprint, one that waits for its location and one that has it. *)
(***************************************************************************)
EXTENDS Transactions, TLC

CONSTANTS food, rent, now

MCPayloads ==
    {[category |-> food, tracked |-> TRUE, status |-> "pending", occurredAt |-> now],
     [category |-> rent, tracked |-> FALSE, status |-> "attached", occurredAt |-> now]}

ClientSymmetry == Permutations(Clients)
=============================================================================
