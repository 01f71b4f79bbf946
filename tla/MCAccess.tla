------------------------------ MODULE MCAccess ------------------------------
(***************************************************************************)
(* An instance of Access for TLC.                                          *)
(***************************************************************************)
EXTENDS Access, TLC

AccessSymmetry == Permutations(Clients) \cup Permutations(Secrets)
=============================================================================
