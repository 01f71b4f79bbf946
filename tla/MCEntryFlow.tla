----------------------------- MODULE MCEntryFlow ----------------------------
(***************************************************************************)
(* Instances of EntryFlow for TLC: forms of two categories.                *)
(***************************************************************************)
EXTENDS EntryFlow, TLC

MCForms == [category : Categories, tracked : {FALSE}]

\* With automatic locations on, no form asks for none.
MCPayloads == {p \in Payload : ~p.tracked /\ p.status # "none"}

EntrySymmetry ==
    Permutations(Clients) \cup Permutations(RequestIds) \cup Permutations(Moments)
=============================================================================
