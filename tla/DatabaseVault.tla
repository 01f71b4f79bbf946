---------------------------- MODULE DatabaseVault ---------------------------
(***************************************************************************)
(* What a database promises that can be restored from a backup: it is      *)
(* edited in place and replaced at once and as a whole, with nobody logged *)
(* in afterwards, and only while somebody is logged in before.             *)
(***************************************************************************)
CONSTANTS Sessions, Books, Entries, own, Uploads

VARIABLES book, entry, sessions

vars == <<book, entry, sessions>>

Init == book = own /\ entry \in Entries /\ sessions \subseteq Sessions

Edit == entry' \in Entries /\ UNCHANGED <<book, sessions>>

Login(s) == sessions' = sessions \cup {s} /\ UNCHANGED <<book, entry>>

Logout(s) == sessions' = sessions \ {s} /\ UNCHANGED <<book, entry>>

Replace(backup) ==
    /\ sessions # {}
    /\ book' = backup.book
    /\ entry' = backup.entry
    /\ sessions' = {}

Next ==
    \/ Edit
    \/ \E s \in Sessions : Login(s) \/ Logout(s)
    \/ \E backup \in Uploads : Replace(backup)

Spec == Init /\ [][Next]_vars
=============================================================================
