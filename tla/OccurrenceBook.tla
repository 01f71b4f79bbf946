---------------------------- MODULE OccurrenceBook --------------------------
(***************************************************************************)
(* What recurring items promise, whatever requests bring it about: a rule  *)
(* falls due on a day at most once; what falls due is pending until it is  *)
(* either confirmed or skipped, once and for good; and a transaction is    *)
(* booked for it in the very step that confirms it, never otherwise.       *)
(***************************************************************************)
CONSTANT Rules

VARIABLES
    pending, confirmed, skipped,  \* sets of <<rule, day>>
    booked                        \* the <<rule, day>> with a transaction

vars == <<pending, confirmed, skipped, booked>>

Known == pending \cup confirmed \cup skipped

Init == pending = {} /\ confirmed = {} /\ skipped = {} /\ booked = {}

\* A rule falls due on some days on which it never fell due before.
FallDue(r) ==
    /\ pending \subseteq pending'
    /\ \A item \in pending' \ pending : item[1] = r /\ item \notin Known
    /\ UNCHANGED <<confirmed, skipped, booked>>

Confirm(item) ==
    /\ item \in pending
    /\ pending' = pending \ {item}
    /\ confirmed' = confirmed \cup {item}
    /\ booked' = booked \cup {item}
    /\ UNCHANGED skipped

Skip(item) ==
    /\ item \in pending
    /\ pending' = pending \ {item}
    /\ skipped' = skipped \cup {item}
    /\ UNCHANGED <<confirmed, booked>>

Next ==
    \/ \E r \in Rules : FallDue(r)
    \/ \E item \in pending : Confirm(item) \/ Skip(item)

Spec == Init /\ [][Next]_vars
=============================================================================
