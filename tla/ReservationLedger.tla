-------------------------- MODULE ReservationLedger --------------------------
(***************************************************************************)
(* What the operator promises about reservations: a MAC is reserved only   *)
(* for an NC that the operator has claimed, a reservation is taken away    *)
(* only because an NC that lists the MAC is deleted, and the operator lets *)
(* an NC go only when nothing is left that only it accounts for.           *)
(***************************************************************************)
CONSTANTS
    NC,       \* NetworkConfigurations
    Mac,      \* MAC addresses
    Lists     \* the MACs that each NC may list

VARIABLES
    claimed,  \* the NCs with the operator's finalizer
    leaving,  \* the NCs whose deletion the operator has been told of
    reserved  \* the MACs that have a reservation

vars == <<claimed, leaving, reserved>>

Init == claimed = {} /\ leaving = {} /\ reserved = {}

Claim(n) ==
    /\ claimed' = claimed \cup {n}
    /\ UNCHANGED <<leaving, reserved>>

\* The user deletes n; later, every trace of the deletion is gone (a crash
\* wipes out those of several NCs at once).
Leave(n) ==
    /\ n \in claimed
    /\ leaving' = leaving \cup {n}
    /\ UNCHANGED <<claimed, reserved>>

Forget(gone) ==
    /\ gone \cap claimed = {}
    /\ leaving' = leaving \ gone
    /\ UNCHANGED <<claimed, reserved>>

Reserve(m) ==
    /\ \E n \in claimed : m \in Lists[n]
    /\ reserved' = reserved \cup {m}
    /\ UNCHANGED <<claimed, leaving>>

Release(m) ==
    /\ \E n \in leaving : m \in Lists[n]
    /\ reserved' = reserved \ {m}
    /\ UNCHANGED <<claimed, leaving>>

Unclaim(n) ==
    /\ n \in leaving
    /\ \A m \in reserved \cap Lists[n] : \E v \in claimed \ {n} : m \in Lists[v]
    /\ claimed' = claimed \ {n}
    /\ UNCHANGED reserved
    /\ leaving' \in {leaving, leaving \ {n}}

Next ==
    \/ \E n \in NC : Claim(n) \/ Leave(n) \/ Unclaim(n)
    \/ \E gone \in SUBSET NC : Forget(gone)
    \/ \E m \in Mac : Reserve(m) \/ Release(m)

Spec == Init /\ [][Next]_vars

=============================================================================
