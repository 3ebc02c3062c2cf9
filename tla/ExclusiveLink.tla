--------------------------- MODULE ExclusiveLink ---------------------------
(***************************************************************************)
(* What rpcClientPool promises the calls that share it: one link to the    *)
(* node, held by one user at a time, that only its holder sets up or takes *)
(* down.                                                                   *)
(***************************************************************************)
CONSTANTS Users, Nobody

VARIABLES
    holder,   \* the user that holds the link, or Nobody
    up        \* whether the link can be used

linkVars == <<holder, up>>

Init == holder = Nobody /\ up = FALSE

Acquire(u) == holder = Nobody /\ holder' = u /\ UNCHANGED up

Connect(u) == holder = u /\ ~up /\ up' = TRUE /\ UNCHANGED holder

Disconnect(u) == holder = u /\ up /\ up' = FALSE /\ UNCHANGED holder

\* Giving the link back, possibly after taking it down.
Release(u) == holder = u /\ holder' = Nobody /\ (up' = up \/ up' = FALSE)

Next == \E u \in Users : Acquire(u) \/ Connect(u) \/ Disconnect(u) \/ Release(u)

Spec == Init /\ [][Next]_linkVars
=============================================================================
