------------------------------- MODULE RoomLife -------------------------------
(***************************************************************************)
(* What the life of a hosted room promises its players: it waits, gets one *)
(* guest and one match for good, closes once, and is removed after that.   *)
(***************************************************************************)
CONSTANTS Guest, Nobody

VARIABLES
    status,     \* "none", "waiting_for_guest", "active", "expired" or "deleted"
    guest,      \* the guest, whose name is that of the match as well
    closed      \* when it was closed

Init == status = "none" /\ guest = Nobody /\ closed = Nobody

Open == status = "none" /\ status' = "waiting_for_guest" /\ UNCHANGED <<guest, closed>>

Seat(g) ==
    /\ status = "waiting_for_guest"
    /\ status' = "active" /\ guest' = g
    /\ UNCHANGED closed

Close ==
    /\ status \in {"waiting_for_guest", "active"}
    /\ status' = "expired" /\ closed' # Nobody
    /\ UNCHANGED guest

Remove ==
    /\ status = "expired"
    /\ status' = "deleted" /\ guest' = Nobody /\ closed' = Nobody

Next == Open \/ (\E g \in Guest : Seat(g)) \/ Close \/ Remove

vars == <<status, guest, closed>>

Spec == Init /\ [][Next]_vars
=============================================================================
