------------------------------ MODULE HostedRooms ------------------------------
(***************************************************************************)
(* One hosted room (rooms.py), the requests about it (webapp.py), and the  *)
(* matches that its guests make the service create (runtime.py).           *)
(*                                                                         *)
(* A request is a sequence of calls of the repository, each a transaction  *)
(* of its own: what one has read may be stale when the next one writes.    *)
(* Every get_room may turn into a write, because it expires a room whose   *)
(* time is over.  Matches are pruned by other requests; a room protects    *)
(* its match.  Time is counted in hours.                                   *)
(***************************************************************************)
EXTENDS Naturals

CONSTANTS
    Host, Guest,    \* the host, and the requests to join
    Nobody,
    TTL,            \* ttl_hours
    Grace,          \* delete_grace_hours
    MatchAge,       \* how old a match is at least that is pruned for its age
    MaxClock        \* bound: the clock stops here

Player == Guest \cup {Host}

ASSUME PlayersAssumption == Host \notin Guest /\ Nobody \notin Player /\ Nobody \notin Nat
ASSUME HoursAssumption ==
    /\ TTL \in Nat \ {0} /\ Grace \in Nat \ {0} /\ MatchAge \in Nat \ {0}
    /\ MaxClock \in Nat

VARIABLES
    clock,
    room,       \* the row of hosted_rooms
    match,      \* the row of matches of each guest's match
    op,         \* the request of each player that is being served
    holds       \* the guest token that each guest was given

vars == <<clock, room, match, op, holds>>

NoRoom == [status |-> "none", guest |-> Nobody, expires |-> 0, closed |-> Nobody]
NoMatch == [life |-> "none", over |-> FALSE, updated |-> 0]
NotRead == [status |-> "none", guest |-> Nobody]
Idle == [pc |-> "idle", then |-> "idle", read |-> NotRead, late |-> FALSE]

Init ==
    /\ clock = 0
    /\ room = NoRoom
    /\ match = [g \in Guest |-> NoMatch]
    /\ op = [a \in Player |-> Idle]
    /\ holds = [g \in Guest |-> Nobody]

InUse(r) == r.status \in {"waiting_for_guest", "active"}
Present(r) == r.status \notin {"none", "deleted"}
Due(r) == r.expires <= clock

\* expire_room: whatever the room is now; closed_at is set once.
Expired(r) == IF Present(r)
              THEN [r EXCEPT !.status = "expired",
                             !.closed = IF @ = Nobody THEN clock ELSE @]
              ELSE r

\* touch_room.
TouchedAlways(r) ==     \* mutant: an expired room is revived
    IF Present(r) THEN [r EXCEPT !.status = "active", !.expires = clock + TTL] ELSE r
Touched(r) == IF InUse(r) THEN [r EXCEPT !.expires = clock + TTL] ELSE r

-----------------------------------------------------------------------------
(***************************************************************************)
(* Requests.  pc is the next call, then is the one after a get_room, read  *)
(* is what get_room has returned.                                          *)
(***************************************************************************)
Call(a, pc) == op' = [op EXCEPT ![a].pc = pc]
GetThen(a, then) == op' = [op EXCEPT ![a].pc = "get_room", ![a].then = then,
                                     ![a].read = NotRead]
Done(a) == op' = [op EXCEPT ![a] = Idle]

\* bound: a player has one request at a time, and none about a room that is
\* not there.  Each starts with a get_room.
Start(a, then) ==
    /\ op[a].pc = "idle"
    /\ Present(room)
    /\ GetThen(a, then)
    /\ UNCHANGED <<clock, room, match, holds>>

\* bound: a guest joins once
StartJoin(g) == match[g].life = "none" /\ holds[g] = Nobody /\ Start(g, "create_match")
\* bound: only players with a token poll, act or leave
StartUse(a) == /\ a \in Guest => holds[a] # Nobody
               /\ \E then \in {"poll", "act", "leave"} : Start(a, then)

\* create_room of the service: the host has the code when it returns.  (The
\* clean-up that it does first finds other rooms only, and is their Sweep.)
CreateRoom ==
    /\ room.status = "none"
    /\ room' = [NoRoom EXCEPT !.status = "waiting_for_guest", !.expires = clock + TTL]
    /\ UNCHANGED <<clock, match, op, holds>>

\* validate_token: the host's token, or the guest token of the room.
Admitted(a) == op[a].then \in {"poll", "act", "leave"} /\ a \in Guest
                   => holds[a] = room.guest

\* get_room of the repository reads, and expires the room in another
\* transaction if its time was over; then it reads again.
GetRoom(a) ==
    /\ op[a].pc = "get_room"
    /\ \/ /\ Present(room) /\ room.status # "expired" /\ Due(room)
          /\ Call(a, "expire")
       \/ /\ Present(room) /\ (room.status = "expired" \/ ~Due(room)) /\ Admitted(a)
          /\ op' = [op EXCEPT ![a].pc = op[a].then,
                              ![a].read = [status |-> room.status, guest |-> room.guest]]
       \/ /\ ~Present(room) \/ ((room.status = "expired" \/ ~Due(room)) /\ ~Admitted(a))
          /\ Done(a)
    /\ UNCHANGED <<clock, room, match, holds>>

ExpireRoom(a) ==
    /\ op[a].pc = "expire"
    /\ room' = Expired(room)
    /\ Call(a, "get_room")
    /\ UNCHANGED <<clock, match, holds>>

\* join_room of the service: the match is created before the seat is taken.
CreateMatch(g) ==
    /\ op[g].pc = "create_match"
    /\ \/ /\ op[g].read.status = "waiting_for_guest"
          /\ match' = [match EXCEPT ![g] = [life |-> "live", over |-> FALSE,
                                            updated |-> clock]]
          /\ GetThen(g, "reserve")
       \/ /\ op[g].read.status # "waiting_for_guest"
          /\ Done(g) /\ UNCHANGED match
    /\ UNCHANGED <<clock, room, holds>>

\* join_room of the repository: the update takes the seat of a waiting room
\* only, and nobody looks whether it did.
MayReserveRead(g) == op[g].read.status = "waiting_for_guest"     \* mutant: no condition in the update
MayReserve(g) == room.status = "waiting_for_guest"
Reserve(g) ==
    /\ op[g].pc = "reserve"
    /\ \/ /\ op[g].read.status = "waiting_for_guest"
          /\ room' = IF MayReserve(g)
                     THEN [room EXCEPT !.status = "active", !.guest = g,
                                       !.expires = clock + TTL]
                     ELSE room
          /\ GetThen(g, "joined")
       \/ /\ op[g].read.status # "waiting_for_guest"
          /\ Done(g) /\ UNCHANGED room
    /\ UNCHANGED <<clock, match, holds>>

\* The end of a join: touch_room, and the guest is given the token of the room
\* that was read, whoever's it is.
Joined(g) ==
    /\ op[g].pc = "joined"
    /\ room' = Touched(room)
    /\ holds' = [holds EXCEPT ![g] = op[g].read.guest]
    /\ Done(g)
    /\ UNCHANGED <<clock, match>>

\* touch_room, the last write of a poll and of an action.  (The get_room that
\* follows a poll's finds its time not over.)
Touch(a) ==
    /\ op[a].pc \in {"poll", "touch"}
    /\ room' = IF op[a].read.status # "expired" THEN Touched(room) ELSE room
    /\ Done(a)
    /\ UNCHANGED <<clock, match, holds>>

\* apply_action of the service: refused unless the room that was read is
\* active and its match is there and not over, and for other reasons of the
\* game; the action may complete the match.
Act(a) ==
    /\ op[a].pc = "act"
    /\ \/ LET g == op[a].read.guest
          IN  /\ op[a].read.status = "active"
              /\ match[g].life = "live" /\ ~match[g].over
              /\ \E over \in BOOLEAN :
                    match' = [match EXCEPT ![g].over = over, ![g].updated = clock]
              /\ Call(a, "touch")
       \/ Done(a) /\ UNCHANGED match
    /\ UNCHANGED <<clock, room, holds>>

Leave(a) ==
    /\ op[a].pc = "leave"
    /\ room' = Expired(room)
    /\ Done(a)
    /\ UNCHANGED <<clock, match, holds>>

-----------------------------------------------------------------------------
(***************************************************************************)
(* Clean-up, restart and time.                                             *)
(***************************************************************************)

\* cleanup_expired, at any time and before a room is created, in one
\* transaction: expire what is due, then delete what was closed long enough ago.
Sweep ==
    LET r == IF InUse(room) /\ Due(room) THEN Expired(room) ELSE room
    IN  /\ Present(room)
        /\ room' = IF r.status = "expired" /\ r.closed + Grace <= clock
                   THEN [NoRoom EXCEPT !.status = "deleted"] ELSE r
        /\ room' # room
    /\ UNCHANGED <<clock, match, op, holds>>

\* prune_old_matches and delete_matches_older_than: a complete match, or an old
\* one, unless a room in use protects it.
ProtectedByWaiting(g) == room.guest = g /\ room.status = "waiting_for_guest"    \* mutant
Protected(g) == room.guest = g /\ InUse(room)
PruneMatch(g) ==
    /\ match[g].life = "live" /\ ~Protected(g)
    /\ match[g].over \/ match[g].updated + MatchAge < clock
    /\ match' = [match EXCEPT ![g] = [NoMatch EXCEPT !.life = "gone"]]
    /\ UNCHANGED <<clock, room, op, holds>>

\* The server is restarted: requests are lost.
Crash ==
    /\ \E a \in Player : op[a].pc # "idle"
    /\ op' = [a \in Player |-> Idle]
    /\ UNCHANGED <<clock, room, match, holds>>

\* A request takes less than an hour.
Tick ==
    /\ clock < MaxClock
    /\ \A a \in Player : ~op[a].late
    /\ clock' = clock + 1
    /\ op' = [a \in Player |-> [op[a] EXCEPT !.late = op[a].pc # "idle"]]
    /\ UNCHANGED <<room, match, holds>>

PlayerStep(a) == GetRoom(a) \/ ExpireRoom(a) \/ Touch(a) \/ Act(a) \/ Leave(a) \/ StartUse(a)
GuestStep(g) == StartJoin(g) \/ CreateMatch(g) \/ Reserve(g) \/ Joined(g)
CleanUp == Sweep \/ \E g \in Guest : PruneMatch(g)
Next == \/ CreateRoom \/ CleanUp \/ Crash \/ Tick
        \/ \E a \in Player : PlayerStep(a)
        \/ \E g \in Guest : GuestStep(g)

Spec == Init /\ [][Next]_vars

-----------------------------------------------------------------------------
Statuses == {"none", "waiting_for_guest", "active", "expired", "deleted"}
Rooms == [status : Statuses,
          guest : Guest \cup {Nobody}, expires : Nat, closed : Nat \cup {Nobody}]
Matches == [life : {"none", "live", "gone"}, over : BOOLEAN, updated : Nat]
Calls == {"create_match", "reserve", "joined", "poll", "act", "leave"}
Ops == [pc : Calls \cup {"idle", "get_room", "expire", "touch"}, then : Calls \cup {"idle"},
        read : [status : Statuses, guest : Guest \cup {Nobody}], late : BOOLEAN]

\* The columns of the tables and the locals of the requests; a room is played
\* with a guest.
TypeOK ==
    /\ clock \in Nat /\ room \in Rooms
    /\ room.status = "active" => room.guest # Nobody
    /\ match \in [Guest -> Matches] /\ op \in [Player -> Ops]
    /\ holds \in [Guest -> Guest \cup {Nobody}]

\* A match that is being played is there: no clean-up deletes the match of a
\* room in use, nor that of a guest who is about to take the seat, although it
\* is no room's match yet.  About the order of create_match and the reservation
\* and about _protected_match_ids.
MatchKept ==
    /\ room.status = "active" => match[room.guest].life = "live"
    /\ \A g \in Guest : op[g].then = "reserve" => match[g].life = "live"

\* Whoever was given a guest token can use it as long as the room exists: no
\* later guest replaces the token.
TokenStays ==
    \A g \in Guest : Present(room) /\ holds[g] # Nobody => holds[g] = room.guest

\* A room in use is closed only when a player leaves or its time is over.  About
\* get_room, which decides on what it has read and writes whatever is there.
ClosedForReason ==
    [][InUse(room) /\ room'.status = "expired" => Due(room) \/ \E a \in Player : Leave(a)]_vars

\* The room goes through its life in one direction, with one guest, and is
\* closed once, however joins, polls, expiry and clean-ups interleave.
Life == INSTANCE RoomLife WITH
    status <- room.status, guest <- room.guest, closed <- room.closed
OneLife == Life!Spec
=============================================================================
