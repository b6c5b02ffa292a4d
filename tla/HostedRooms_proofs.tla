--------------------------- MODULE HostedRooms_proofs ---------------------------
(***************************************************************************)
(* Theorems about HostedRooms, for any number of guests and any periods.   *)
(***************************************************************************)
EXTENDS HostedRooms, TLAPS

\* What the columns of the room say about each other.
RoomShape ==
    /\ room.closed # Nobody <=> room.status = "expired"
    /\ room.status \in {"none", "waiting_for_guest", "deleted"} => room.guest = Nobody
    /\ room.status = "active" => room.guest # Nobody

\* As long as the room is there, whoever was read or told as its guest is its
\* guest.
GuestStays ==
    room.status # "deleted" =>
       /\ \A a \in Player : op[a].read.guest # Nobody => op[a].read.guest = room.guest
       /\ \A g \in Guest : holds[g] # Nobody => holds[g] = room.guest

\* A call that comes after a get_room is the one that was planned; nothing is
\* planned without a request.
CallPlanned == \A a \in Player : /\ op[a].pc \in Calls => op[a].then = op[a].pc
                                 /\ op[a].pc = "idle" => op[a].then = "idle"

\* A guest who has not taken the seat yet is nobody's guest.
NotSeated(g) == match[g].life = "none" \/ op[g].then = "reserve"
NewIsNotSeated ==
    \A g \in Guest : NotSeated(g) => /\ room.guest # g
                                     /\ \A a \in Player : op[a].read.guest # g

\* Its match is there, and too young to be pruned; before that there is none.
MatchIsNew ==
    \A g \in Guest :
       /\ op[g].then = "create_match" => match[g].life = "none"
       /\ op[g].then = "reserve" =>
             /\ match[g].life = "live" /\ ~match[g].over
             /\ clock <= match[g].updated + 1
             /\ ~op[g].late => clock <= match[g].updated

PlayedMatchLives == room.status = "active" => match[room.guest].life = "live"

IInv == TypeOK /\ RoomShape /\ GuestStays /\ CallPlanned /\ NewIsNotSeated /\ MatchIsNew
        /\ PlayedMatchLives

-----------------------------------------------------------------------------
USE DEF Player

\* The room after expire_room and touch_room.
LEMMA ExpiredRoom ==
  ASSUME TypeOK, RoomShape
  PROVE  /\ Expired(room) \in Rooms
         /\ Expired(room).guest = room.guest
         /\ Expired(room).status \in {room.status, "expired"}
         /\ Expired(room).status = room.status <=> room.status \in {"none", "deleted", "expired"}
         /\ Expired(room).closed # Nobody <=> Expired(room).status = "expired"
BY PlayersAssumption DEF TypeOK, RoomShape, Rooms, Statuses, Expired, Present

LEMMA TouchedRoom ==
  ASSUME TypeOK
  PROVE  /\ Touched(room) \in Rooms
         /\ Touched(room).guest = room.guest
         /\ Touched(room).status = room.status
         /\ Touched(room).closed = room.closed
BY HoursAssumption DEF TypeOK, Rooms, Statuses, Touched, InUse

\* What the helpers of the actions make of the requests.
LEMMA OpTypes ==
  ASSUME TypeOK, NEW a \in Player
  PROVE  /\ \A pc \in Calls \cup {"get_room", "expire", "touch"} : Call(a, pc) => op' \in [Player -> Ops]
         /\ \A then \in Calls : GetThen(a, then) => op' \in [Player -> Ops]
         /\ Done(a) => op' \in [Player -> Ops]
<1>1. op \in [Player -> Ops] /\ op[a] \in Ops /\ Idle \in Ops
  BY DEF TypeOK, Idle, Ops, NotRead, Statuses, Calls
<1>2. NotRead \in [status : Statuses, guest : Guest \cup {Nobody}]
  BY DEF NotRead, Statuses
<1>3. \A pc \in Calls \cup {"get_room", "expire", "touch"} : [op[a] EXCEPT !.pc = pc] \in Ops
  BY <1>1 DEF Ops
<1>4. \A then \in Calls : [op[a] EXCEPT !.pc = "get_room", !.then = then, !.read = NotRead] \in Ops
  BY <1>1, <1>2 DEF Ops
<1>5. \A pc \in Calls \cup {"get_room", "expire", "touch"} : Call(a, pc) => op' \in [Player -> Ops]
  BY <1>1, <1>3 DEF Call
<1>6. ASSUME NEW then \in Calls, GetThen(a, then) PROVE op' \in [Player -> Ops]
  <2>1. op' = [op EXCEPT ![a] = [op[a] EXCEPT !.pc = "get_room", !.then = then, !.read = NotRead]]
    BY <1>1, <1>6 DEF GetThen
  <2> QED
    BY <1>1, <1>4, <2>1
<1>7. Done(a) => op' \in [Player -> Ops]
  BY <1>1 DEF Done
<1> QED
  BY <1>5, <1>6, <1>7

\* The rows that prune, create and act write.
LEMMA MatchRows ==
  ASSUME TypeOK, NEW g \in Guest, NEW over \in BOOLEAN
  PROVE  /\ [NoMatch EXCEPT !.life = "gone"] \in Matches
         /\ [NoMatch EXCEPT !.life = "gone"].life = "gone"
         /\ [life |-> "live", over |-> FALSE, updated |-> clock] \in Matches
         /\ match[g] \in Matches
         /\ [match[g] EXCEPT !.over = over, !.updated = clock] \in Matches
         /\ [match[g] EXCEPT !.over = over, !.updated = clock].life = match[g].life
BY DEF TypeOK, NoMatch, Matches

LEMMA TypeNext ==
  ASSUME TypeOK, RoomShape, [Next]_vars
  PROVE  TypeOK'
<1> USE PlayersAssumption, HoursAssumption
<1>1. CASE CreateRoom
  <2>1. room' \in Rooms /\ room'.status = "waiting_for_guest"
    <3>1. room' = [status |-> "waiting_for_guest", guest |-> Nobody, expires |-> clock + TTL,
                   closed |-> Nobody]
      BY <1>1 DEF CreateRoom, NoRoom
    <3> QED
      BY <3>1 DEF Rooms, Statuses, TypeOK
  <2> QED
    BY <1>1, <2>1 DEF CreateRoom, TypeOK
<1>2. CASE Sweep
  <2>1. [NoRoom EXCEPT !.status = "deleted"] \in Rooms /\ [NoRoom EXCEPT !.status = "deleted"].status = "deleted"
    BY DEF NoRoom, Rooms, Statuses
  <2> QED
    BY <1>2, <2>1, ExpiredRoom DEF Sweep, TypeOK
<1>3. ASSUME NEW g \in Guest, PruneMatch(g) PROVE TypeOK'
  BY <1>3, MatchRows DEF PruneMatch, TypeOK
<1>4. CASE Crash
  <2>1. Idle \in Ops
    BY DEF Idle, NotRead, Ops, Calls, Statuses
  <2> QED
    BY <1>4, <2>1 DEF Crash, TypeOK
<1>5. CASE Tick
  <2>1. \A a \in Player : [op[a] EXCEPT !.late = (op[a].pc # "idle")] \in Ops
    <3>1. ASSUME NEW a \in Player, NEW b \in BOOLEAN PROVE [op[a] EXCEPT !.late = b] \in Ops
      BY DEF TypeOK, Ops
    <3> QED
      BY <3>1
  <2>2. clock + 1 \in Nat
    BY DEF TypeOK
  <2> QED
    BY <1>5, <2>1, <2>2 DEF Tick, TypeOK
<1>6. ASSUME NEW a \in Player, GetRoom(a) PROVE TypeOK'
  <2>1. op' \in [Player -> Ops]
    <3>1. op[a] \in Ops /\ op[a].then \in Calls \cup {"idle"} /\ [status |-> room.status, guest |-> room.guest] \in [status : Statuses, guest : Guest \cup {Nobody}]
      BY DEF TypeOK, Ops, Rooms
    <3>2. [op[a] EXCEPT !.pc = op[a].then, !.read = [status |-> room.status, guest |-> room.guest]] \in Ops
      BY <3>1 DEF Ops
    <3>3. CASE op' = [op EXCEPT ![a].pc = op[a].then,
                                ![a].read = [status |-> room.status, guest |-> room.guest]]
      <4>1. op' = [op EXCEPT ![a] = [op[a] EXCEPT !.pc = op[a].then,
                                       !.read = [status |-> room.status, guest |-> room.guest]]]
        BY <3>3 DEF TypeOK
      <4> QED
        BY <3>2, <4>1 DEF TypeOK
    <3>4. CASE Call(a, "expire") \/ Done(a)
      BY <3>4, OpTypes
    <3> QED
      BY <1>6, <3>3, <3>4 DEF GetRoom
  <2> QED
    BY <1>6, <2>1 DEF GetRoom, TypeOK
<1>7. ASSUME NEW a \in Player, ExpireRoom(a) PROVE TypeOK'
  BY <1>7, ExpiredRoom, OpTypes DEF ExpireRoom, TypeOK
<1>8. ASSUME NEW a \in Player, Touch(a) PROVE TypeOK'
  BY <1>8, TouchedRoom, OpTypes DEF Touch, TypeOK
<1>9. ASSUME NEW a \in Player, Act(a) PROVE TypeOK'
  <2>1. op' \in [Player -> Ops]
    BY <1>9, OpTypes DEF Act
  <2>2. match' \in [Guest -> Matches]
    <3>1. CASE UNCHANGED match
      BY <3>1 DEF TypeOK
    <3>2. ASSUME NEW over \in BOOLEAN, match' = [match EXCEPT ![op[a].read.guest].over = over,
                                                            ![op[a].read.guest].updated = clock]
          PROVE match' \in [Guest -> Matches]
      <4> DEFINE g == op[a].read.guest
      <4>1. match' = [match EXCEPT ![g] = [match[g] EXCEPT !.over = over, !.updated = clock]]
        BY <3>2 DEF TypeOK
      <4>2. g \in Guest => [match[g] EXCEPT !.over = over, !.updated = clock] \in Matches
        BY MatchRows
      <4> HIDE DEF g
      <4> QED
        BY <4>1, <4>2 DEF TypeOK
    <3> QED
      BY <1>9, <3>1, <3>2 DEF Act
  <2> QED
    BY <1>9, <2>1, <2>2 DEF Act, TypeOK
<1>10. ASSUME NEW a \in Player, Leave(a) PROVE TypeOK'
  BY <1>10, ExpiredRoom, OpTypes DEF Leave, TypeOK
<1>11. ASSUME NEW a \in Player, StartUse(a) PROVE TypeOK'
  BY <1>11, OpTypes DEF StartUse, Start, TypeOK, Calls
<1>12. ASSUME NEW g \in Guest, StartJoin(g) PROVE TypeOK'
  BY <1>12, OpTypes DEF StartJoin, Start, TypeOK, Calls
<1>13. ASSUME NEW g \in Guest, CreateMatch(g) PROVE TypeOK'
  <2>1. op' \in [Player -> Ops]
    BY <1>13, OpTypes DEF CreateMatch, Calls
  <2>2. match' \in [Guest -> Matches]
    BY <1>13, MatchRows DEF CreateMatch, TypeOK
  <2> QED
    BY <1>13, <2>1, <2>2 DEF CreateMatch, TypeOK
<1>14. ASSUME NEW g \in Guest, Reserve(g) PROVE TypeOK'
  <2>1. op' \in [Player -> Ops]
    BY <1>14, OpTypes DEF Reserve, Calls
  <2>2. room' \in Rooms /\ (room'.status = "active" => room'.guest # Nobody)
    <3>1. ASSUME room' = [room EXCEPT !.status = "active", !.guest = g, !.expires = clock + TTL]
          PROVE  room' \in Rooms /\ room'.guest = g
      <4>1. room' = [status |-> "active", guest |-> g, expires |-> clock + TTL,
                     closed |-> room.closed]
        BY <3>1 DEF TypeOK, Rooms
      <4> QED
        BY <4>1 DEF Rooms, Statuses, TypeOK
    <3> QED
      BY <1>14, <3>1 DEF Reserve, TypeOK
  <2> QED
    BY <1>14, <2>1, <2>2 DEF Reserve, TypeOK
<1>15. ASSUME NEW g \in Guest, Joined(g) PROVE TypeOK'
  <2>1. op' \in [Player -> Ops] /\ op[g].read.guest \in Guest \cup {Nobody}
    BY <1>15, OpTypes DEF Joined, TypeOK, Ops
  <2> QED
    BY <1>15, <2>1, TouchedRoom DEF Joined, TypeOK
<1>16. CASE UNCHANGED vars
  BY <1>16 DEF vars, TypeOK
<1> QED
  BY <1>1, <1>2, <1>3, <1>4, <1>5, <1>6, <1>7, <1>8, <1>9, <1>10, <1>11, <1>12, <1>13,
     <1>14, <1>15, <1>16 DEF Next, PlayerStep, GuestStep, CleanUp

\* A request goes on without a new read, or ends.
GoesOn(b) ==
    \/ op'[b] = Idle
    \/ /\ op'[b].read = op[b].read /\ op'[b].then = op[b].then /\ op'[b].late = op[b].late
       /\ op'[b].pc \in {op[b].pc, "get_room", "expire", "touch"}

LEMMA RequestGoesOn ==
  ASSUME TypeOK, NEW a \in Player,
         Done(a) \/ \E pc \in {"get_room", "expire", "touch"} : Call(a, pc)
  PROVE  \A b \in Player : GoesOn(b)
<1>1. op \in [Player -> Ops]
  BY DEF TypeOK
<1>2. CASE Done(a)
  BY <1>1, <1>2 DEF Done, GoesOn
<1>3. ASSUME NEW pc \in {"get_room", "expire", "touch"}, Call(a, pc)
      PROVE  \A b \in Player : GoesOn(b)
  <2>1. op' = [op EXCEPT ![a] = [op[a] EXCEPT !.pc = pc]]
    BY <1>1, <1>3 DEF Call
  <2>2. op[a] \in Ops
    BY <1>1
  <2>3. /\ [op[a] EXCEPT !.pc = pc].read = op[a].read /\ [op[a] EXCEPT !.pc = pc].then = op[a].then
        /\ [op[a] EXCEPT !.pc = pc].late = op[a].late /\ [op[a] EXCEPT !.pc = pc].pc = pc
    BY <2>2 DEF Ops
  <2>4. op'[a] = [op[a] EXCEPT !.pc = pc] /\ \A b \in Player \ {a} : op'[b] = op[b]
    BY <1>1, <2>1
  <2> QED
    BY <2>3, <2>4 DEF GoesOn
<1> QED
  BY <1>2, <1>3

\* Of the room such a step only changes what expire_room and touch_room do.
LEMMA RoomWritten ==
  ASSUME IInv, room' \in {room, Expired(room), Touched(room)},
         \A g \in Guest : match'[g].life = match[g].life
  PROVE  /\ room'.guest = room.guest
         /\ room'.status = "deleted" <=> room.status = "deleted"
         /\ RoomShape' /\ PlayedMatchLives'
<1>1. CASE room' = room
  BY <1>1, PlayersAssumption DEF IInv, TypeOK, Rooms, RoomShape, PlayedMatchLives
<1>2. CASE room' = Expired(room)
  <2>1. room'.status # "active" /\ (room'.status = "deleted" <=> room.status = "deleted")
    BY <1>2, ExpiredRoom DEF IInv, TypeOK, Rooms, Statuses
  <2>2. room'.guest = room.guest /\ (room'.closed # Nobody <=> room'.status = "expired")
    BY <1>2, ExpiredRoom DEF IInv
  <2>3. room'.status \in {"none", "waiting_for_guest", "deleted"} => room.guest = Nobody
    BY <1>2, ExpiredRoom DEF IInv, RoomShape
  <2> QED
    BY <2>1, <2>2, <2>3 DEF RoomShape, PlayedMatchLives
<1>3. CASE room' = Touched(room)
  <2>1. room'.guest = room.guest /\ room'.status = room.status /\ room'.closed = room.closed
    BY <1>3, TouchedRoom DEF IInv
  <2>2. room.status = "active" => room.guest \in Guest
    BY DEF IInv, TypeOK, Rooms
  <2> QED
    BY <2>1, <2>2 DEF IInv, RoomShape, PlayedMatchLives
<1> QED
  BY <1>1, <1>2, <1>3

\* So it keeps the invariant, if it leaves the matches alone that are to be
\* reserved.
LEMMA UseStep ==
  ASSUME IInv, TypeOK', \A b \in Player : GoesOn(b),
         room' \in {room, Expired(room), Touched(room)},
         \A g \in Guest : /\ match'[g].life = match[g].life
                          /\ op[g].then = "reserve" => match'[g] = match[g],
         UNCHANGED <<clock, holds>>
  PROVE  IInv'
<1> USE PlayersAssumption
<1>1. /\ room'.guest = room.guest /\ (room'.status = "deleted" <=> room.status = "deleted")
      /\ RoomShape' /\ PlayedMatchLives'
  BY RoomWritten
<1>2. \A b \in Player : /\ op'[b].read.guest \in {op[b].read.guest, Nobody}
                        /\ op'[b].then \in {op[b].then, "idle"}
                        /\ op'[b].then # "idle" => op'[b].late = op[b].late
  BY DEF GoesOn, Idle, NotRead
<1>3. GuestStays'
  BY <1>1, <1>2 DEF IInv, GuestStays
<1>4. CallPlanned'
  <2> SUFFICES ASSUME NEW b \in Player
               PROVE  /\ op'[b].pc \in Calls => op'[b].then = op'[b].pc
                      /\ op'[b].pc = "idle" => op'[b].then = "idle"
    BY DEF CallPlanned
  <2>1. CASE op'[b] = Idle
    BY <2>1 DEF Idle, Calls
  <2>2. CASE op'[b] # Idle
    <3>1. op'[b].then = op[b].then /\ op'[b].pc \in {op[b].pc, "get_room", "expire", "touch"}
      BY <2>2 DEF GoesOn
    <3> QED
      BY <3>1 DEF IInv, CallPlanned, Calls
  <2> QED
    BY <2>1, <2>2
<1>5. NewIsNotSeated'
  BY <1>1, <1>2 DEF IInv, NewIsNotSeated, NotSeated
<1>6. MatchIsNew'
  <2> SUFFICES ASSUME NEW g \in Guest
               PROVE  /\ op'[g].then = "create_match" => match'[g].life = "none"
                      /\ op'[g].then = "reserve" =>
                            /\ match'[g].life = "live" /\ ~match'[g].over
                            /\ clock' <= match'[g].updated + 1
                            /\ ~op'[g].late => clock' <= match'[g].updated
    BY DEF MatchIsNew
  <2>1. CASE op'[g].then \notin {"create_match", "reserve"}
    BY <2>1
  <2>2. CASE op'[g].then \in {"create_match", "reserve"}
    <3>1. op'[g].then = op[g].then /\ op'[g].late = op[g].late
      BY <1>2, <2>2
    <3> QED
      BY <3>1 DEF IInv, MatchIsNew
  <2> QED
    BY <2>1, <2>2
<1> QED
  BY <1>1, <1>3, <1>4, <1>5, <1>6 DEF IInv

LEMMA IInvNext ==
  ASSUME IInv, [Next]_vars
  PROVE  IInv'
<1> USE PlayersAssumption, HoursAssumption
<1>0. TypeOK'
  BY TypeNext DEF IInv
<1>1. CASE CreateRoom
  <2>1. RoomShape'
    BY <1>0, <1>1, SMTT(20) DEF IInv, TypeOK, Ops, RoomShape, CreateRoom, NoRoom
  <2>2. GuestStays'
    BY <1>0, <1>1, SMTT(20) DEF IInv, TypeOK, Ops, GuestStays, RoomShape, CreateRoom, NoRoom
  <2>3. NewIsNotSeated'
    BY <1>0, <1>1, SMTT(20) DEF IInv, TypeOK, Ops, NewIsNotSeated, NotSeated, RoomShape, CreateRoom, NoRoom
  <2>4. PlayedMatchLives'
    BY <1>0, <1>1, SMTT(20) DEF IInv, TypeOK, Ops, PlayedMatchLives, RoomShape, CreateRoom, NoRoom
  <2>5. CallPlanned' /\ MatchIsNew'
    BY <1>1 DEF IInv, CallPlanned, MatchIsNew, CreateRoom
  <2> QED
    BY <1>0, <2>1, <2>2, <2>3, <2>4, <2>5 DEF IInv
<1>2. CASE Sweep
  <2>1. RoomShape'
    BY ExpiredRoom, <1>0, <1>2, SMTT(20) DEF IInv, TypeOK, Ops, RoomShape, Sweep, NoRoom, Present
  <2>2. GuestStays'
    BY ExpiredRoom, <1>0, <1>2, SMTT(20) DEF IInv, TypeOK, Ops, GuestStays, RoomShape, Sweep, NoRoom, Present
  <2>3. NewIsNotSeated'
    BY ExpiredRoom, <1>0, <1>2, SMTT(20) DEF IInv, TypeOK, Ops, NewIsNotSeated, NotSeated, RoomShape, Sweep, NoRoom, Present
  <2>4. PlayedMatchLives'
    BY ExpiredRoom, <1>0, <1>2, SMTT(20) DEF IInv, TypeOK, Ops, PlayedMatchLives, RoomShape, Sweep, NoRoom, Present
  <2>5. CallPlanned' /\ MatchIsNew'
    BY <1>2 DEF IInv, CallPlanned, MatchIsNew, Sweep
  <2> QED
    BY <1>0, <2>1, <2>2, <2>3, <2>4, <2>5 DEF IInv
<1>3. ASSUME NEW g \in Guest, PruneMatch(g) PROVE IInv'
  <2>1. match'[g].life = "gone" /\ \A h \in Guest \ {g} : match'[h] = match[h]
    BY MatchRows, <1>3 DEF PruneMatch, TypeOK, IInv
  <2>2. op[g].then \notin {"create_match", "reserve"}
    <3>1. match[g].updated \in Nat /\ clock \in Nat
      BY MatchRows DEF Matches, TypeOK, IInv
    <3> QED
      BY <3>1, <1>3 DEF PruneMatch, MatchIsNew, IInv
  <2>3. NewIsNotSeated'
    BY <1>3, <2>1 DEF PruneMatch, NewIsNotSeated, NotSeated, IInv
  <2>4. MatchIsNew'
    BY <1>3, <2>1, <2>2 DEF PruneMatch, MatchIsNew, IInv
  <2>5. PlayedMatchLives'
    BY <1>3, <2>1 DEF PruneMatch, Protected, InUse, PlayedMatchLives, RoomShape, TypeOK, Rooms, IInv
  <2>6. RoomShape' /\ GuestStays' /\ CallPlanned'
    BY <1>3 DEF IInv, RoomShape, GuestStays, CallPlanned, PruneMatch
  <2> QED
    BY <1>0, <2>3, <2>4, <2>5, <2>6 DEF IInv
<1>4. CASE Crash
  <2>1. GuestStays'
    BY <1>0, <1>4, SMTT(20) DEF IInv, TypeOK, Ops, GuestStays, RoomShape, Crash, Idle, NotRead
  <2>2. CallPlanned'
    BY <1>0, <1>4, SMTT(20) DEF IInv, TypeOK, Ops, CallPlanned, Crash, Idle, NotRead
  <2>3. NewIsNotSeated'
    BY <1>0, <1>4, SMTT(20) DEF IInv, TypeOK, Ops, NewIsNotSeated, NotSeated, RoomShape, Crash, Idle, NotRead
  <2>4. MatchIsNew'
    BY <1>0, <1>4, SMTT(20) DEF IInv, TypeOK, Ops, MatchIsNew, RoomShape, Crash, Idle, NotRead
  <2>5. RoomShape' /\ PlayedMatchLives'
    BY <1>4 DEF IInv, RoomShape, PlayedMatchLives, Crash
  <2> QED
    BY <1>0, <2>1, <2>2, <2>3, <2>4, <2>5 DEF IInv
<1>5. CASE Tick
  <2>1. \A a \in Player : op'[a].then = op[a].then /\ (op'[a].late <=> op[a].pc # "idle")
    <3>1. op \in [Player -> Ops]
      BY DEF TypeOK, IInv
    <3>2. \A a \in Player : op'[a] = [op[a] EXCEPT !.late = (op[a].pc # "idle")]
      BY <1>5 DEF Tick
    <3>3. ASSUME NEW a \in Player, NEW b \in BOOLEAN, op'[a] = [op[a] EXCEPT !.late = b]
          PROVE  op'[a].then = op[a].then /\ op'[a].late = b
      BY <3>1, <3>3 DEF Ops
    <3> QED
      BY <3>2, <3>3
  <2>2. \A a \in Player : op[a].then # "idle" => op'[a].late /\ ~op[a].late
    BY <1>5, <2>1 DEF Tick, CallPlanned, IInv
  <2>3. clock \in Nat /\ clock' = clock + 1 /\ \A g \in Guest : match[g].updated \in Nat
    BY <1>5 DEF Tick, TypeOK, Matches, IInv
  <2>4. GuestStays'
    BY <1>0, <1>5, SMTT(20) DEF IInv, TypeOK, Ops, CallPlanned, GuestStays, RoomShape, Tick
  <2>5. CallPlanned'
    BY <1>0, <1>5, SMTT(20) DEF IInv, TypeOK, Ops, CallPlanned, Tick
  <2>6. NewIsNotSeated'
    BY <1>0, <1>5, SMTT(20) DEF IInv, TypeOK, Ops, CallPlanned, NewIsNotSeated, NotSeated, RoomShape, Tick
  <2>7. MatchIsNew'
    <3> SUFFICES ASSUME NEW g \in Guest
                 PROVE  /\ op'[g].then = "create_match" => match'[g].life = "none"
                        /\ op'[g].then = "reserve" =>
                              /\ match'[g].life = "live" /\ ~match'[g].over
                              /\ clock' <= match'[g].updated + 1
                              /\ ~op'[g].late => clock' <= match'[g].updated
      BY DEF MatchIsNew
    <3>1. op'[g].then = op[g].then /\ match' = match
      BY <1>5, <2>1 DEF Tick
    <3>2. op[g].then = "reserve" => op'[g].late /\ clock' <= match[g].updated + 1
      BY <2>2, <2>3 DEF MatchIsNew, IInv
    <3> QED
      BY <3>1, <3>2 DEF MatchIsNew, IInv
  <2>8. RoomShape' /\ PlayedMatchLives'
    BY <1>5 DEF IInv, RoomShape, PlayedMatchLives, Tick
  <2> QED
    BY <1>0, <2>4, <2>5, <2>6, <2>7, <2>8 DEF IInv
<1>6. ASSUME NEW a \in Player, GetRoom(a) PROVE IInv'
  <2>1. GuestStays'
    BY <1>0, <1>6, SMTT(20) DEF IInv, TypeOK, Ops, GuestStays, RoomShape, GetRoom, Call, Done, Idle, NotRead, Present, Calls
  <2>2. CallPlanned'
    BY <1>0, <1>6, SMTT(20) DEF IInv, TypeOK, Ops, CallPlanned, GetRoom, Call, Done, Idle, NotRead, Present, Calls
  <2>3. NewIsNotSeated'
    BY <1>0, <1>6, SMTT(20) DEF IInv, TypeOK, Ops, NewIsNotSeated, NotSeated, RoomShape, GetRoom, Call, Done, Idle, NotRead, Present, Calls
  <2>4. MatchIsNew'
    BY <1>0, <1>6, SMTT(20) DEF IInv, TypeOK, Ops, MatchIsNew, RoomShape, GetRoom, Call, Done, Idle, NotRead, Present, Calls
  <2>5. RoomShape' /\ PlayedMatchLives'
    BY <1>6 DEF IInv, RoomShape, PlayedMatchLives, GetRoom
  <2> QED
    BY <1>0, <2>1, <2>2, <2>3, <2>4, <2>5 DEF IInv
<1>7. ASSUME NEW a \in Player, ExpireRoom(a) PROVE IInv'
  <2>1. \A b \in Player : GoesOn(b)
    BY <1>7, RequestGoesOn DEF ExpireRoom, IInv
  <2> QED
    BY <1>0, <1>7, <2>1, UseStep DEF ExpireRoom
<1>8. ASSUME NEW a \in Player, Touch(a) PROVE IInv'
  <2>1. \A b \in Player : GoesOn(b)
    BY <1>8, RequestGoesOn DEF Touch, IInv
  <2> QED
    BY <1>0, <1>8, <2>1, UseStep DEF Touch
<1>9. ASSUME NEW a \in Player, Act(a) PROVE IInv'
  <2>1. \A b \in Player : GoesOn(b)
    BY <1>9, RequestGoesOn DEF Act, IInv
  <2>2. \A h \in Guest : /\ match'[h].life = match[h].life
                         /\ h # op[a].read.guest => match'[h] = match[h]
    <3>1. CASE UNCHANGED match
      BY <3>1
    <3>2. ASSUME NEW over \in BOOLEAN, match' = [match EXCEPT ![op[a].read.guest].over = over,
                                                            ![op[a].read.guest].updated = clock]
          PROVE \A h \in Guest : /\ match'[h].life = match[h].life
                                 /\ h # op[a].read.guest => match'[h] = match[h]
      <4> DEFINE g == op[a].read.guest
      <4>1. match' = [match EXCEPT ![g] = [match[g] EXCEPT !.over = over, !.updated = clock]]
        BY <3>2 DEF TypeOK, IInv
      <4>2. g \in Guest => [match[g] EXCEPT !.over = over, !.updated = clock].life = match[g].life
        BY MatchRows DEF IInv
      <4> HIDE DEF g
      <4>3. \A h \in Guest : /\ match'[h].life = match[h].life
                             /\ h # g => match'[h] = match[h]
        BY <4>1, <4>2 DEF TypeOK, IInv
      <4> QED
        BY <4>3 DEF g
    <3> QED
      BY <1>9, <3>1, <3>2 DEF Act
  <2>3. \A h \in Guest : op[h].then = "reserve" => h # op[a].read.guest
    BY DEF IInv, NewIsNotSeated, NotSeated
  <2>4. room' = room /\ UNCHANGED <<clock, holds>>
    BY <1>9 DEF Act
  <2> QED
    BY <1>0, <2>1, <2>2, <2>3, <2>4, UseStep
<1>10. ASSUME NEW a \in Player, Leave(a) PROVE IInv'
  <2>1. \A b \in Player : GoesOn(b)
    BY <1>10, RequestGoesOn DEF Leave, IInv
  <2> QED
    BY <1>0, <1>10, <2>1, UseStep DEF Leave
<1>11. ASSUME NEW a \in Player, StartUse(a) PROVE IInv'
  <2>1. GuestStays'
    BY <1>0, <1>11, SMTT(20) DEF IInv, TypeOK, Ops, GuestStays, RoomShape, StartUse, Start, GetThen, NotRead, Calls
  <2>2. CallPlanned'
    BY <1>0, <1>11, SMTT(20) DEF IInv, TypeOK, Ops, CallPlanned, StartUse, Start, GetThen, NotRead, Calls
  <2>3. NewIsNotSeated'
    BY <1>0, <1>11, SMTT(20) DEF IInv, TypeOK, Ops, NewIsNotSeated, NotSeated, RoomShape, StartUse, Start, GetThen, NotRead, Calls
  <2>4. MatchIsNew'
    BY <1>0, <1>11, SMTT(20) DEF IInv, TypeOK, Ops, MatchIsNew, RoomShape, StartUse, Start, GetThen, NotRead, Calls
  <2>5. RoomShape' /\ PlayedMatchLives'
    BY <1>11 DEF IInv, RoomShape, PlayedMatchLives, StartUse, Start
  <2> QED
    BY <1>0, <2>1, <2>2, <2>3, <2>4, <2>5 DEF IInv
<1>12. ASSUME NEW g \in Guest, StartJoin(g) PROVE IInv'
  <2>1. GuestStays'
    BY <1>0, <1>12, SMTT(20) DEF IInv, TypeOK, Ops, GuestStays, RoomShape, StartJoin, Start, GetThen, NotRead, Calls
  <2>2. CallPlanned'
    BY <1>0, <1>12, SMTT(20) DEF IInv, TypeOK, Ops, CallPlanned, StartJoin, Start, GetThen, NotRead, Calls
  <2>3. NewIsNotSeated'
    BY <1>0, <1>12, SMTT(20) DEF IInv, TypeOK, Ops, NewIsNotSeated, NotSeated, RoomShape, StartJoin, Start, GetThen, NotRead, Calls
  <2>4. MatchIsNew'
    BY <1>0, <1>12, SMTT(20) DEF IInv, TypeOK, Ops, MatchIsNew, RoomShape, StartJoin, Start, GetThen, NotRead, Calls
  <2>5. RoomShape' /\ PlayedMatchLives'
    BY <1>12 DEF IInv, RoomShape, PlayedMatchLives, StartJoin, Start
  <2> QED
    BY <1>0, <2>1, <2>2, <2>3, <2>4, <2>5 DEF IInv
<1>13. ASSUME NEW g \in Guest, CreateMatch(g) PROVE IInv'
  <2>1. GuestStays'
    BY <1>0, <1>13, SMTT(20) DEF IInv, TypeOK, Ops, CallPlanned, GuestStays, RoomShape, CreateMatch, GetThen, Done, Idle, NotRead, Calls
  <2>2. CallPlanned'
    BY <1>0, <1>13, SMTT(20) DEF IInv, TypeOK, Ops, CallPlanned, CreateMatch, GetThen, Done, Idle, NotRead, Calls
  <2>3. NewIsNotSeated'
    BY <1>0, <1>13, SMTT(20) DEF IInv, TypeOK, Ops, CallPlanned, MatchIsNew, NewIsNotSeated, NotSeated, RoomShape, CreateMatch, GetThen, Done, Idle, NotRead, Calls
  <2>4. MatchIsNew'
    BY <1>0, <1>13, SMTT(20) DEF IInv, TypeOK, Ops, CallPlanned, MatchIsNew, RoomShape, CreateMatch, GetThen, Done, Idle, NotRead, Calls
  <2>5. PlayedMatchLives'
    BY <1>0, <1>13, SMTT(20) DEF IInv, TypeOK, Ops, CallPlanned, MatchIsNew, PlayedMatchLives, RoomShape, CreateMatch, GetThen, Done, Idle, NotRead, Calls
  <2>6. RoomShape'
    BY <1>13 DEF IInv, RoomShape, CreateMatch
  <2> QED
    BY <1>0, <2>1, <2>2, <2>3, <2>4, <2>5, <2>6 DEF IInv
<1>14. ASSUME NEW g \in Guest, Reserve(g) PROVE IInv'
  <2>1. \A b \in Player : \/ op'[b] = op[b]
                          \/ b = g /\ op'[b].then \in {"joined", "idle"} /\ op'[b].read = NotRead
    <3>1. op \in [Player -> Ops] /\ op[g] \in Ops
      BY DEF IInv, TypeOK
    <3>2. CASE GetThen(g, "joined")
      BY <3>1, <3>2 DEF GetThen, Ops
    <3>3. CASE Done(g)
      BY <3>1, <3>3 DEF Done, Idle
    <3> QED
      BY <1>14, <3>2, <3>3 DEF Reserve
  <2>2. RoomShape'
    BY <1>0, <1>14, SMTT(20) DEF IInv, TypeOK, Ops, CallPlanned, RoomShape, Reserve, MayReserve, GetThen, Done, Idle, NotRead, Calls
  <2>3. GuestStays'
    BY <1>0, <1>14, SMTT(20) DEF IInv, TypeOK, Ops, CallPlanned, GuestStays, RoomShape, Reserve, MayReserve, GetThen, Done, Idle, NotRead, Calls
  <2>4. CallPlanned'
    BY <1>0, <1>14, SMTT(20) DEF IInv, TypeOK, Ops, CallPlanned, Reserve, MayReserve, GetThen, Done, Idle, NotRead, Calls
  <2>5. NewIsNotSeated'
    <3>1. UNCHANGED match /\ op[g].then = "reserve" /\ room'.guest \in {room.guest, g}
      BY <1>14 DEF Reserve, IInv, CallPlanned, Calls, TypeOK, Rooms
    <3>2. match[g].life = "live" /\ op'[g].then # "reserve"
      BY <1>14, <3>1 DEF Reserve, GetThen, Done, Idle, IInv, MatchIsNew, TypeOK, Ops
    <3>3. \A b \in Player : op'[b].read.guest \in {op[b].read.guest, Nobody}
      BY <2>1 DEF NotRead
    <3>4. \A h \in Guest : NotSeated(h)' => h # g /\ NotSeated(h)
      BY <2>1, <3>1, <3>2 DEF NotSeated
    <3> QED
      BY <3>1, <3>3, <3>4 DEF IInv, NewIsNotSeated
  <2>6. MatchIsNew'
    <3>1. UNCHANGED <<clock, match>>
      BY <1>14 DEF Reserve
    <3> QED
      BY <2>1, <3>1 DEF IInv, MatchIsNew
  <2>7. PlayedMatchLives'
    BY <1>0, <1>14, SMTT(20) DEF IInv, TypeOK, Ops, CallPlanned, MatchIsNew, PlayedMatchLives, RoomShape, Reserve, MayReserve, GetThen, Done, Idle, NotRead, Calls
  <2> QED
    BY <1>0, <2>2, <2>3, <2>4, <2>5, <2>6, <2>7 DEF IInv
<1>15. ASSUME NEW g \in Guest, Joined(g) PROVE IInv'
  <2>1. RoomShape'
    BY TouchedRoom, <1>0, <1>15, SMTT(20) DEF IInv, TypeOK, Ops, CallPlanned, RoomShape, Joined, Done, Idle, NotRead
  <2>2. GuestStays'
    BY TouchedRoom, <1>0, <1>15, SMTT(20) DEF IInv, TypeOK, Ops, CallPlanned, GuestStays, RoomShape, Joined, Done, Idle, NotRead
  <2>3. CallPlanned'
    BY TouchedRoom, <1>0, <1>15, SMTT(20) DEF IInv, TypeOK, Ops, CallPlanned, Joined, Done, Idle, NotRead
  <2>4. NewIsNotSeated'
    BY TouchedRoom, <1>0, <1>15, SMTT(20) DEF IInv, TypeOK, Ops, CallPlanned, NewIsNotSeated, NotSeated, RoomShape, Joined, Done, Idle, NotRead
  <2>5. MatchIsNew'
    BY TouchedRoom, <1>0, <1>15, SMTT(20) DEF IInv, TypeOK, Ops, CallPlanned, MatchIsNew, RoomShape, Joined, Done, Idle, NotRead
  <2>6. PlayedMatchLives'
    BY TouchedRoom, <1>0, <1>15, SMTT(20) DEF IInv, TypeOK, Ops, CallPlanned, PlayedMatchLives, RoomShape, Joined, Done, Idle, NotRead
  <2> QED
    BY <1>0, <2>1, <2>2, <2>3, <2>4, <2>5, <2>6 DEF IInv
<1>16. CASE UNCHANGED vars
  BY <1>0, <1>16 DEF vars, IInv, RoomShape, GuestStays, CallPlanned, NewIsNotSeated, NotSeated, MatchIsNew, PlayedMatchLives
<1> QED
  BY <1>1, <1>2, <1>3, <1>4, <1>5, <1>6, <1>7, <1>8, <1>9, <1>10, <1>11, <1>12, <1>13, <1>14, <1>15, <1>16 DEF Next, PlayerStep, GuestStep, CleanUp

-----------------------------------------------------------------------------
(***************************************************************************)
(* The theorems.                                                           *)
(***************************************************************************)
LEMMA IInvInit == Init => IInv
BY PlayersAssumption DEF Init, IInv, TypeOK, Rooms, Statuses, Matches, Ops, NoRoom, NoMatch, Idle,
   NotRead, RoomShape, GuestStays, CallPlanned, Calls, NewIsNotSeated, MatchIsNew, PlayedMatchLives

THEOREM IInvHolds == Spec => []IInv
<1>1. IInv /\ [Next]_vars => IInv'
  BY IInvNext
<1> QED
  BY <1>1, IInvInit, PTL DEF Spec

\* The room, the matches and the requests of webapp.py stay well-formed.
THEOREM RoomsTypeCorrect == Spec => []TypeOK
<1>1. IInv => TypeOK
  BY DEF IInv
<1> QED
  BY <1>1, IInvHolds, PTL

\* No clean-up deletes the match of a room in use, nor the match made for a
\* guest who has not taken the seat yet.
THEOREM MatchKeptHolds == Spec => []MatchKept
<1>1. IInv => MatchKept
  BY DEF IInv, MatchKept, PlayedMatchLives, MatchIsNew
<1> QED
  BY <1>1, IInvHolds, PTL

\* The guest token that a guest was given stays the room's, however many
\* guests try to join at once.
THEOREM TokenStaysHolds == Spec => []TokenStays
<1>1. IInv => TokenStays
  BY DEF IInv, TokenStays, GuestStays, Present
<1> QED
  BY <1>1, IInvHolds, PTL

\* A step of the room is one of its life, or none.
LEMMA LifeStep ==
  ASSUME IInv, [Next]_vars
  PROVE  [Life!Next]_Life!vars
<1> USE PlayersAssumption DEF IInv
<1>1. ASSUME room' = Expired(room) PROVE [Life!Next]_Life!vars
  <2>1. CASE room.status \in {"none", "deleted"}
    BY <1>1, <2>1 DEF Expired, Present, Life!vars
  <2>2. CASE InUse(room)
    BY <1>1, <2>2, ExpiredRoom DEF InUse, TypeOK, Rooms, Statuses, Life!Next, Life!Close
  <2>3. CASE room.status = "expired"
    <3>1. room'.status = room.status /\ room'.guest = room.guest /\ room'.closed = room.closed
      BY <1>1, <2>3 DEF Expired, Present, RoomShape, TypeOK, Rooms
    <3> QED
      BY <3>1 DEF Life!vars
  <2> QED
    BY <2>1, <2>2, <2>3 DEF TypeOK, Rooms, Statuses, InUse
<1>2. ASSUME room' = Touched(room) PROVE UNCHANGED Life!vars
  BY <1>2, TouchedRoom DEF Life!vars
<1>3. CASE CreateRoom
  BY <1>3 DEF CreateRoom, NoRoom, RoomShape, Life!Next, Life!Open
<1>4. CASE Sweep
  <2> DEFINE r == IF InUse(room) /\ Due(room) THEN Expired(room) ELSE room
  <2>1. CASE room' = Expired(room)
    BY <1>1, <2>1
  <2>2. CASE room' = room
    BY <2>2 DEF Life!vars
  <2>3. CASE room' = [NoRoom EXCEPT !.status = "deleted"] /\ r.status = "expired"
             /\ r.closed + Grace <= clock
    <3>1. InUse(room) => Expired(room).closed = clock
      BY DEF Expired, Present, InUse, RoomShape, TypeOK, Rooms
    <3>2. clock \in Nat /\ ~(clock + Grace <= clock)
      BY HoursAssumption DEF TypeOK
    <3>3. room.status = "expired"
      BY <2>3, <3>1, <3>2
    <3> QED
      BY <2>3, <3>3 DEF NoRoom, Life!Next, Life!Remove
  <2> QED
    BY <1>4, <2>1, <2>2, <2>3 DEF Sweep
<1>5. ASSUME NEW g \in Guest, Reserve(g) PROVE [Life!Next]_Life!vars
  <2>1. CASE UNCHANGED room
    BY <2>1 DEF Life!vars
  <2>2. CASE room.status = "waiting_for_guest" /\ room' = [room EXCEPT !.status = "active",
                                            !.guest = g, !.expires = clock + TTL]
    <3>1. room'.status = "active" /\ room'.guest = g /\ room'.closed = room.closed
      BY <2>2 DEF TypeOK, Rooms
    <3> QED
      BY <2>2, <3>1 DEF Life!Next, Life!Seat
  <2> QED
    BY <1>5, <2>1, <2>2 DEF Reserve, MayReserve
<1>6. ASSUME NEW a \in Player, ExpireRoom(a) \/ Leave(a) PROVE [Life!Next]_Life!vars
  BY <1>1, <1>6 DEF ExpireRoom, Leave
<1>7. ASSUME NEW a \in Player, Touch(a) PROVE [Life!Next]_Life!vars
  <2>1. CASE UNCHANGED room
    BY <2>1 DEF Life!vars
  <2> QED
    BY <1>2, <1>7, <2>1 DEF Touch
<1>8. ASSUME NEW g \in Guest, Joined(g) PROVE [Life!Next]_Life!vars
  BY <1>2, <1>8 DEF Joined
<1>9. ASSUME NEW a \in Player, GetRoom(a) \/ Act(a) \/ StartUse(a)
      PROVE  [Life!Next]_Life!vars
  BY <1>9 DEF GetRoom, Act, StartUse, Start, Life!vars
<1>10. ASSUME NEW g \in Guest, StartJoin(g) \/ CreateMatch(g) \/ PruneMatch(g)
       PROVE  [Life!Next]_Life!vars
  BY <1>10 DEF StartJoin, Start, CreateMatch, PruneMatch, Life!vars
<1>11. CASE Crash \/ Tick \/ UNCHANGED vars
  BY <1>11 DEF Crash, Tick, vars, Life!vars
<1> QED
  BY <1>3, <1>4, <1>5, <1>6, <1>7, <1>8, <1>9, <1>10, <1>11
     DEF Next, PlayerStep, GuestStep, CleanUp

\* The row of hosted_rooms implements the life of a room: one direction, one
\* guest, closed once, although every request works on what it has read before.
THEOREM RoomImplementsLife == Spec => OneLife
<1>1. Init => Life!Init
  BY DEF Init, NoRoom, Life!Init
<1>2. IInv /\ [Next]_vars => [Life!Next]_Life!vars
  BY LifeStep
<1> QED
  BY <1>1, <1>2, IInvHolds, PTL DEF Spec, OneLife, Life!Spec
=============================================================================
