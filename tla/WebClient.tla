----------------------------- MODULE WebClient -----------------------------
(***************************************************************************)
(* The browser's side of a hosted match (src/web/src/App.tsx, api.ts) and  *)
(* what it talks to (src/src/loveca/webapp.py).  One page shows a match,   *)
(* sends one action at a time, and watches its room: by a stream that says *)
(* "something changed", by a poll once the stream is gone.  Every answer   *)
(* is a snapshot that was read some time ago; the page lays it over what   *)
(* it shows.  Answers come late, out of order or not at all.               *)
(*                                                                         *)
(* An event is named by its match and its place in the log; revision r of  *)
(* a match has the events 1..r.  Revision 0 is a match not yet dealt.      *)
(***************************************************************************)
EXTENDS Naturals, Sequences

CONSTANTS
    Room, Solo,     \* the match of the online room; a local match
    NoMatch, NoToken,
    User, Slot,     \* wires: the user's own call; refreshes in flight
    Calls,          \* which calls the start screen is used for
    MaxRev          \* bound on the revisions of a match

ASSUME IdAssumption == Room # Solo
ASSUME WireAssumption == User \notin Slot
ASSUME BoundAssumption == Calls \subseteq {"room", "join", "solo", "resume"}
                          /\ MaxRev \in [{Room, Solo} -> Nat \ {0}]

VARIABLES
    status, broken, \* server: the room; its saved match cannot be read
    rev,            \* server: revision of each match
    match,          \* page: what is shown
    session,        \* page: an online session is set
    token, saved,   \* page: matchToken; local matches kept in the browser
    due,            \* page: an effect depends on something just changed
    watch,          \* page: the effect that watches the room
    leaving,        \* page: returnToMatchList is waiting for leaveRoom
    wire,           \* requests in flight
    strayed         \* history: an action went to a match that was not shown

server == <<status, broken, rev>>
page   == <<match, session, token, saved>>
vars   == <<server, page, due, watch, leaving, wire, strayed>>

Match  == {Room, Solo}
Log(m, k) == [i \in 1 .. k |-> <<m, i>>]
Free   == [op |-> "none", at |-> "free", seen |-> NoMatch, online |-> FALSE,
           rev |-> 0, upto |-> 0]
Asking(op) == [Free EXCEPT !.op = op, !.at = "asked"]

Off == [on |-> FALSE, stream |-> FALSE, sent |-> <<"none", 0>>,
        poll |-> FALSE, terminal |-> FALSE]

Init ==
    /\ status = "none" /\ broken = FALSE /\ rev = [m \in Match |-> 0]
    /\ match = NoMatch /\ session = FALSE /\ token = NoToken /\ saved = {}
    /\ due = FALSE /\ watch = Off /\ leaving = FALSE /\ strayed = FALSE
    /\ wire = [w \in Slot \cup {User} |-> Free]

-----------------------------------------------------------------------------
(* The server: the other player, and how requests are answered.            *)

OpponentOpens ==
    /\ status = "none" /\ status' = "waiting"
    /\ UNCHANGED <<broken, rev, page, due, watch, leaving, wire, strayed>>

Joined == /\ status = "waiting" /\ status' = "active"
          /\ rev' = [rev EXCEPT ![Room] = 1]

GuestJoins ==
    /\ Joined
    /\ UNCHANGED <<broken, page, due, watch, leaving, wire, strayed>>

OpponentActs ==
    /\ status = "active" /\ ~broken /\ rev[Room] < MaxRev[Room]
    /\ rev' = [rev EXCEPT ![Room] = @ + 1]
    /\ UNCHANGED <<status, broken, page, due, watch, leaving, wire, strayed>>

(* The opponent leaves or the room's time is up.                           *)
RoomEnds ==
    /\ status \in {"waiting", "active"} /\ status' = "expired"
    /\ UNCHANGED <<broken, rev, page, due, watch, leaving, wire, strayed>>

Breaks ==
    /\ status = "active" /\ ~broken /\ broken' = TRUE
    /\ UNCHANGED <<status, rev, page, due, watch, leaving, wire, strayed>>

(* An action goes to the session's room, whatever is shown, else to the    *)
(* match shown; the room's match is closed to requests without a seat.     *)
Target(c) == IF c.online THEN Room ELSE c.seen.id

(* Mutant: the revision the page acted on is not compared.                 *)
AcceptsAny(c) ==
    /\ c.online => status = "active" /\ ~broken
    /\ ~c.online => c.seen.id = Solo
    /\ rev[Target(c)] \in 1 .. MaxRev[Target(c)] - 1

Accepts(c) ==
    /\ c.online => status = "active" /\ ~broken
    /\ ~c.online => c.seen.id = Solo
    /\ rev[Target(c)] = c.seen.rev /\ c.seen.rev < MaxRev[Target(c)]

Reply(w, at, r, k) ==
    wire' = [wire EXCEPT ![w].at = at, ![w].rev = r, ![w].upto = k]

Owner(c) == IF c.op = "resume" THEN Solo ELSE Room

(* The state is read and, by a call of its own, the list of events.        *)
ReadState(w) ==
    /\ wire[w].at = "asked"
    /\ \/ /\ wire[w].op = "refresh" /\ ~broken
          /\ Reply(w, "read", rev[Room], 0) /\ UNCHANGED server
       \/ /\ wire[w].op = "refresh" /\ broken
          /\ Reply(w, "invalid", 0, 0) /\ UNCHANGED server
       \/ /\ wire[w].op = "resume"
          /\ Reply(w, "read", rev[Solo], 0) /\ UNCHANGED server
       \/ /\ wire[w].op = "join" /\ Joined
          /\ Reply(w, "read", 1, 0) /\ UNCHANGED broken
    /\ UNCHANGED <<page, due, watch, leaving, strayed>>

ReadEvents(w) ==
    /\ wire[w].at = "read"
    /\ Reply(w, "answer", wire[w].rev, rev[Owner(wire[w])])
    /\ UNCHANGED <<server, page, due, watch, leaving, strayed>>

Opens(w) ==
    /\ wire[w].at = "asked"
    /\ \/ /\ wire[w].op = "room" /\ status = "none" /\ status' = "waiting"
          /\ Reply(w, "answer", 0, 0) /\ UNCHANGED rev
       \/ /\ wire[w].op = "solo" /\ rev[Solo] = 0
          /\ rev' = [rev EXCEPT ![Solo] = 1]
          /\ Reply(w, "answer", 1, 1) /\ UNCHANGED status
    /\ UNCHANGED <<broken, page, due, watch, leaving, strayed>>

Applies(w) ==
    /\ wire[w].at = "asked" /\ wire[w].op = "act" /\ Accepts(wire[w])
    /\ LET m == Target(wire[w])
       IN  /\ rev' = [rev EXCEPT ![m] = @ + 1]
           /\ Reply(w, "answer", rev[m] + 1, rev[m] + 1)
           /\ strayed' = (strayed \/ m # wire[w].seen.id)
    /\ UNCHANGED <<status, broken, page, due, watch, leaving>>

(* The server refuses, or the request or its answer is lost; the page      *)
(* shows a message and nothing else.                                       *)
Fails(w) ==
    /\ wire[w].at # "free"
    /\ wire' = [wire EXCEPT ![w] = Free]
    /\ UNCHANGED <<server, page, due, watch, leaving, strayed>>

-----------------------------------------------------------------------------
(* The page: calls of the user.  The buttons are off while one is running. *)

Click(op) ==
    /\ match = NoMatch /\ wire[User].at = "free"
    /\ op = "resume" => Solo \in saved
    /\ wire' = [wire EXCEPT ![User] = Asking(op)]
    /\ UNCHANGED <<server, page, due, watch, leaving, strayed>>

Act ==
    /\ match # NoMatch /\ wire[User].at = "free"
    /\ wire' = [wire EXCEPT ![User] =
                  [Asking("act") EXCEPT !.seen = match, !.online = session]]
    /\ UNCHANGED <<server, page, due, watch, leaving, strayed>>

Showing(id, r, events) == [id |-> id, rev |-> r, events |-> events]

(* Mutant: the match is kept whether or not it was an online one.          *)
KeptAlways(m, online) == IF token = NoToken THEN saved ELSE saved \cup {m.id}

(* saveLocalMatchSession, for what was not sent to a room.                 *)
Kept(m, online) ==
    IF online \/ token = NoToken THEN saved ELSE saved \cup {m.id}

EnterRoom ==
    /\ wire[User].at = "answer" /\ wire[User].op \in {"room", "join"}
    /\ session' = TRUE /\ due' = TRUE /\ token' = NoToken
    /\ match' = IF wire[User].rev = 0 THEN match
                ELSE Showing(Room, wire[User].rev, Log(Room, wire[User].upto))
    /\ UNCHANGED saved

EnterSolo ==
    /\ wire[User].at = "answer" /\ wire[User].op \in {"solo", "resume"}
    /\ token' = Solo /\ saved' = saved \cup {Solo}
    /\ match' = Showing(Solo, wire[User].rev, Log(Solo, wire[User].upto))
    /\ UNCHANGED <<session, due>>

(* The new events are added to those shown when the button was pressed,    *)
(* whatever has been shown since.                                          *)
Acted ==
    /\ wire[User].at = "answer" /\ wire[User].op = "act"
    /\ LET c == wire[User]
           m == Target(c)
           next == Showing(m, c.rev, Append(c.seen.events, <<m, c.upto>>))
       IN  match' = next /\ saved' = Kept(next, c.online)
    /\ UNCHANGED <<session, token, due>>

Receive ==
    /\ EnterRoom \/ EnterSolo \/ Acted
    /\ wire' = [wire EXCEPT ![User] = Free]
    /\ UNCHANGED <<server, watch, leaving, strayed>>

(* returnToMatchList: its button is never off, and the page is cleared    *)
(* whether leaveRoom reached the server or failed.                         *)
Leave ==
    /\ match # NoMatch /\ ~leaving /\ leaving' = TRUE
    /\ UNCHANGED <<server, page, due, watch, wire, strayed>>

LeaveDone ==
    /\ leaving /\ leaving' = FALSE
    /\ status' \in {status} \cup (IF session THEN {"expired"} ELSE {})
    /\ match' = NoMatch /\ session' = FALSE /\ token' = NoToken
    /\ due' = (due \/ session)
    /\ UNCHANGED <<broken, rev, saved, watch, wire, strayed>>

(* The page is closed or reloaded: only what the browser keeps remains.    *)
Unload ==
    /\ session \/ match # NoMatch
    /\ status' \in {status} \cup (IF session THEN {"expired"} ELSE {})
    /\ match' = NoMatch /\ session' = FALSE /\ token' = NoToken
    /\ due' = FALSE /\ watch' = Off /\ leaving' = FALSE
    /\ wire' = [w \in Slot \cup {User} |-> Free]
    /\ strayed' = FALSE
    /\ UNCHANGED <<broken, rev, saved>>

-----------------------------------------------------------------------------
(* The page: the effect that watches the room.                             *)

Idle(s) == wire[s].at = "free"

SwitchLocale ==
    /\ due' = TRUE
    /\ UNCHANGED <<server, page, watch, leaving, wire, strayed>>

(* React runs the old effect's cleanup and the new effect: answers to the  *)
(* old one are dropped, a first refresh is sent, and a stream is opened    *)
(* or, where it cannot be, the poll is started.                            *)
Commit ==
    /\ due /\ due' = FALSE
    /\ IF session
       THEN \E s \in Slot, opens \in BOOLEAN :
              /\ watch' = [Off EXCEPT !.on = TRUE, !.stream = opens, !.poll = ~opens]
              /\ wire' = [w \in Slot \cup {User} |->
                            IF w = User THEN wire[w]
                            ELSE IF w = s THEN Asking("refresh") ELSE Free]
       ELSE /\ watch' = Off
            /\ wire' = [w \in Slot \cup {User} |-> IF w = User THEN wire[w] ELSE Free]
    /\ UNCHANGED <<server, page, leaving, strayed>>

Signature == <<status, rev[Room]>>

(* The stream speaks only when what it would say has changed.              *)
StreamUpdate(s) ==
    /\ watch.stream /\ Idle(s) /\ ~broken /\ watch.sent # Signature
    /\ watch' = [watch EXCEPT !.sent = Signature]
    /\ wire' = [wire EXCEPT ![s] = Asking("refresh")]
    /\ UNCHANGED <<server, page, due, leaving, strayed>>

(* stopForInvalidSnapshot                                                  *)
Stopped == [Off EXCEPT !.on = TRUE, !.terminal = TRUE]

StreamInvalid ==
    /\ watch.stream /\ broken /\ watch' = Stopped
    /\ UNCHANGED <<server, page, due, leaving, wire, strayed>>

(* Mutant: the stream's place is not taken by the poll.                    *)
CutOff == [Off EXCEPT !.on = TRUE]

(* startFallbackPolling, after the stream is closed                        *)
FallBack == [Off EXCEPT !.on = TRUE, !.poll = TRUE]

(* onerror, or a room_error that may pass                                  *)
StreamFails ==
    /\ watch.stream /\ watch' = FallBack
    /\ UNCHANGED <<server, page, due, leaving, wire, strayed>>

PollTick(s) ==
    /\ watch.poll /\ Idle(s)
    /\ wire' = [wire EXCEPT ![s] = Asking("refresh")]
    /\ UNCHANGED <<server, page, due, watch, leaving, strayed>>

mergeEvents(existing, incoming) ==
    IF Len(incoming) <= Len(existing) THEN existing
    ELSE existing \o SubSeq(incoming, Len(existing) + 1, Len(incoming))

(* Mutant: an answer whose list of events is no longer is ignored whole.   *)
RefreshedIfLonger(c) ==
    IF \/ c.rev = 0
       \/ match # NoMatch /\ match.id = Room /\ Len(match.events) >= c.upto
    THEN match ELSE Showing(Room, c.rev, Log(Room, c.upto))

Refreshed(c) ==
    LET incoming == Log(Room, c.upto)
    IN  IF c.rev = 0 THEN match
        ELSE Showing(Room, c.rev,
               IF match # NoMatch /\ match.id = Room
               THEN mergeEvents(match.events, incoming) ELSE incoming)

Deliver(s) ==
    /\ wire[s].at \in {"answer", "invalid"}
    /\ LET c == wire[s]
       IN  /\ match' = IF c.at = "answer" /\ ~watch.terminal THEN Refreshed(c) ELSE match
           /\ watch' = IF c.at = "invalid" THEN Stopped ELSE watch
    /\ wire' = [wire EXCEPT ![s] = Free]
    /\ UNCHANGED <<server, session, token, saved, due, leaving, strayed>>

-----------------------------------------------------------------------------
Others == OpponentOpens \/ GuestJoins \/ OpponentActs \/ RoomEnds \/ Breaks

Server(w) == ReadState(w) \/ ReadEvents(w) \/ Opens(w) \/ Applies(w) \/ Fails(w)

Person == \/ \E op \in Calls : Click(op)
          \/ Act \/ Receive \/ Leave \/ LeaveDone
          \/ Unload \/ SwitchLocale

Effect == \/ Commit \/ StreamInvalid \/ StreamFails
          \/ \E s \in Slot : StreamUpdate(s) \/ PollTick(s) \/ Deliver(s)

Next == Others \/ Person \/ Effect \/ \E w \in Slot \cup {User} : Server(w)

Spec == Init /\ [][Next]_vars

(* The interval fires, an answer that came is handled, and the network     *)
(* does not lose every request.                                            *)
Fairness ==
    /\ WF_vars(Commit)
    /\ \A s \in Slot :
         /\ WF_vars(PollTick(s)) /\ SF_vars(Deliver(s))
         /\ SF_vars(ReadState(s)) /\ SF_vars(ReadEvents(s))

FairSpec == Spec /\ Fairness

-----------------------------------------------------------------------------
(* The list of events on the page is the server's list up to some moment   *)
(* no older than the state shown: none missing, repeated or out of order,  *)
(* though snapshots arrive late and an action's events are added to what   *)
(* was shown before it (mergeEvents, handleAction).  It does not hold once *)
(* an action made on a local match was sent to the room (strayed).         *)
EventsFaithful ==
    match # NoMatch /\ ~strayed =>
      \E k \in match.rev .. rev[match.id] : match.events = Log(match.id, k)

(* A room is watched one way at a time, by stream or by poll, and not at   *)
(* all once its match is found unreadable or the session is gone: no watch *)
(* is left without either, and no poll or stream survives its effect.      *)
OneWatcher ==
    /\ watch.on /\ ~watch.terminal => (watch.stream # watch.poll)
    /\ ~watch.on \/ watch.terminal => ~watch.stream /\ ~watch.poll
    /\ ~due => watch.on = session
    /\ watch.on \/ \A s \in Slot : Idle(s)

(* A match played in a room, to which the browser has no token of its own, *)
(* never enters the list of local matches it offers to resume.             *)
RoomNotKept == saved \subseteq {Solo}

(* Once the page has fallen back to polling for good, it comes to show the *)
(* latest revision and keeps showing it, whatever the order of answers.    *)
Polling == session /\ ~due /\ watch.poll
Latest == rev[Room] > 0 => match # NoMatch /\ match.id = Room /\ match.rev = rev[Room]
PollingRecovers == <>[]Polling => <>[]Latest
=============================================================================
