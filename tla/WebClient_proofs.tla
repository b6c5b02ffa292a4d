--------------------------- MODULE WebClient_proofs ---------------------------
(***************************************************************************)
(* Theorems about WebClient, for any number of refreshes in flight, any    *)
(* choice of calls and any bound on the revisions.                         *)
(***************************************************************************)
EXTENDS WebClient, SequenceTheorems, TLAPS

Status == {"none", "waiting", "active", "expired"}
Shown  == [id : Match, rev : Nat, events : Seq(Match \X Nat)]
Wire   == [op : {"none", "room", "join", "solo", "resume", "act", "refresh"},
           at : {"free", "asked", "read", "answer", "invalid"},
           seen : {NoMatch} \cup Shown, online : BOOLEAN, rev : Nat, upto : Nat]
Watch  == [on : BOOLEAN, stream : BOOLEAN, sent : Status \X Nat,
           poll : BOOLEAN, terminal : BOOLEAN]

TypeOK ==
    /\ status \in Status /\ broken \in BOOLEAN /\ rev \in [Match -> Nat]
    /\ match \in {NoMatch} \cup Shown /\ session \in BOOLEAN
    /\ token \in {NoToken, Solo} /\ saved \subseteq Match
    /\ due \in BOOLEAN /\ leaving \in BOOLEAN /\ strayed \in BOOLEAN
    /\ watch \in Watch /\ wire \in [Slot \cup {User} -> Wire]

\* The slots carry refreshes and nothing else; an action carries the match it
\* was made on and is answered in one step.
Purposes ==
    /\ \A s \in Slot : wire[s].at # "free" => wire[s].op = "refresh"
    /\ wire[User].op # "refresh"
    /\ wire[User].op = "act" =>
          wire[User].seen \in Shown /\ wire[User].at \in {"free", "asked", "answer"}

\* A match is dealt when the guest joins: no revision is ever taken back.
Undealt == status \in {"none", "waiting"} => rev[Room] = 0

\* The list of events on its way to the page was read after the state it
\* comes with, and both are some moment of the match.
Subject(c) == IF c.op \in {"solo", "resume"} THEN Solo ELSE Room

Sound(c) ==
    c.op # "act" =>
      /\ c.at = "read" => c.rev <= rev[Subject(c)] /\ c.op # "solo"
      /\ c.at = "answer" => c.rev <= c.upto /\ c.upto <= rev[Subject(c)]

\* The events es are the log of a match up to a revision from r on.
UpTo(id, r, es) == \E k \in r .. rev[id] : es = Log(id, k)

\* An action is accepted on the last revision only: its event follows those
\* that were shown when the button was pressed.
Acting(c) ==
    c.op = "act" =>
      /\ c.at = "asked" /\ ~strayed => UpTo(c.seen.id, c.seen.rev, c.seen.events)
      /\ c.at = "answer" =>
          /\ ~c.online => c.seen.id = Solo
          /\ ~strayed =>
               /\ Target(c) = c.seen.id /\ c.rev = c.upto
               /\ c.rev # 0 /\ c.upto <= rev[c.seen.id]
               /\ c.seen.events = Log(c.seen.id, c.upto - 1)

IInv == /\ TypeOK /\ Purposes /\ Undealt
        /\ \A w \in Slot \cup {User} : Sound(wire[w])
        /\ Acting(wire[User])
        /\ EventsFaithful /\ OneWatcher /\ RoomNotKept

-----------------------------------------------------------------------------
(* The operators.                                                          *)

LEMMA LogType ==
  ASSUME NEW m \in Match, NEW k \in Nat
  PROVE  Log(m, k) \in Seq(Match \X Nat) /\ Len(Log(m, k)) = k
BY DEF Log

LEMMA LogNext ==
  ASSUME NEW m \in Match, NEW k \in Nat \ {0}
  PROVE  Append(Log(m, k - 1), <<m, k>>) = Log(m, k)
<1> DEFINE a == Append(Log(m, k - 1), <<m, k>>)
<1>1. /\ Log(m, k - 1) \in Seq(Match \X Nat) /\ Len(Log(m, k - 1)) = k - 1
      /\ Log(m, k) \in Seq(Match \X Nat) /\ Len(Log(m, k)) = k
  <2>1. k - 1 \in Nat /\ k \in Nat
    OBVIOUS
  <2> QED
    BY <2>1, LogType
<1>2. a \in Seq(Match \X Nat) /\ Len(a) = k
  BY <1>1
<1>3. \A i \in 1 .. k : a[i] = <<m, i>>
  BY <1>1 DEF Log
<1>4. \A i \in 1 .. k : Log(m, k)[i] = <<m, i>>
  BY DEF Log
<1> QED
  BY <1>1, <1>2, <1>3, <1>4, SeqEqual

LEMMA ConcatAt ==
  ASSUME NEW S, NEW a \in Seq(S), NEW b \in Seq(S)
  PROVE  /\ a \o b \in Seq(S) /\ Len(a \o b) = Len(a) + Len(b)
         /\ \A i \in 1 .. Len(a) + Len(b) :
              /\ i <= Len(a) => (a \o b)[i] = a[i]
              /\ i > Len(a) => (a \o b)[i] = b[i - Len(a)]
OBVIOUS

\* A list that goes on where a log ends.
LEMMA LogGoesOn ==
  ASSUME NEW m \in Match, NEW j \in Nat, NEW k \in Nat, j <= k,
         NEW b \in Seq(Match \X Nat), Len(b) = k - j,
         \A i \in 1 .. k - j : b[i] = <<m, i + j>>
  PROVE  Log(m, j) \o b = Log(m, k)
<1>1. /\ Log(m, j) \in Seq(Match \X Nat) /\ Len(Log(m, j)) = j
      /\ Log(m, k) \in Seq(Match \X Nat) /\ Len(Log(m, k)) = k
  BY LogType
<1>2. /\ \A i \in 1 .. j : Log(m, j)[i] = <<m, i>>
      /\ \A i \in 1 .. k : Log(m, k)[i] = <<m, i>>
  BY DEF Log
<1>3. PICK a \in Seq(Match \X Nat) : a = Log(m, j)
  BY <1>1
<1>4. PICK c \in Seq(Match \X Nat) : c = a \o b
  BY ConcatAt
<1>5. Len(c) = k
  <2>1. Len(a) = j /\ Len(c) = Len(a) + Len(b)
    BY <1>1, <1>3, <1>4, ConcatAt
  <2> QED
    BY <2>1
<1>6. ASSUME NEW i \in 1 .. k PROVE c[i] = <<m, i>>
  <2>1. /\ i <= j => c[i] = a[i]
        /\ i > j => c[i] = b[i - j]
    <3>1. i \in 1 .. Len(a) + Len(b) /\ Len(a) = j
      BY <1>1, <1>3
    <3> QED
      BY <1>4, <3>1, ConcatAt
  <2>2. CASE i <= j
    BY <1>2, <1>3, <2>1, <2>2
  <2>3. CASE i > j
    <3>1. i - j \in 1 .. k - j /\ (i - j) + j = i
      BY <2>3
    <3> QED
      BY <2>1, <2>3, <3>1
  <2> QED
    BY <2>2, <2>3
<1>7. PICK d \in Seq(Match \X Nat) : d = Log(m, k)
  BY <1>1
<1>8. Len(d) = Len(c) /\ \A i \in 1 .. Len(c) : c[i] = d[i]
  BY <1>1, <1>2, <1>5, <1>6, <1>7
<1>9. c = d
  BY <1>8, SeqEqual
<1> QED
  BY <1>3, <1>4, <1>7, <1>9

LEMMA MergeType ==
  ASSUME NEW S, NEW a \in Seq(S), NEW b \in Seq(S)
  PROVE  mergeEvents(a, b) \in Seq(S)
<1>1. CASE Len(b) <= Len(a)
  BY <1>1 DEF mergeEvents
<1>2. CASE Len(b) > Len(a)
  <2>1. Len(a) + 1 \in 1 .. Len(b)
    BY <1>2
  <2>2. SubSeq(b, Len(a) + 1, Len(b)) \in Seq(S)
    BY <2>1, SubSeqProperties
  <2> QED
    BY <1>2, <2>2 DEF mergeEvents
<1> QED
  BY <1>1, <1>2

\* Merging two logs of a match gives the longer one.
LEMMA MergeLogs ==
  ASSUME NEW m \in Match, NEW j \in Nat, NEW k \in Nat
  PROVE  mergeEvents(Log(m, j), Log(m, k)) = Log(m, IF k <= j THEN j ELSE k)
<1>1. /\ Log(m, j) \in Seq(Match \X Nat) /\ Len(Log(m, j)) = j
      /\ Log(m, k) \in Seq(Match \X Nat) /\ Len(Log(m, k)) = k
  BY LogType
<1>2. CASE k <= j
  BY <1>1, <1>2 DEF mergeEvents
<1>3. CASE j < k
  <2> DEFINE s == SubSeq(Log(m, k), j + 1, k)
  <2>1. s \in Seq(Match \X Nat) /\ Len(s) = k - j
    BY <1>1, <1>3, SubSeqProperties
  <2>2. \A i \in 1 .. k - j : s[i] = <<m, i + j>>
    <3>1. SUFFICES ASSUME NEW i \in 1 .. k - j PROVE s[i] = <<m, i + j>>
      OBVIOUS
    <3>2. s[i] = Log(m, k)[j + 1 + i - 1]
      BY <1>1, <1>3, <2>1, SubSeqProperties
    <3>3. j + 1 + i - 1 = i + j /\ i + j \in 1 .. k
      BY <1>3
    <3> QED
      BY <3>2, <3>3 DEF Log
  <2> HIDE DEF s
  <2>3. Log(m, j) \o s = Log(m, k)
    <3>1. PICK b \in Seq(Match \X Nat) : b = s
      BY <2>1
    <3>2. /\ Len(b) = k - j /\ j <= k
          /\ \A i \in 1 .. k - j : b[i] = <<m, i + j>>
      BY <1>3, <2>1, <2>2, <3>1
    <3>3. Log(m, j) \o b = Log(m, k)
      BY <3>2, LogGoesOn
    <3> QED
      BY <3>1, <3>3
  <2> QED
    BY <1>1, <1>3, <2>3 DEF mergeEvents, s
<1> QED
  BY <1>2, <1>3

-----------------------------------------------------------------------------
(* What a step leaves as it was.                                           *)

Grows == \A m \in Match : rev[m] <= rev'[m]

LEMMA Matches == Room \in Match /\ Solo \in Match /\ Room # Solo
BY IdAssumption DEF Match

LEMMA UserIsNoSlot == User \notin Slot
BY WireAssumption

LEMMA WireType ==
  ASSUME TypeOK, NEW w \in Slot \cup {User}
  PROVE  /\ wire[w] \in Wire /\ wire[w].online \in BOOLEAN
         /\ wire[w].rev \in Nat /\ wire[w].upto \in Nat
         /\ Subject(wire[w]) \in Match
         /\ rev[Subject(wire[w])] \in Nat
<1>1. wire[w] \in Wire /\ Subject(wire[w]) \in Match
  BY Matches DEF TypeOK, Subject
<1> QED
  BY <1>1 DEF TypeOK, Wire

\* What was true of a request in flight stays true while revisions grow.
LEMMA SoundStays ==
  ASSUME TypeOK, TypeOK', Grows, NEW w \in Slot \cup {User}, Sound(wire[w]),
         wire'[w] = wire[w] \/ wire'[w].at \in {"free", "asked", "invalid"}
  PROVE  Sound(wire[w])'
<1>1. CASE wire'[w].at \in {"free", "asked", "invalid"}
  BY <1>1 DEF Sound
<1>2. CASE wire'[w] = wire[w]
  <2>1. /\ wire[w].rev \in Nat /\ wire[w].upto \in Nat
        /\ Subject(wire[w]) \in Match /\ rev[Subject(wire[w])] \in Nat
    BY WireType
  <2>2. rev'[Subject(wire[w])] \in Nat
    BY <2>1 DEF TypeOK
  <2>3. rev[Subject(wire[w])] <= rev'[Subject(wire[w])]
    BY <2>1 DEF Grows
  <2>4. Subject(wire'[w]) = Subject(wire[w])
    BY <1>2 DEF Subject
  <2> QED
    BY <1>2, <2>1, <2>2, <2>3, <2>4 DEF Sound
<1> QED
  BY <1>1, <1>2

LEMMA UpToGrows ==
  ASSUME TypeOK, TypeOK', Grows, NEW id \in Match, NEW r \in Nat, NEW es, UpTo(id, r, es)
  PROVE  UpTo(id, r, es)'
<1>1. PICK k \in r .. rev[id] : es = Log(id, k)
  BY DEF UpTo
<1>2. rev[id] \in Nat /\ rev'[id] \in Nat /\ rev[id] <= rev'[id]
  BY DEF TypeOK, Grows
<1>3. k \in r .. rev'[id]
  BY <1>2
<1> QED
  BY <1>1, <1>3 DEF UpTo

LEMMA ActingStays ==
  ASSUME TypeOK, TypeOK', Purposes, Grows, Acting(wire[User]), strayed => strayed',
         wire'[User] = wire[User]
  PROVE  Acting(wire[User])'
<1> SUFFICES ASSUME wire[User].op = "act"
             PROVE  Acting(wire[User])'
  BY DEF Acting
<1>1. /\ wire[User].seen \in Shown /\ wire[User].upto \in Nat
  BY WireType DEF Purposes
<1>2. /\ wire[User].seen.id \in Match /\ wire[User].seen.rev \in Nat
  BY <1>1 DEF Shown
<1> DEFINE id == wire[User].seen.id
<1>3. rev[id] \in Nat /\ rev'[id] \in Nat /\ rev[id] <= rev'[id]
  BY <1>2 DEF TypeOK, Grows
<1>4. UpTo(id, wire[User].seen.rev, wire[User].seen.events)
        => UpTo(id, wire[User].seen.rev, wire[User].seen.events)'
  BY <1>2, UpToGrows
<1> HIDE DEF id
<1> QED
  BY <1>1, <1>3, <1>4 DEF Acting, Target, id

LEMMA FreeActing ==
  ASSUME wire'[User].op # "act" \/ wire'[User].at \notin {"asked", "answer"}
  PROVE  Acting(wire[User])'
BY DEF Acting

LEMMA FaithfulStays ==
  ASSUME TypeOK, TypeOK', Grows, EventsFaithful, strayed => strayed',
         match' \in {match, NoMatch}
  PROVE  EventsFaithful'
<1> SUFFICES ASSUME match' # NoMatch, ~strayed'
             PROVE  UpTo(match.id, match.rev, match.events)'
  BY DEF EventsFaithful, UpTo
<1>1. match.id \in Match /\ match.rev \in Nat
  BY DEF TypeOK, Shown
<1>2. UpTo(match.id, match.rev, match.events)
  BY DEF EventsFaithful, UpTo
<1> QED
  BY <1>1, <1>2, UpToGrows

\* A step that takes no revision back and no answer to the page.
LEMMA Calm ==
  ASSUME IInv, TypeOK', Purposes', Undealt', Grows,
         \A w \in Slot \cup {User} :
            wire'[w] = wire[w] \/ wire'[w].at \in {"free", "asked", "invalid"},
         wire'[User] = wire[User] \/ wire'[User].op # "act" \/ wire'[User].at = "free",
         strayed => strayed',
         match' \in {match, NoMatch}, saved' = saved, OneWatcher'
  PROVE  IInv'
<1>1. \A w \in Slot \cup {User} : Sound(wire[w])'
  BY SoundStays DEF IInv
<1>2. Acting(wire[User])'
  BY ActingStays, FreeActing DEF IInv
<1>3. EventsFaithful'
  BY FaithfulStays DEF IInv
<1> QED
  BY <1>1, <1>2, <1>3 DEF IInv, RoomNotKept

-----------------------------------------------------------------------------
(* The wires.                                                              *)

LEMMA FreeType == Free \in Wire
BY DEF Free, Wire

LEMMA AskingType ==
  ASSUME NEW op \in {"none", "room", "join", "solo", "resume", "act", "refresh"}
  PROVE  /\ Asking(op) \in Wire /\ Asking(op).op = op /\ Asking(op).at = "asked"
BY DEF Asking, Free, Wire

\* A wire that is given a new request, or freed.
LEMMA SetWire ==
  ASSUME TypeOK, NEW w \in Slot \cup {User}, NEW c \in Wire,
         wire' = [wire EXCEPT ![w] = c]
  PROVE  /\ wire' \in [Slot \cup {User} -> Wire] /\ wire'[w] = c
         /\ \A x \in Slot \cup {User} : x # w => wire'[x] = wire[x]
BY DEF TypeOK

LEMMA ReplyWire ==
  ASSUME TypeOK, NEW w \in Slot \cup {User}, NEW r \in Nat, NEW k \in Nat,
         NEW at \in {"free", "asked", "read", "answer", "invalid"}, Reply(w, at, r, k)
  PROVE  /\ wire' \in [Slot \cup {User} -> Wire]
         /\ wire'[w].op = wire[w].op /\ wire'[w].at = at
         /\ wire'[w].seen = wire[w].seen /\ wire'[w].online = wire[w].online
         /\ wire'[w].rev = r /\ wire'[w].upto = k
         /\ \A x \in Slot \cup {User} : x # w => wire'[x] = wire[x]
<1> DEFINE c == [wire[w] EXCEPT !.at = at, !.rev = r, !.upto = k]
<1>1. wire[w] \in Wire
  BY DEF TypeOK
<1>2. /\ c \in Wire /\ c.op = wire[w].op /\ c.at = at /\ c.seen = wire[w].seen
      /\ c.online = wire[w].online /\ c.rev = r /\ c.upto = k
  BY <1>1 DEF Wire
<1>3. wire' = [wire EXCEPT ![w] = c]
  BY DEF Reply, TypeOK
<1> HIDE DEF c
<1> QED
  BY <1>2, <1>3, SetWire

-----------------------------------------------------------------------------
(* The other player and the room.                                          *)

LEMMA OthersStep ==
  ASSUME IInv, Others
  PROVE  IInv'
<1> USE Matches
<1>1. /\ wire' = wire /\ strayed' = strayed /\ match' = match /\ saved' = saved
      /\ session' = session /\ token' = token /\ due' = due /\ watch' = watch
      /\ leaving' = leaving
  BY DEF Others, OpponentOpens, GuestJoins, OpponentActs, RoomEnds, Breaks, page
<1>2. /\ rev' \in [Match -> Nat] /\ Grows /\ Undealt'
      /\ status' \in Status /\ broken' \in BOOLEAN
  <2> USE DEF IInv, TypeOK, Undealt, Grows, Status
  <2>1. CASE OpponentOpens
    BY <2>1 DEF OpponentOpens
  <2>2. CASE GuestJoins
    BY <2>2 DEF GuestJoins, Joined
  <2>3. CASE OpponentActs
    BY <2>3 DEF OpponentActs
  <2>4. CASE RoomEnds
    BY <2>4 DEF RoomEnds
  <2>5. CASE Breaks
    BY <2>5 DEF Breaks
  <2> QED
    BY <2>1, <2>2, <2>3, <2>4, <2>5 DEF Others
<1>3. TypeOK'
  BY <1>1, <1>2 DEF IInv, TypeOK
<1>4. Purposes' /\ OneWatcher'
  BY <1>1 DEF IInv, Purposes, OneWatcher, Idle
<1> QED
  BY <1>1, <1>2, <1>3, <1>4, Calm

-----------------------------------------------------------------------------
(* The server's answers.                                                   *)

\* A step that answers one request, w.
LEMMA OneReply ==
  ASSUME IInv, TypeOK', Purposes', Undealt', Grows, NEW w \in Slot \cup {User},
         \A x \in Slot \cup {User} : x # w => wire'[x] = wire[x],
         Sound(wire[w])', w = User => Acting(wire[User])',
         strayed => strayed', match' = match, saved' = saved, OneWatcher'
  PROVE  IInv'
<1>1. \A x \in Slot \cup {User} : Sound(wire[x])'
  BY SoundStays DEF IInv
<1>2. Acting(wire[User])'
  BY ActingStays DEF IInv
<1>3. EventsFaithful'
  BY FaithfulStays DEF IInv
<1> QED
  BY <1>1, <1>2, <1>3 DEF IInv, RoomNotKept

LEMMA ReadStateStep ==
  ASSUME IInv, NEW w \in Slot \cup {User}, ReadState(w)
  PROVE  IInv'
<1> USE Matches
<1>1. /\ strayed' = strayed /\ match' = match /\ saved' = saved
      /\ session' = session /\ token' = token /\ due' = due /\ watch' = watch
      /\ leaving' = leaving /\ wire[w].at = "asked" /\ broken' = broken
      /\ wire[w].op \in {"refresh", "resume", "join"}
  BY DEF ReadState, page, server
<1>2. /\ rev' \in [Match -> Nat] /\ Grows /\ Undealt' /\ status' \in Status
  <2>1. CASE Joined
    BY <2>1 DEF IInv, TypeOK, Undealt, Grows, Status, Joined
  <2>2. CASE UNCHANGED server
    BY <2>2 DEF IInv, TypeOK, Undealt, Grows, Status, server
  <2> QED
    BY <2>1, <2>2 DEF ReadState
<1>3. \E at \in {"read", "invalid"}, r \in Nat :
         Reply(w, at, r, 0) /\ (at = "read" => r <= rev'[Subject(wire[w])])
  BY <1>1 DEF IInv, TypeOK, ReadState, Joined, Subject, server
<1>4. PICK at \in {"read", "invalid"}, r \in Nat :
         Reply(w, at, r, 0) /\ (at = "read" => r <= rev'[Subject(wire[w])])
  BY <1>3
<1>5. /\ wire' \in [Slot \cup {User} -> Wire]
      /\ wire'[w].op = wire[w].op /\ wire'[w].at = at
      /\ wire'[w].seen = wire[w].seen
      /\ wire'[w].rev = r
      /\ \A x \in Slot \cup {User} : x # w => wire'[x] = wire[x]
  BY <1>4, ReplyWire DEF IInv
<1>6. TypeOK'
  BY <1>1, <1>2, <1>5 DEF IInv, TypeOK
<1>7. Purposes'
  BY <1>1, <1>5, UserIsNoSlot DEF IInv, Purposes
<1>8. OneWatcher'
  BY <1>1, <1>5 DEF IInv, OneWatcher, Idle
<1>9. Sound(wire[w])'
  BY <1>1, <1>4, <1>5 DEF Sound, Subject
<1>10. w = User => Acting(wire[User])'
  BY <1>1, <1>5, FreeActing
<1> QED
  BY <1>1, <1>2, <1>5, <1>6, <1>7, <1>8, <1>9, <1>10, OneReply

LEMMA OwnerIsSubject ==
  ASSUME NEW c, c.op # "solo"
  PROVE  Owner(c) = Subject(c)
BY DEF Owner, Subject

LEMMA ReadEventsStep ==
  ASSUME IInv, NEW w \in Slot \cup {User}, ReadEvents(w)
  PROVE  IInv'
<1> USE Matches
<1>1. /\ strayed' = strayed /\ match' = match /\ saved' = saved
      /\ session' = session /\ token' = token /\ due' = due /\ watch' = watch
      /\ leaving' = leaving /\ wire[w].at = "read" /\ broken' = broken
      /\ rev' = rev /\ status' = status
  BY DEF ReadEvents, page, server
<1>2. Grows /\ Undealt'
  BY <1>1 DEF IInv, TypeOK, Undealt, Grows
<1>3. wire[w].op # "act"
  BY <1>1, UserIsNoSlot DEF IInv, Purposes
<1>4. /\ wire[w].rev \in Nat /\ Subject(wire[w]) \in Match
      /\ rev[Subject(wire[w])] \in Nat
      /\ wire[w].rev <= rev[Subject(wire[w])] /\ wire[w].op # "solo"
  BY <1>1, <1>3, WireType DEF IInv, Sound
<1> DEFINE k == rev[Subject(wire[w])]
<1>5. Reply(w, "answer", wire[w].rev, k)
  BY <1>4, OwnerIsSubject DEF ReadEvents
<1>6. /\ wire' \in [Slot \cup {User} -> Wire]
      /\ wire'[w].op = wire[w].op /\ wire'[w].at = "answer"
      /\ wire'[w].seen = wire[w].seen
      /\ wire'[w].rev = wire[w].rev /\ wire'[w].upto = k
      /\ \A x \in Slot \cup {User} : x # w => wire'[x] = wire[x]
  BY <1>4, <1>5, ReplyWire DEF IInv
<1>7. TypeOK'
  BY <1>1, <1>6 DEF IInv, TypeOK
<1>8. Purposes'
  BY <1>1, <1>3, <1>6, UserIsNoSlot DEF IInv, Purposes
<1>9. OneWatcher'
  BY <1>1, <1>6 DEF IInv, OneWatcher, Idle
<1>10. Sound(wire[w])'
  <2>1. Subject(wire'[w]) = Subject(wire[w])
    BY <1>6 DEF Subject
  <2> QED
    BY <1>1, <1>4, <1>6, <2>1 DEF Sound
<1>11. w = User => Acting(wire[User])'
  BY <1>3, <1>6, FreeActing
<1> QED
  BY <1>1, <1>2, <1>6, <1>7, <1>8, <1>9, <1>10, <1>11, OneReply

LEMMA OpensStep ==
  ASSUME IInv, NEW w \in Slot \cup {User}, Opens(w)
  PROVE  IInv'
<1> USE Matches
<1>1. /\ strayed' = strayed /\ match' = match /\ saved' = saved
      /\ session' = session /\ token' = token /\ due' = due /\ watch' = watch
      /\ leaving' = leaving /\ wire[w].at = "asked" /\ broken' = broken
      /\ wire[w].op \in {"room", "solo"}
  BY DEF Opens, page
<1>2. /\ rev' \in [Match -> Nat] /\ Grows /\ Undealt' /\ status' \in Status
  BY DEF Opens, IInv, TypeOK, Undealt, Grows, Status
<1>3. \E r \in {0, 1} : Reply(w, "answer", r, r) /\ r <= rev'[Subject(wire[w])]
  BY <1>2 DEF IInv, TypeOK, Opens, Subject
<1>4. PICK r \in Nat : Reply(w, "answer", r, r) /\ r <= rev'[Subject(wire[w])]
  BY <1>3
<1>5. /\ wire' \in [Slot \cup {User} -> Wire]
      /\ wire'[w].op = wire[w].op /\ wire'[w].at = "answer"
      /\ wire'[w].seen = wire[w].seen
      /\ wire'[w].rev = r /\ wire'[w].upto = r
      /\ \A x \in Slot \cup {User} : x # w => wire'[x] = wire[x]
  BY <1>4, ReplyWire DEF IInv
<1>6. TypeOK'
  BY <1>1, <1>2, <1>5 DEF IInv, TypeOK
<1>7. Purposes'
  BY <1>1, <1>5, UserIsNoSlot DEF IInv, Purposes
<1>8. OneWatcher'
  BY <1>1, <1>5 DEF IInv, OneWatcher, Idle
<1>9. Sound(wire[w])'
  BY <1>1, <1>4, <1>5 DEF Sound, Subject
<1>10. w = User => Acting(wire[User])'
  BY <1>1, <1>5, FreeActing
<1> QED
  BY <1>1, <1>2, <1>5, <1>6, <1>7, <1>8, <1>9, <1>10, OneReply

\* The action is applied: the revision it was made on is the last one, so its
\* event is the next of the log.
LEMMA AppliesStep ==
  ASSUME IInv, NEW w \in Slot \cup {User}, Applies(w)
  PROVE  IInv'
<1> USE Matches
<1>1. w = User
  BY UserIsNoSlot DEF Applies, IInv, Purposes
<1> DEFINE c == wire[User]
           m == Target(c)
<1>2. /\ match' = match /\ saved' = saved
      /\ session' = session /\ token' = token /\ due' = due /\ watch' = watch
      /\ leaving' = leaving /\ broken' = broken /\ status' = status
      /\ c.at = "asked" /\ c.op = "act" /\ Accepts(c)
      /\ rev' = [rev EXCEPT ![m] = @ + 1]
      /\ Reply(User, "answer", rev[m] + 1, rev[m] + 1)
      /\ strayed' = (strayed \/ m # c.seen.id)
  BY <1>1 DEF Applies, page
<1>3. c.seen \in Shown /\ c.seen.id \in Match /\ c.seen.rev \in Nat
  BY <1>2 DEF IInv, Purposes, Shown
<1>4. m \in Match /\ rev[m] \in Nat /\ rev[m] = c.seen.rev
  BY <1>2, <1>3 DEF Accepts, Target, IInv, TypeOK
<1>5. m = Room => status = "active"
  BY <1>2 DEF Accepts, Target
<1>6. ~c.online => c.seen.id = Solo
  BY <1>2 DEF Accepts
<1>7. ~strayed' => m = c.seen.id /\ c.seen.events = Log(m, rev[m])
  <2> SUFFICES ASSUME ~strayed'
               PROVE  m = c.seen.id /\ c.seen.events = Log(m, rev[m])
    OBVIOUS
  <2>1. m = c.seen.id /\ ~strayed
    BY <1>2 DEF IInv, TypeOK
  <2>2. UpTo(c.seen.id, c.seen.rev, c.seen.events)
    BY <1>2, <2>1 DEF IInv, Acting
  <2>3. PICK k \in c.seen.rev .. rev[c.seen.id] : c.seen.events = Log(c.seen.id, k)
    BY <2>2 DEF UpTo
  <2>4. k = rev[m]
    BY <1>4, <2>1, <2>3
  <2> QED
    BY <2>1, <2>3, <2>4
<1> DEFINE r == rev[m] + 1
<1>8. r \in Nat /\ r # 0 /\ r - 1 = rev[m]
  BY <1>4
<1>9. /\ wire' \in [Slot \cup {User} -> Wire]
      /\ wire'[User].op = c.op /\ wire'[User].at = "answer"
      /\ wire'[User].seen = c.seen /\ wire'[User].online = c.online
      /\ wire'[User].rev = r /\ wire'[User].upto = r
      /\ \A x \in Slot \cup {User} : x # User => wire'[x] = wire[x]
  BY <1>2, <1>8, ReplyWire DEF IInv
<1>10. /\ rev' \in [Match -> Nat] /\ Grows /\ rev'[m] = r
  BY <1>2, <1>4 DEF IInv, TypeOK, Grows
<1>11. Undealt'
  BY <1>2, <1>4, <1>5 DEF IInv, TypeOK, Undealt
<1>12. Target(wire'[User]) = m
  BY <1>9 DEF Target
<1>13. strayed' \in BOOLEAN /\ (strayed => strayed')
  BY <1>2 DEF IInv, TypeOK
<1> HIDE DEF m, c, r
<1>14. TypeOK'
  BY <1>2, <1>9, <1>10, <1>13 DEF IInv, TypeOK
<1>15. Purposes'
  BY <1>2, <1>3, <1>9, UserIsNoSlot DEF IInv, Purposes
<1>16. OneWatcher'
  BY <1>2, <1>9, UserIsNoSlot DEF IInv, OneWatcher, Idle
<1>17. Sound(wire[User])'
  BY <1>2, <1>9 DEF Sound
<1>18. Acting(wire[User])'
  <2>1. ~strayed' =>
          /\ Target(wire'[User]) = wire'[User].seen.id
          /\ wire'[User].upto <= rev'[wire'[User].seen.id]
          /\ wire'[User].seen.events = Log(wire'[User].seen.id, wire'[User].upto - 1)
    BY <1>7, <1>8, <1>9, <1>10, <1>12
  <2>2. ~wire'[User].online => wire'[User].seen.id = Solo
    BY <1>6, <1>9
  <2> QED
    BY <1>8, <1>9, <2>1, <2>2 DEF Acting, Target
<1> QED
  BY <1>2, <1>9, <1>10, <1>11, <1>13, <1>14, <1>15, <1>16, <1>17, <1>18, OneReply

\* The page shows a message and keeps what it has.
LEMMA FailsStep ==
  ASSUME IInv, NEW w \in Slot \cup {User}, Fails(w)
  PROVE  IInv'
<1>1. /\ strayed' = strayed /\ match' = match /\ saved' = saved
      /\ session' = session /\ token' = token /\ due' = due /\ watch' = watch
      /\ leaving' = leaving /\ broken' = broken /\ rev' = rev /\ status' = status
      /\ wire' = [wire EXCEPT ![w] = Free]
  BY DEF Fails, page, server
<1>2. /\ wire' \in [Slot \cup {User} -> Wire] /\ wire'[w] = Free
      /\ \A x \in Slot \cup {User} : x # w => wire'[x] = wire[x]
  BY <1>1, SetWire, FreeType DEF IInv
<1>3. Free.op = "none" /\ Free.at = "free"
  BY DEF Free
<1>4. TypeOK' /\ Undealt' /\ Grows
  BY <1>1, <1>2 DEF IInv, TypeOK, Undealt, Grows
<1>5. Purposes' /\ OneWatcher'
  BY <1>1, <1>2, <1>3, UserIsNoSlot DEF IInv, Purposes, OneWatcher, Idle
<1> QED
  BY <1>1, <1>2, <1>3, <1>4, <1>5, Calm

-----------------------------------------------------------------------------
(* The user's calls.                                                       *)

LEMMA ClickStep ==
  ASSUME IInv, NEW op \in Calls, Click(op)
  PROVE  IInv'
<1>1. /\ strayed' = strayed /\ match' = match /\ saved' = saved
      /\ session' = session /\ token' = token /\ due' = due /\ watch' = watch
      /\ leaving' = leaving /\ broken' = broken /\ rev' = rev /\ status' = status
      /\ wire' = [wire EXCEPT ![User] = Asking(op)]
  BY DEF Click, page, server
<1>2. op \in {"room", "join", "solo", "resume"}
  BY BoundAssumption
<1>3. /\ Asking(op) \in Wire /\ Asking(op).op = op /\ Asking(op).at = "asked"
  BY <1>2, AskingType
<1>4. /\ wire' \in [Slot \cup {User} -> Wire] /\ wire'[User] = Asking(op)
      /\ \A x \in Slot \cup {User} : x # User => wire'[x] = wire[x]
  BY <1>1, <1>3, SetWire DEF IInv
<1>5. TypeOK' /\ Undealt' /\ Grows
  BY <1>1, <1>4 DEF IInv, TypeOK, Undealt, Grows
<1>6. Purposes' /\ OneWatcher'
  BY <1>1, <1>2, <1>3, <1>4, UserIsNoSlot DEF IInv, Purposes, OneWatcher, Idle
<1> QED
  BY <1>1, <1>2, <1>3, <1>4, <1>5, <1>6, Calm

\* The action carries what is shown, which is faithful now.
LEMMA ActStep ==
  ASSUME IInv, Act
  PROVE  IInv'
<1> DEFINE c == [Asking("act") EXCEPT !.seen = match, !.online = session]
<1>1. /\ strayed' = strayed /\ match' = match /\ saved' = saved
      /\ session' = session /\ token' = token /\ due' = due /\ watch' = watch
      /\ leaving' = leaving /\ broken' = broken /\ rev' = rev /\ status' = status
      /\ wire' = [wire EXCEPT ![User] = c] /\ match # NoMatch
  BY DEF Act, page, server
<1>2. match \in Shown /\ session \in BOOLEAN
  BY <1>1 DEF IInv, TypeOK
<1>3. c \in Wire /\ c.op = "act" /\ c.at = "asked" /\ c.seen = match
  BY <1>2 DEF Asking, Free, Wire
<1> HIDE DEF c
<1>4. /\ wire' \in [Slot \cup {User} -> Wire] /\ wire'[User] = c
      /\ \A x \in Slot \cup {User} : x # User => wire'[x] = wire[x]
  BY <1>1, <1>3, SetWire DEF IInv
<1>5. TypeOK' /\ Undealt' /\ Grows
  BY <1>1, <1>4 DEF IInv, TypeOK, Undealt, Grows
<1>6. Purposes' /\ OneWatcher'
  BY <1>1, <1>2, <1>3, <1>4, UserIsNoSlot DEF IInv, Purposes, OneWatcher, Idle
<1>7. Sound(wire[User])'
  BY <1>3, <1>4 DEF Sound
<1>8. Acting(wire[User])'
  BY <1>1, <1>3, <1>4 DEF IInv, Acting, EventsFaithful, UpTo
<1> QED
  BY <1>1, <1>4, <1>5, <1>6, <1>7, <1>8, OneReply

\* What a room, a local match or an action answers is laid over the page.
LEMMA ShowingType ==
  ASSUME NEW id \in Match, NEW r \in Nat, NEW es \in Seq(Match \X Nat)
  PROVE  /\ Showing(id, r, es) \in Shown /\ Showing(id, r, es).id = id
         /\ Showing(id, r, es).rev = r /\ Showing(id, r, es).events = es
BY DEF Showing, Shown

LEMMA EnterRoomPage ==
  ASSUME IInv, EnterRoom, UNCHANGED server, strayed' = strayed
  PROVE  /\ match' \in {NoMatch} \cup Shown /\ session' = TRUE /\ due' = TRUE
         /\ token' = NoToken /\ saved' = saved /\ EventsFaithful'
<1> USE Matches
<1> DEFINE c == wire[User]
<1>1. /\ c.at = "answer" /\ c.op \in {"room", "join"}
      /\ session' = TRUE /\ due' = TRUE /\ token' = NoToken /\ saved' = saved
      /\ match' = IF c.rev = 0 THEN match ELSE Showing(Room, c.rev, Log(Room, c.upto))
  BY DEF EnterRoom
<1>2. /\ c.rev \in Nat /\ c.upto \in Nat /\ c.rev <= c.upto /\ c.upto <= rev[Room]
      /\ rev[Room] \in Nat
  BY <1>1, WireType DEF IInv, TypeOK, Sound, Subject
<1> HIDE DEF c
<1>3. CASE c.rev = 0
  BY <1>1, <1>3 DEF server, IInv, TypeOK, EventsFaithful
<1>4. CASE c.rev # 0
  <2>1. match' = Showing(Room, c.rev, Log(Room, c.upto)) /\ rev' = rev
    BY <1>1, <1>4 DEF server
  <2>2. /\ match' \in Shown /\ match'.id = Room /\ match'.rev = c.rev
        /\ match'.events = Log(Room, c.upto)
    BY <1>2, <2>1, LogType, ShowingType
  <2>3. c.upto \in c.rev .. rev[Room]
    BY <1>2
  <2> QED
    BY <1>1, <2>1, <2>2, <2>3 DEF EventsFaithful
<1> QED
  BY <1>3, <1>4

LEMMA EnterSoloPage ==
  ASSUME IInv, EnterSolo, UNCHANGED server, strayed' = strayed
  PROVE  /\ match' \in Shown /\ session' = session /\ due' = due
         /\ token' = Solo /\ saved' \subseteq {Solo} /\ EventsFaithful'
<1> USE Matches
<1> DEFINE c == wire[User]
<1>1. /\ c.at = "answer" /\ c.op \in {"solo", "resume"}
      /\ session' = session /\ due' = due /\ token' = Solo
      /\ saved' = saved \cup {Solo} /\ rev' = rev
      /\ match' = Showing(Solo, c.rev, Log(Solo, c.upto))
  BY DEF EnterSolo, server
<1>2. /\ c.rev \in Nat /\ c.upto \in Nat /\ c.rev <= c.upto /\ c.upto <= rev[Solo]
      /\ rev[Solo] \in Nat
  BY <1>1, WireType DEF IInv, TypeOK, Sound, Subject
<1> HIDE DEF c
<1>3. /\ match' \in Shown /\ match'.id = Solo /\ match'.rev = c.rev
      /\ match'.events = Log(Solo, c.upto)
  <2>1. Log(Solo, c.upto) \in Seq(Match \X Nat)
    BY <1>2, LogType
  <2> QED
    BY <1>1, <1>2, <2>1, ShowingType
<1>4. c.upto \in c.rev .. rev[Solo]
  BY <1>2
<1> QED
  BY <1>1, <1>3, <1>4 DEF EventsFaithful, IInv, RoomNotKept

LEMMA ActedPage ==
  ASSUME IInv, Acted, UNCHANGED server, strayed' = strayed
  PROVE  /\ match' \in Shown /\ session' = session /\ due' = due
         /\ token' = token /\ saved' \subseteq {Solo} /\ EventsFaithful'
<1> USE Matches
<1> DEFINE c == wire[User]
           m == Target(c)
           es == Append(c.seen.events, <<m, c.upto>>)
<1>1. /\ c.at = "answer" /\ c.op = "act"
      /\ session' = session /\ due' = due /\ token' = token
      /\ match' = Showing(m, c.rev, es)
      /\ saved' = Kept(Showing(m, c.rev, es), c.online) /\ rev' = rev
  BY DEF Acted, server
<1>2. /\ c.rev \in Nat /\ c.upto \in Nat /\ c.seen \in Shown
      /\ c.seen.id \in Match /\ c.seen.events \in Seq(Match \X Nat)
  BY <1>1, WireType DEF IInv, Purposes, Shown
<1>3. ~c.online => c.seen.id = Solo
  BY <1>1 DEF IInv, Acting
<1>4. m \in Match /\ (~c.online => m = Solo)
  BY <1>2, <1>3 DEF Target
<1>5. es \in Seq(Match \X Nat)
  BY <1>2, <1>4
<1>6. ~strayed => /\ m = c.seen.id /\ c.rev = c.upto /\ c.rev # 0
                  /\ c.upto <= rev[m] /\ c.seen.events = Log(m, c.upto - 1)
  BY <1>1 DEF IInv, Acting
<1>7. ~strayed => es = Log(m, c.upto)
  BY <1>2, <1>4, <1>6, LogNext
<1> HIDE DEF c, m, es
<1>8. /\ match' \in Shown /\ match'.id = m /\ match'.rev = c.rev /\ match'.events = es
  BY <1>1, <1>2, <1>4, <1>5, ShowingType
<1>9. saved' \subseteq {Solo}
  <2>1. Showing(m, c.rev, es).id = m
    BY <1>2, <1>4, <1>5, ShowingType
  <2> QED
    BY <1>1, <1>4, <2>1 DEF Kept, IInv, RoomNotKept
<1>10. EventsFaithful'
  <2>1. rev[m] \in Nat
    BY <1>4 DEF IInv, TypeOK
  <2> QED
    BY <1>1, <1>2, <1>6, <1>7, <1>8, <2>1 DEF EventsFaithful
<1> QED
  BY <1>1, <1>8, <1>9, <1>10

LEMMA ReceiveStep ==
  ASSUME IInv, Receive
  PROVE  IInv'
<1>1. /\ strayed' = strayed /\ watch' = watch
      /\ leaving' = leaving /\ broken' = broken /\ rev' = rev /\ status' = status
      /\ wire' = [wire EXCEPT ![User] = Free]
      /\ UNCHANGED server
  BY DEF Receive, server
<1>2. /\ match' \in {NoMatch} \cup Shown /\ session' \in BOOLEAN /\ due' \in BOOLEAN
      /\ token' \in {NoToken, Solo} /\ saved' \subseteq {Solo} /\ EventsFaithful'
      /\ due' \/ (due' = due /\ session' = session)
  BY <1>1, EnterRoomPage, EnterSoloPage, ActedPage
     DEF Receive, IInv, TypeOK, RoomNotKept
<1>3. /\ wire' \in [Slot \cup {User} -> Wire] /\ wire'[User] = Free
      /\ \A x \in Slot \cup {User} : x # User => wire'[x] = wire[x]
  BY <1>1, SetWire, FreeType DEF IInv
<1>4. Free.op = "none" /\ Free.at = "free"
  BY DEF Free
<1>5. TypeOK' /\ Undealt' /\ Grows
  BY <1>1, <1>2, <1>3, Matches DEF IInv, TypeOK, Undealt, Grows
<1>6. Purposes'
  BY <1>3, <1>4, UserIsNoSlot DEF IInv, Purposes
<1>7. OneWatcher'
  BY <1>1, <1>2, <1>3, UserIsNoSlot DEF IInv, OneWatcher, Idle
<1>8. \A x \in Slot \cup {User} : Sound(wire[x])'
  BY <1>3, <1>4, <1>5, SoundStays DEF IInv
<1>9. Acting(wire[User])'
  BY <1>3, <1>4, FreeActing
<1> QED
  BY <1>2, <1>5, <1>6, <1>7, <1>8, <1>9 DEF IInv, RoomNotKept

LEMMA LeaveStep ==
  ASSUME IInv, Leave \/ LeaveDone \/ SwitchLocale
  PROVE  IInv'
<1> USE DEF IInv, TypeOK
<1>1. /\ strayed' = strayed /\ watch' = watch /\ wire' = wire /\ saved' = saved
      /\ broken' = broken /\ rev' = rev /\ status' \in {status, "expired"}
      /\ match' \in {match, NoMatch} /\ token' \in {token, NoToken}
      /\ session' \in BOOLEAN /\ due' \in BOOLEAN /\ leaving' \in BOOLEAN
      /\ due' \/ (due' = due /\ session' = session)
  <2>1. CASE Leave
    BY <2>1 DEF Leave, page, server
  <2>2. CASE LeaveDone
    BY <2>2 DEF LeaveDone
  <2>3. CASE SwitchLocale
    BY <2>3 DEF SwitchLocale, page, server
  <2> QED
    BY <2>1, <2>2, <2>3
<1>2. TypeOK' /\ Undealt' /\ Grows
  BY <1>1 DEF IInv, TypeOK, Undealt, Grows, Status
<1>3. Purposes' /\ OneWatcher'
  BY <1>1 DEF IInv, Purposes, OneWatcher, Idle
<1> QED
  BY <1>1, <1>2, <1>3, Calm

\* Only what the browser keeps is left of the page.
LEMMA UnloadStep ==
  ASSUME IInv, Unload
  PROVE  IInv'
<1>1. /\ strayed' = FALSE /\ watch' = Off /\ saved' = saved
      /\ broken' = broken /\ rev' = rev /\ status' \in {status, "expired"}
      /\ match' = NoMatch /\ token' = NoToken /\ session' = FALSE /\ due' = FALSE
      /\ leaving' = FALSE /\ wire' = [w \in Slot \cup {User} |-> Free]
  BY DEF Unload
<1>2. /\ wire' \in [Slot \cup {User} -> Wire]
      /\ \A w \in Slot \cup {User} : wire'[w] = Free
  BY <1>1, FreeType
<1>3. Free.op = "none" /\ Free.at = "free"
  BY DEF Free
<1>4. Off \in Watch /\ Off.on = FALSE /\ Off.stream = FALSE /\ Off.poll = FALSE
  BY DEF Off, Watch, Status
<1>5. TypeOK' /\ Undealt'
  BY <1>1, <1>2, <1>4 DEF IInv, TypeOK, Undealt, Status
<1>6. Purposes' /\ OneWatcher'
  BY <1>1, <1>2, <1>3, <1>4 DEF Purposes, OneWatcher, Idle
<1>7. (\A w \in Slot \cup {User} : Sound(wire[w])') /\ Acting(wire[User])'
  BY <1>2, <1>3 DEF Sound, Acting
<1>8. EventsFaithful' /\ RoomNotKept'
  BY <1>1 DEF EventsFaithful, IInv, RoomNotKept
<1> QED
  BY <1>5, <1>6, <1>7, <1>8 DEF IInv

-----------------------------------------------------------------------------
(* The effect that watches the room.                                       *)

\* The four ways an effect can be.
LEMMA WatchKinds ==
  ASSUME NEW opens \in BOOLEAN, TypeOK
  PROVE  /\ Off \in Watch /\ Off.on = FALSE /\ Off.stream = FALSE /\ Off.poll = FALSE
         /\ Stopped \in Watch /\ Stopped.on = TRUE /\ Stopped.terminal = TRUE
         /\ Stopped.stream = FALSE /\ Stopped.poll = FALSE
         /\ FallBack \in Watch /\ FallBack.on = TRUE /\ FallBack.terminal = FALSE
         /\ FallBack.stream = FALSE /\ FallBack.poll = TRUE
         /\ LET w == [Off EXCEPT !.on = TRUE, !.stream = opens, !.poll = ~opens]
            IN  w \in Watch /\ w.on = TRUE /\ w.terminal = FALSE
                /\ w.stream = opens /\ w.poll = ~opens
BY DEF Off, Stopped, FallBack, Watch, Status

\* The old effect's refreshes are dropped with it.
LEMMA CommitStep ==
  ASSUME IInv, Commit
  PROVE  IInv'
<1>1. /\ strayed' = strayed /\ match' = match /\ saved' = saved
      /\ session' = session /\ token' = token /\ due' = FALSE
      /\ leaving' = leaving /\ broken' = broken /\ rev' = rev /\ status' = status
  BY DEF Commit, page, server
<1>2. Free.op = "none" /\ Free.at = "free" /\ Free \in Wire
  BY FreeType DEF Free
<1>3. /\ Asking("refresh") \in Wire /\ Asking("refresh").op = "refresh"
      /\ Asking("refresh").at = "asked"
  BY AskingType
<1>4. /\ wire' \in [Slot \cup {User} -> Wire] /\ wire'[User] = wire[User]
      /\ \A s \in Slot : wire'[s] \in {Free, Asking("refresh")}
      /\ ~session => \A s \in Slot : wire'[s] = Free
  BY <1>2, <1>3, UserIsNoSlot DEF Commit, IInv, TypeOK
<1>5. /\ watch' \in Watch
      /\ session => /\ watch'.on = TRUE /\ watch'.terminal = FALSE
                    /\ watch'.stream # watch'.poll
      /\ ~session => watch'.on = FALSE /\ watch'.stream = FALSE /\ watch'.poll = FALSE
  <2>1. CASE session
    <3>1. PICK opens \in BOOLEAN :
            watch' = [Off EXCEPT !.on = TRUE, !.stream = opens, !.poll = ~opens]
      BY <2>1 DEF Commit
    <3> QED
      BY <2>1, <3>1, WatchKinds DEF IInv
  <2>2. CASE ~session
    <3>1. watch' = Off
      BY <2>2 DEF Commit
    <3> QED
      BY <2>2, <3>1, WatchKinds DEF IInv
  <2> QED
    BY <2>1, <2>2
<1>6. TypeOK' /\ Undealt' /\ Grows
  <2>1. wire' \in [Slot \cup {User} -> Wire] /\ watch' \in Watch
    BY <1>4, <1>5
  <2>2. TypeOK'
    BY <1>1, <2>1 DEF IInv, TypeOK
  <2> QED
    BY <1>1, <2>2 DEF IInv, TypeOK, Undealt, Grows
<1>7. Purposes'
  BY <1>2, <1>3, <1>4 DEF IInv, Purposes
<1>8. OneWatcher'
  BY <1>1, <1>2, <1>4, <1>5 DEF OneWatcher, Idle, IInv, TypeOK
<1> QED
  BY <1>1, <1>2, <1>3, <1>4, <1>6, <1>7, <1>8, Calm

\* A refresh is asked for by the stream or by the poll.
LEMMA AskStep ==
  ASSUME IInv, NEW s \in Slot, StreamUpdate(s) \/ PollTick(s)
  PROVE  IInv'
<1>1. /\ strayed' = strayed /\ match' = match /\ saved' = saved
      /\ session' = session /\ token' = token /\ due' = due
      /\ leaving' = leaving /\ broken' = broken /\ rev' = rev /\ status' = status
      /\ wire' = [wire EXCEPT ![s] = Asking("refresh")]
  BY DEF StreamUpdate, PollTick, page, server
<1>2. /\ Asking("refresh") \in Wire /\ Asking("refresh").op = "refresh"
      /\ Asking("refresh").at = "asked"
  BY AskingType
<1>3. /\ wire' \in [Slot \cup {User} -> Wire] /\ wire'[s] = Asking("refresh")
      /\ \A x \in Slot \cup {User} : x # s => wire'[x] = wire[x]
  BY <1>1, <1>2, SetWire DEF IInv
<1>4. /\ watch' \in Watch /\ watch'.on = watch.on /\ watch'.stream = watch.stream
      /\ watch'.poll = watch.poll /\ watch'.terminal = watch.terminal
      /\ watch.stream \/ watch.poll
  <2> USE DEF IInv, TypeOK, Watch
  <2>1. CASE StreamUpdate(s)
    <3>1. Signature \in Status \X Nat
      BY Matches DEF Signature
    <3> QED
      BY <2>1, <3>1 DEF StreamUpdate
  <2>2. CASE PollTick(s)
    BY <2>2 DEF PollTick
  <2> QED
    BY <2>1, <2>2
<1>5. TypeOK' /\ Undealt' /\ Grows
  BY <1>1, <1>3, <1>4 DEF IInv, TypeOK, Undealt, Grows
<1>6. Purposes'
  BY <1>2, <1>3, UserIsNoSlot DEF IInv, Purposes
<1>7. OneWatcher'
  <2>1. watch.on
    BY <1>4 DEF IInv, OneWatcher
  <2> QED
    BY <1>1, <1>4, <2>1 DEF IInv, OneWatcher
<1> QED
  BY <1>1, <1>2, <1>3, <1>5, <1>6, <1>7, UserIsNoSlot, Calm

LEMMA StreamEndsStep ==
  ASSUME IInv, StreamInvalid \/ StreamFails
  PROVE  IInv'
<1>1. /\ strayed' = strayed /\ match' = match /\ saved' = saved
      /\ session' = session /\ token' = token /\ due' = due /\ wire' = wire
      /\ leaving' = leaving /\ broken' = broken /\ rev' = rev /\ status' = status
      /\ watch.stream /\ watch' \in {Stopped, FallBack}
  BY DEF StreamInvalid, StreamFails, page, server
<1>2. /\ watch' \in Watch /\ watch'.on = TRUE /\ watch'.stream = FALSE
      /\ watch'.poll = ~watch'.terminal /\ watch'.terminal \in BOOLEAN
  BY <1>1, WatchKinds DEF IInv
<1>3. TypeOK' /\ Undealt' /\ Grows
  BY <1>1, <1>2 DEF IInv, TypeOK, Undealt, Grows
<1>4. watch.on = TRUE
  BY <1>1 DEF IInv, OneWatcher, TypeOK, Watch
<1>5. Purposes' /\ OneWatcher'
  BY <1>1, <1>2, <1>4 DEF IInv, Purposes, OneWatcher, Idle
<1> QED
  BY <1>1, <1>3, <1>5, Calm

\* A refresh is laid over the page: the events it brings are those of the room
\* up to a moment not before its state, and so is what is merged from them.
LEMMA RefreshedPage ==
  ASSUME IInv, NEW s \in Slot, wire[s].at = "answer"
  PROVE  /\ Refreshed(wire[s]) \in {match} \cup Shown
         /\ Refreshed(wire[s]) # match /\ ~strayed =>
              LET m == Refreshed(wire[s]) IN UpTo(m.id, m.rev, m.events)
<1> USE Matches
<1> DEFINE c == wire[s]
<1>1. c.op = "refresh" /\ c.at = "answer"
  BY DEF IInv, Purposes
<1>2. /\ c.rev \in Nat /\ c.upto \in Nat /\ c.rev <= c.upto /\ c.upto <= rev[Room]
      /\ rev[Room] \in Nat
  BY <1>1, WireType DEF IInv, TypeOK, Sound, Subject
<1>3. Log(Room, c.upto) \in Seq(Match \X Nat) /\ c.upto \in c.rev .. rev[Room]
  BY <1>2, LogType
<1> HIDE DEF c
<1>4. CASE c.rev = 0
  BY <1>4 DEF Refreshed, c
<1>5. CASE c.rev # 0 /\ match # NoMatch /\ match.id = Room
  <2> DEFINE es == mergeEvents(match.events, Log(Room, c.upto))
  <2>1. match \in Shown /\ match.events \in Seq(Match \X Nat) /\ match.rev \in Nat
    BY <1>5 DEF IInv, TypeOK, Shown
  <2>2. es \in Seq(Match \X Nat)
    BY <1>3, <2>1, MergeType
  <2>3. ~strayed => \E k \in c.rev .. rev[Room] : es = Log(Room, k)
    <3> SUFFICES ASSUME ~strayed
                 PROVE  \E k \in c.rev .. rev[Room] : es = Log(Room, k)
      OBVIOUS
    <3>1. PICK j \in match.rev .. rev[Room] : match.events = Log(Room, j)
      BY <1>5 DEF IInv, EventsFaithful
    <3>2. j \in Nat /\ j <= rev[Room]
      BY <1>2, <2>1, <3>1
    <3>3. es = Log(Room, IF c.upto <= j THEN j ELSE c.upto)
      BY <1>2, <3>1, <3>2, MergeLogs
    <3> HIDE DEF es
    <3> QED
      BY <1>2, <3>2, <3>3
  <2> HIDE DEF es
  <2>4. Refreshed(c) = Showing(Room, c.rev, es)
    BY <1>5 DEF Refreshed, es
  <2>5. /\ Showing(Room, c.rev, es) \in Shown /\ Showing(Room, c.rev, es).id = Room
        /\ Showing(Room, c.rev, es).rev = c.rev /\ Showing(Room, c.rev, es).events = es
    BY <1>2, <2>2, ShowingType
  <2> QED
    BY <2>3, <2>4, <2>5 DEF UpTo, c
<1>6. CASE c.rev # 0 /\ ~(match # NoMatch /\ match.id = Room)
  <2> DEFINE es == Log(Room, c.upto)
  <2>1. Refreshed(c) = Showing(Room, c.rev, es)
    BY <1>6 DEF Refreshed
  <2>2. /\ Showing(Room, c.rev, es) \in Shown /\ Showing(Room, c.rev, es).id = Room
        /\ Showing(Room, c.rev, es).rev = c.rev /\ Showing(Room, c.rev, es).events = es
    BY <1>2, <1>3, ShowingType
  <2> QED
    BY <1>3, <2>1, <2>2 DEF UpTo, c
<1> QED
  BY <1>4, <1>5, <1>6

LEMMA DeliverStep ==
  ASSUME IInv, NEW s \in Slot, Deliver(s)
  PROVE  IInv'
<1>1. /\ strayed' = strayed /\ saved' = saved /\ wire[s].at \in {"answer", "invalid"}
      /\ session' = session /\ token' = token /\ due' = due
      /\ leaving' = leaving /\ broken' = broken /\ rev' = rev /\ status' = status
      /\ wire' = [wire EXCEPT ![s] = Free]
      /\ watch' \in {watch, Stopped}
      /\ match' = match \/ (wire[s].at = "answer" /\ match' = Refreshed(wire[s]))
  BY DEF Deliver, server
<1>2. Free.op = "none" /\ Free.at = "free"
  BY DEF Free
<1>3. /\ wire' \in [Slot \cup {User} -> Wire] /\ wire'[s] = Free
      /\ \A x \in Slot \cup {User} : x # s => wire'[x] = wire[x]
  BY <1>1, FreeType, SetWire DEF IInv
<1>4. match' \in {NoMatch} \cup Shown
  BY <1>1, RefreshedPage DEF IInv, TypeOK
<1>5. watch' \in Watch
  BY <1>1, WatchKinds DEF IInv, TypeOK
<1>6. TypeOK' /\ Undealt' /\ Grows
  BY <1>1, <1>3, <1>4, <1>5 DEF IInv, TypeOK, Undealt, Grows
<1>7. Purposes'
  BY <1>2, <1>3, UserIsNoSlot DEF IInv, Purposes
<1>8. OneWatcher'
  <2>1. watch.on = TRUE
    BY <1>1 DEF IInv, OneWatcher, Idle, TypeOK, Watch
  <2>2. CASE watch' = watch
    BY <1>1, <2>1, <2>2 DEF IInv, OneWatcher
  <2>3. CASE watch' = Stopped
    BY <1>1, <2>1, <2>3, WatchKinds DEF IInv, OneWatcher
  <2> QED
    BY <1>1, <2>2, <2>3
<1>9. EventsFaithful'
  <2>1. CASE match' = match
    BY <1>1, <1>6, <2>1, FaithfulStays DEF IInv
  <2>2. CASE match' # match
    <3>1. wire[s].at = "answer" /\ match' = Refreshed(wire[s])
      BY <1>1, <2>2
    <3>2. ~strayed => \E k \in match'.rev .. rev[match'.id] : match'.events = Log(match'.id, k)
      BY <2>2, <3>1, RefreshedPage DEF UpTo
    <3> QED
      BY <1>1, <3>2 DEF EventsFaithful
  <2> QED
    BY <2>1, <2>2
<1>10. \A x \in Slot \cup {User} : Sound(wire[x])'
  BY <1>2, <1>3, <1>6, SoundStays DEF IInv
<1>11. Acting(wire[User])'
  BY <1>1, <1>3, <1>6, UserIsNoSlot, ActingStays DEF IInv
<1> QED
  BY <1>1, <1>6, <1>7, <1>8, <1>9, <1>10, <1>11 DEF IInv, RoomNotKept

-----------------------------------------------------------------------------
(* The theorems.                                                           *)

LEMMA InitInv ==
  ASSUME Init
  PROVE  IInv
<1>1. Free.op = "none" /\ Free.at = "free" /\ Free \in Wire
  BY FreeType DEF Free
<1>2. Off \in Watch /\ Off.on = FALSE /\ Off.stream = FALSE /\ Off.poll = FALSE
  BY DEF Off, Watch, Status
<1>3. \A w \in Slot \cup {User} : wire[w] = Free
  BY DEF Init
<1>4. TypeOK /\ Undealt
  BY <1>1, <1>2, Matches DEF Init, TypeOK, Undealt, Status
<1>5. Purposes /\ OneWatcher
  BY <1>1, <1>2, <1>3 DEF Init, Purposes, OneWatcher, Idle
<1>6. (\A w \in Slot \cup {User} : Sound(wire[w])) /\ Acting(wire[User])
  BY <1>1, <1>3 DEF Sound, Acting
<1> QED
  BY <1>4, <1>5, <1>6 DEF Init, IInv, EventsFaithful, RoomNotKept

LEMMA StutterStep ==
  ASSUME IInv, UNCHANGED vars
  PROVE  IInv'
BY DEF IInv, vars, server, page, TypeOK, Purposes, Undealt, Sound, Subject, Acting,
       UpTo, Target, EventsFaithful, OneWatcher, Idle, RoomNotKept

LEMMA NextStep ==
  ASSUME IInv, [Next]_vars
  PROVE  IInv'
<1>1. CASE Others
  BY <1>1, OthersStep
<1>2. CASE Person
  BY <1>2, ClickStep, ActStep, ReceiveStep, LeaveStep, UnloadStep DEF Person
<1>3. CASE Effect
  BY <1>3, CommitStep, StreamEndsStep, AskStep, DeliverStep DEF Effect
<1>4. ASSUME NEW w \in Slot \cup {User}, Server(w) PROVE IInv'
  BY <1>4, ReadStateStep, ReadEventsStep, OpensStep, AppliesStep, FailsStep DEF Server
<1>5. CASE UNCHANGED vars
  BY <1>5, StutterStep
<1> QED
  BY <1>1, <1>2, <1>3, <1>4, <1>5 DEF Next

\* The invariant, from which the rest follows.
LEMMA Inductive == Spec => []IInv
<1>1. Init => IInv
  BY InitInv
<1>2. IInv /\ [Next]_vars => IInv'
  BY NextStep
<1> QED
  BY <1>1, <1>2, PTL DEF Spec

\* The events on the page are the log of the match shown up to some moment not
\* before the state shown, whatever is lost, late or out of order, unless an
\* action made on a local match was sent to the room (App.tsx: mergeEvents,
\* handleAction, refreshOnlineRoom).
THEOREM EventsFaithfulHolds == Spec => []EventsFaithful
<1>1. IInv => EventsFaithful
  BY DEF IInv
<1> QED
  BY <1>1, Inductive, PTL

\* A room is watched by the stream or by the poll and never by both; an effect
\* that is over leaves no stream, no poll and no refresh behind.
THEOREM OneWatcherHolds == Spec => []OneWatcher
<1>1. IInv => OneWatcher
  BY DEF IInv
<1> QED
  BY <1>1, Inductive, PTL

\* A match played in a room is never kept among the browser's local matches.
THEOREM RoomNotKeptHolds == Spec => []RoomNotKept
<1>1. IInv => RoomNotKept
  BY DEF IInv
<1> QED
  BY <1>1, Inductive, PTL
=============================================================================
