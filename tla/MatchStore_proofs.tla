--------------------------- MODULE MatchStore_proofs ---------------------------
(***************************************************************************)
(* Theorems about MatchStore, for every number of threads and requests,    *)
(* every choice of faults, and matches of any length.                      *)
(***************************************************************************)
EXTENDS MatchStore, SequenceTheorems, FiniteSetTheorems, TLAPS

\* The thread in the write transaction is the only one, and the row is still
\* what it has read.
OneWriter ==
    \A t \in Thread : th[t].pc = "inside" =>
       /\ th[t].read = row
       /\ \A u \in Thread : th[u].pc = "inside" => u = t

\* A request stands for one revision, the one it is logged with.
AskedOnce ==
    /\ \A i \in DOMAIN log : log[i].move.by \in Request =>
          log[i].move.expected = asked[log[i].move.by] /\ asked[log[i].move.by] # 0
    /\ \A t \in Thread :
          th[t].pc \in {"apply", "inside"} /\ th[t].move.by \in Request =>
             th[t].move.expected = asked[th[t].move.by] /\ asked[th[t].move.by] # 0

\* What was added is in the log of a live match, and nothing before there is one.
AddedIsLogged ==
    /\ row.life = "absent" => added = {} /\ log = <<>>
    /\ row.life = "live" => \A q \in added : \E i \in DOMAIN log : log[i].move.by = q

\* Success is told, or about to be told, for requests whose action was added.
ToldIsAdded ==
    /\ told \subseteq added
    /\ \A t \in Thread :
          /\ th[t].req \in Request
          /\ \/ th[t].pc \in {"drive", "report"}
             \/ th[t].pc \in {"apply", "inside"} /\ th[t].move.by # th[t].req
          => th[t].req \in added

\* The AI acts only while the cap is not reached.
CapAhead ==
    \A t \in Thread :
       th[t].pc \in {"apply", "inside"} /\ th[t].move.by = AI => th[t].steps < MaxDrive

IInv == TypeOK /\ LogAgrees /\ OneWriter /\ AskedOnce /\ AddedIsLogged /\ ToldIsAdded /\ CapAhead

-----------------------------------------------------------------------------
\* The moves of a log with one more entry.
Entry == [move : MoveType, result : Nat]

LEMMA EntriesOf ==
  ASSUME NEW l \in Seq(Entry), NEW i \in 1..Len(l)
  PROVE  l[i].move \in MoveType
<1>1. l[i] \in Entry
  BY ElementOfSeq
<1> QED
  BY <1>1 DEF Entry

LEMMA EventSeq ==
  ASSUME NEW l \in Seq([seq : Nat, blocked : Nat]), NEW i \in DOMAIN l
  PROVE  l[i].seq \in Nat
<1>1. i \in 1..Len(l)
  OBVIOUS
<1>2. l[i] \in [seq : Nat, blocked : Nat]
  BY <1>1, ElementOfSeq
<1> QED
  BY <1>2

LEMMA MovesOfAppend ==
  ASSUME NEW l \in Seq(Entry), NEW e \in Entry
  PROVE  /\ MovesOf(l) \in Seq(MoveType) /\ Len(MovesOf(l)) = Len(l)
         /\ MovesOf(Append(l, e)) = Append(MovesOf(l), e.move)
<1>1. DOMAIN l = 1..Len(l) /\ Len(l) \in Nat
  OBVIOUS
<1>2. MovesOf(l) = [i \in 1..Len(l) |-> l[i].move]
  BY <1>1 DEF MovesOf
<1>3. MovesOf(l) \in Seq(MoveType) /\ Len(MovesOf(l)) = Len(l)
  BY <1>1, <1>2, EntriesOf
<1>4. MovesOf(Append(l, e)) =
        [i \in 1..(Len(l) + 1) |-> IF i = Len(l) + 1 THEN e.move ELSE l[i].move]
  BY DEF MovesOf
<1>5. Append(MovesOf(l), e.move) =
        [i \in 1..(Len(l) + 1) |-> IF i = Len(l) + 1 THEN e.move ELSE l[i].move]
  BY <1>1, <1>2, <1>3
<1> QED
  BY <1>3, <1>4, <1>5

LEMMA MovesOfEmpty == MovesOf(<<>>) = <<>>
  BY DEF MovesOf

LEMMA FirstSnapshot ==
  ASSUME NEW s \in {[revision |-> 0, moves |-> <<>>]}
  PROVE  s.revision \in Nat /\ s.moves \in Seq(MoveType)
<1>1. s = [revision |-> 0, moves |-> <<>>]
  OBVIOUS
<1>2. s.revision = 0
  BY <1>1
<1>3. s.moves = <<>>
  BY <1>1
<1>4. <<>> \in Seq(MoveType)
  BY EmptySeq
<1> QED
  BY <1>2, <1>3, <1>4

LEMMA IdleType ==
  /\ NoState \in States /\ NoRow \in Rows /\ Gone \in Rows
  /\ Move(Opening, 0) \in MoveType
  /\ Idle \in [pc : {"idle", "apply", "inside", "drive", "report"},
               req : Request \cup {NoRequest}, move : MoveType,
               read : Rows, got : States, steps : 0..MaxDrive]
  /\ Idle.pc = "idle" /\ Idle.req \notin Request
  BY NamesAssumption, ParametersAssumption
     DEF NoState, State, NoRow, Gone, Move, MoveType, Mover, Idle, Rows, States

LEMMA InitInv == Init => IInv
<1> SUFFICES ASSUME Init PROVE IInv
  OBVIOUS
<1>1. TypeOK
  BY IdleType DEF Init, TypeOK, NoReplay
<1>2. LogAgrees
  BY MovesOfEmpty DEF Init, LogAgrees, NoRow, NoState, State
<1>3. OneWriter /\ AskedOnce /\ AddedIsLogged /\ ToldIsAdded /\ CapAhead
  BY IdleType DEF Init, OneWriter, AskedOnce, AddedIsLogged, ToldIsAdded, CapAhead, NoRow
<1> QED
  BY <1>1, <1>2, <1>3 DEF IInv

\* A thread that goes idle disturbs nothing, whether its client is told of a
\* request that was added or not.
LEMMA GoesIdle ==
  ASSUME IInv, NEW t \in Thread, th' = [th EXCEPT ![t] = Idle],
         \/ told' = told
         \/ th[t].pc \in {"drive", "report"} /\ told' = told \cup ({th[t].req} \cap Request),
         UNCHANGED <<row, log, snaps, replay, asked, added>>,
         events' \in Seq([seq : Nat, blocked : Nat]),
         \A i \in DOMAIN events' : events'[i].seq <= Len(log)
  PROVE  IInv'
<1>1. TypeOK'
  BY IdleType DEF IInv, TypeOK
<1>2. LogAgrees'
  BY DEF IInv, LogAgrees, MovesOf
<1>3. OneWriter' /\ AskedOnce' /\ CapAhead'
  BY IdleType DEF IInv, OneWriter, AskedOnce, CapAhead, TypeOK
<1>4. AddedIsLogged' /\ ToldIsAdded'
  BY IdleType DEF IInv, AddedIsLogged, ToldIsAdded, TypeOK
<1> QED
  BY <1>1, <1>2, <1>3, <1>4 DEF IInv

LEMMA CreateMatchInv ==
  ASSUME IInv, NEW t \in Thread, CreateMatch(t)
  PROVE  IInv'
<1> USE DEF IInv, CreateMatch
<1>1. TypeOK'
  <2>1. row' \in Rows
    BY IdleType DEF Rows
  <2>2. \A s \in snaps' : s.revision \in Nat /\ s.moves \in Seq(MoveType)
    BY FirstSnapshot
  <2>3. th'[t] \in [pc : {"idle", "apply", "inside", "drive", "report"},
                    req : Request \cup {NoRequest}, move : MoveType,
                    read : Rows, got : States, steps : 0..MaxDrive]
    BY IdleType DEF TypeOK
  <2> QED
    BY <2>1, <2>2, <2>3 DEF TypeOK
<1>2. LogAgrees'
  BY MovesOfEmpty DEF LogAgrees, AddedIsLogged, NoState, State, MovesOf
<1>3. OneWriter' /\ AskedOnce' /\ CapAhead'
  BY IdleType, NamesAssumption
     DEF OneWriter, AskedOnce, CapAhead, TypeOK, LockFree, Move, Idle
<1>4. AddedIsLogged' /\ ToldIsAdded'
  BY IdleType DEF AddedIsLogged, ToldIsAdded, TypeOK, Idle
<1> QED
  BY <1>1, <1>2, <1>3, <1>4

LEMMA ReceiveInv ==
  ASSUME IInv, NEW t \in Thread, NEW q \in Request, Receive(t, q)
  PROVE  IInv'
<1> USE DEF IInv
<1>1. PICK r \in 1..MaxMoves :
         /\ asked[q] # 0 => r = asked[q]
         /\ asked' = [asked EXCEPT ![q] = r]
         /\ th' = [th EXCEPT ![t] = [Idle EXCEPT !.pc = "apply", !.req = q,
                                                 !.move = Move(q, r)]]
  BY DEF Receive
<1>2. UNCHANGED <<row, log, events, snaps, replay, added, told>>
  BY DEF Receive
<1>3. r \in Nat /\ r # 0
  BY ParametersAssumption
<1>4. TypeOK'
  <2>1. Move(q, r) \in MoveType
    BY <1>3 DEF Move, MoveType, Mover
  <2> QED
    BY <1>1, <1>2, <1>3, <2>1, IdleType DEF TypeOK
<1>5. LogAgrees'
  BY <1>2 DEF LogAgrees, MovesOf
<1>6. OneWriter' /\ CapAhead'
  BY <1>1, <1>2, NamesAssumption DEF OneWriter, CapAhead, TypeOK, Idle, Move
<1>7. AskedOnce'
  BY <1>1, <1>2, <1>3 DEF AskedOnce, TypeOK, Idle, Move
<1>8. AddedIsLogged' /\ ToldIsAdded'
  BY <1>1, <1>2 DEF AddedIsLogged, ToldIsAdded, TypeOK, Idle, Move
<1> QED
  BY <1>4, <1>5, <1>6, <1>7, <1>8

\* A thread that moves on without touching the tables keeps the invariant if
\* its record does.
ThreadType == [pc : {"idle", "apply", "inside", "drive", "report"},
               req : Request \cup {NoRequest}, move : MoveType,
               read : Rows, got : States, steps : 0..MaxDrive]

LEMMA MovesOn ==
  ASSUME IInv, NEW t \in Thread, NEW r \in ThreadType,
         th' = [th EXCEPT ![t] = r],
         UNCHANGED <<row, log, events, snaps, replay, asked, added, told>>,
         r.pc = "inside" => r.read = row /\ LockFree,
         r.pc \in {"apply", "inside"} /\ r.move.by \in Request =>
            r.move.expected = asked[r.move.by] /\ asked[r.move.by] # 0,
         r.req \in Request /\ (\/ r.pc \in {"drive", "report"}
                               \/ r.pc \in {"apply", "inside"} /\ r.move.by # r.req)
            => r.req \in added,
         r.pc \in {"apply", "inside"} /\ r.move.by = AI => r.steps < MaxDrive
  PROVE  IInv'
<1> USE DEF IInv
<1>0. \A u \in Thread : th'[u] = IF u = t THEN r ELSE th[u]
  BY DEF TypeOK
<1>1. TypeOK'
  BY DEF TypeOK, ThreadType
<1>2. LogAgrees'
  BY DEF LogAgrees, MovesOf
<1>3. OneWriter'
  BY <1>0 DEF OneWriter, LockFree
<1>4. AskedOnce'
  BY <1>0 DEF AskedOnce
<1>5. AddedIsLogged'
  BY DEF AddedIsLogged
<1>6. ToldIsAdded'
  BY <1>0 DEF ToldIsAdded
<1>7. CapAhead'
  BY <1>0 DEF CapAhead
<1> QED
  BY <1>1, <1>2, <1>3, <1>4, <1>5, <1>6, <1>7

LEMMA BeginInv ==
  ASSUME IInv, NEW t \in Thread, Begin(t)
  PROVE  IInv'
<1> DEFINE r == [th[t] EXCEPT !.pc = "inside", !.read = row]
<1>1. th[t] \in ThreadType /\ row \in Rows
  BY DEF IInv, TypeOK, ThreadType
<1>2. r \in ThreadType /\ th' = [th EXCEPT ![t] = r]
  BY <1>1 DEF Begin, ThreadType, IInv, TypeOK
<1>3. r.pc = "inside" /\ r.read = row /\ r.move = th[t].move /\ r.req = th[t].req
      /\ r.steps = th[t].steps
  BY <1>1 DEF ThreadType
<1>4. th[t].pc = "apply" /\ LockFree
      /\ UNCHANGED <<row, log, events, snaps, replay, asked, added, told>>
  BY DEF Begin, MayBegin
<1> HIDE DEF r
<1> QED
  BY <1>2, <1>3, <1>4, MovesOn DEF IInv, AskedOnce, ToldIsAdded, CapAhead

LEMMA ChooseAIActionInv ==
  ASSUME IInv, NEW t \in Thread, ChooseAIAction(t)
  PROVE  IInv'
<1> DEFINE m == Move(AI, Revision(th[t].got))
           r == [th[t] EXCEPT !.pc = "apply", !.move = m]
<1>1. th[t] \in ThreadType
  BY DEF IInv, TypeOK, ThreadType
<1>2. m \in MoveType /\ m.by = AI
  <2>1. th[t].got.moves \in Seq(MoveType)
    BY <1>1 DEF ThreadType, States
  <2>2. Len(th[t].got.moves) \in Nat
    BY <2>1
  <2> QED
    BY <2>2 DEF Move, MoveType, Mover, Revision
<1> HIDE DEF m
<1>3. r \in ThreadType /\ th' = [th EXCEPT ![t] = r]
  BY <1>1, <1>2 DEF ChooseAIAction, ThreadType, IInv, TypeOK, m
<1>4. r.pc = "apply" /\ r.move = m /\ r.req = th[t].req /\ r.steps = th[t].steps
  BY <1>1 DEF ThreadType
<1>5. th[t].pc = "drive" /\ th[t].steps # MaxDrive
      /\ UNCHANGED <<row, log, events, snaps, replay, asked, added, told>>
  BY DEF ChooseAIAction, CapReached
<1>6. th[t].steps < MaxDrive
  BY <1>1, <1>5, ParametersAssumption DEF ThreadType
<1> HIDE DEF r
<1> QED
  BY <1>2, <1>3, <1>4, <1>5, <1>6, MovesOn, NamesAssumption DEF IInv, ToldIsAdded

LEMMA MeetBlockerInv ==
  ASSUME IInv, NEW t \in Thread, MeetBlocker(t)
  PROVE  IInv'
<1> DEFINE r == [th[t] EXCEPT !.pc = "report"]
<1>1. th[t] \in ThreadType
  BY DEF IInv, TypeOK, ThreadType
<1>2. r \in ThreadType /\ th' = [th EXCEPT ![t] = r]
  BY <1>1 DEF MeetBlocker, ThreadType, IInv, TypeOK
<1>3. r.pc = "report" /\ r.req = th[t].req
  BY <1>1 DEF ThreadType
<1>4. th[t].pc = "drive"
      /\ UNCHANGED <<row, log, events, snaps, replay, asked, added, told>>
  BY DEF MeetBlocker
<1> HIDE DEF r
<1> QED
  BY <1>2, <1>3, <1>4, MovesOn DEF IInv, ToldIsAdded

\* The exception handlers around apply.
LEMMA ApplyFailsInv ==
  ASSUME IInv, NEW t \in Thread, th[t].pc \in {"apply", "inside"}, ApplyFails(t),
         UNCHANGED <<row, log, events, snaps, replay, asked, added>>
  PROVE  IInv'
<1>1. CASE th[t].move.by = AI
  <2> DEFINE r == [th[t] EXCEPT !.pc = "report", !.read = NoRow]
  <2>1. th[t] \in ThreadType
    BY DEF IInv, TypeOK, ThreadType
  <2>2. r \in ThreadType
    BY <2>1, IdleType DEF ThreadType
  <2>3. th' = [th EXCEPT ![t] = r] /\ told' = told
    BY <1>1, <2>1 DEF ApplyFails, ThreadType, IInv, TypeOK
  <2>4. r.pc = "report" /\ r.req = th[t].req
    BY <2>1 DEF ThreadType
  <2>5. th[t].req \in Request => th[t].req \in added
    BY <1>1, NamesAssumption DEF IInv, ToldIsAdded
  <2> HIDE DEF r
  <2> QED
    BY <2>2, <2>3, <2>4, <2>5, MovesOn
<1>2. CASE th[t].move.by # AI
  <2>1. th' = [th EXCEPT ![t] = Idle] /\ told' = told
    BY <1>2 DEF ApplyFails, AnswerError
  <2> QED
    BY <2>1, GoesIdle DEF IInv, TypeOK, LogAgrees
<1> QED
  BY <1>1, <1>2

LEMMA RefuseInv ==
  ASSUME IInv, NEW t \in Thread, Refuse(t) \/ ApplyTimesOut(t)
  PROVE  IInv'
  BY ApplyFailsInv DEF Refuse, ApplyTimesOut

\* What apply commits: one more entry, made on the state the row holds, by a
\* request that had added none.
LEMMA CommitStep ==
  ASSUME IInv, NEW t \in Thread, Commit(t)
  PROVE  LET m == th[t].move
             e == [move |-> m, result |-> Len(log) + 1]
         IN  /\ row.life = "live" /\ row'.life = "live"
             /\ m \in MoveType /\ m.expected = Len(log) /\ e \in Entry
             /\ log \in Seq(Entry) /\ log' = Append(log, e)
             /\ MovesOf(log) = row.state.moves
             /\ row'.state.moves = Append(MovesOf(log), m) /\ row' \in Rows
             /\ events' = Append(events, [seq |-> Len(log) + 1, blocked |-> 0])
             /\ \A s \in snaps' : s \in snaps \/ (s.revision = Len(log) + 1
                                                 /\ s.moves = row'.state.moves)
             /\ th' = [th EXCEPT ![t] = AfterCommit(t, row'.state)]
             /\ m.by \notin added
<1> DEFINE m == th[t].move
           e == [move |-> m, result |-> Len(log) + 1]
           moves == Append(row.state.moves, m)
<1>1. th[t].pc = "inside" /\ th[t].read = row /\ row.life = "live"
      /\ m.expected = Len(row.state.moves)
  BY DEF Commit, Accepts, Revision, IInv, OneWriter
<1>2. row \in Rows /\ m \in MoveType /\ log \in Seq(Entry) /\ th[t] \in ThreadType
  BY DEF IInv, TypeOK, ThreadType, Entry
<1>3. row.state.moves \in Seq(MoveType) /\ row.state \in States
  BY <1>2 DEF Rows, States
<1>4. MovesOf(log) = row.state.moves /\ Len(row.state.moves) = Len(log) /\ Len(log) \in Nat
  <2>1. row.state.moves = MovesOf(log)
    BY DEF IInv, LogAgrees
  <2>2. Len(MovesOf(log)) = Len(log)
    BY <1>2 DEF MovesOf
  <2> QED
    BY <1>2, <2>1, <2>2
<1>5. moves \in Seq(MoveType) /\ Len(moves) = Len(log) + 1
  BY <1>2, <1>3, <1>4
<1>6. PICK to \in MoversAfter(Len(moves)) :
         /\ row' = [row EXCEPT !.state = State(moves, to)]
         /\ log' = Append(log, [move |-> m, result |-> Len(moves)])
         /\ events' = Append(events, [seq |-> Len(log) + 1, blocked |-> 0])
         /\ snaps' = Latest(snaps \cup {[revision |-> Len(moves), moves |-> moves]}, Keep)
         /\ th' = [th EXCEPT ![t] = AfterCommit(t, State(moves, to))]
  BY <1>1 DEF Commit
<1>7. to \in {"human", "ai", "neutral", "over"}
  BY <1>6, ParametersAssumption DEF MoversAfter, NextMovers
<1>8. State(moves, to) \in States /\ State(moves, to).moves = moves
  BY <1>5, <1>7 DEF State, States
<1> HIDE DEF moves
<1>9. row'.life = "live" /\ row'.state = State(moves, to) /\ row' \in Rows
  BY <1>1, <1>2, <1>6, <1>8 DEF Rows
<1>10. e \in Entry /\ log' = Append(log, e)
  BY <1>2, <1>4, <1>5, <1>6 DEF Entry
<1>11. \A s \in snaps' : s \in snaps \/ (s.revision = Len(log) + 1 /\ s.moves = moves)
  BY <1>5, <1>6 DEF Latest
<1>12. m.by \notin added
  <2> SUFFICES ASSUME m.by \in added PROVE FALSE
    OBVIOUS
  <2>1. m.by \in Request
    BY DEF IInv, TypeOK
  <2>2. PICK i \in DOMAIN log : log[i].move.by = m.by
    BY <1>1 DEF IInv, AddedIsLogged
  <2>3. log[i].move.expected = asked[m.by] /\ log[i].move.expected = i - 1
    BY <2>1, <2>2 DEF IInv, AskedOnce, LogAgrees
  <2>4. m.expected = asked[m.by]
    BY <1>1, <2>1 DEF IInv, AskedOnce
  <2>5. i \in 1..Len(log)
    BY <1>2
  <2> QED
    BY <1>1, <1>4, <2>3, <2>4, <2>5
<1> QED
  BY <1>1, <1>2, <1>4, <1>6, <1>8, <1>9, <1>10, <1>11, <1>12 DEF moves

LEMMA CommitInv ==
  ASSUME IInv, NEW t \in Thread, Commit(t)
  PROVE  IInv'
<1> DEFINE m == th[t].move
           e == [move |-> m, result |-> Len(log) + 1]
           r == AfterCommit(t, row'.state)
           n == Len(log)
<1>1. /\ row.life = "live" /\ row'.life = "live"
      /\ m \in MoveType /\ m.expected = n /\ e \in Entry
      /\ log \in Seq(Entry) /\ log' = Append(log, e)
      /\ MovesOf(log) = row.state.moves
      /\ row'.state.moves = Append(MovesOf(log), m) /\ row' \in Rows
      /\ events' = Append(events, [seq |-> n + 1, blocked |-> 0])
      /\ \A s \in snaps' : s \in snaps \/ (s.revision = n + 1 /\ s.moves = row'.state.moves)
      /\ th' = [th EXCEPT ![t] = r]
  BY CommitStep
<1>2. /\ th[t].pc = "inside" /\ added' = added \cup ({m.by} \cap Request)
      /\ UNCHANGED <<replay, asked, told>>
  BY DEF Commit
<1>3. n \in Nat /\ DOMAIN log = 1..n /\ DOMAIN log' = 1..(n + 1)
      /\ \A i \in 1..(n + 1) : log'[i] = IF i = n + 1 THEN e ELSE log[i]
  BY <1>1
<1>4. th[t] \in ThreadType /\ row'.state \in States
  BY <1>1 DEF IInv, TypeOK, ThreadType, Rows
<1>5. r \in ThreadType /\ r.pc = "drive" /\ r.req = th[t].req
  <2>1. (IF m.by = AI THEN th[t].steps + 1 ELSE th[t].steps) \in 0..MaxDrive
    BY <1>2, <1>4, ParametersAssumption DEF IInv, CapAhead, ThreadType
  <2> QED
    BY <1>4, <2>1, IdleType DEF AfterCommit, ThreadType
<1>6. \A u \in Thread : th'[u] = IF u = t THEN r ELSE th[u]
  BY <1>1 DEF IInv, TypeOK
<1> HIDE DEF r
<1>7. TypeOK'
  <2>1. log' \in Seq([move : MoveType, result : Nat])
    BY <1>1 DEF Entry
  <2>2. events' \in Seq([seq : Nat, blocked : Nat])
    BY <1>1, <1>3 DEF IInv, TypeOK
  <2>3. row'.state.moves \in Seq(MoveType)
    BY <1>4 DEF States
  <2>4. \A s \in snaps' : s.revision \in Nat /\ s.moves \in Seq(MoveType)
    <3>1. \A s \in snaps : s.revision \in Nat /\ s.moves \in Seq(MoveType)
      BY DEF IInv, TypeOK
    <3>2. n + 1 \in Nat
      BY <1>3
    <3> QED
      BY <1>1, <2>3, <3>1, <3>2
  <2>5. th' \in [Thread -> ThreadType]
    BY <1>1, <1>5 DEF IInv, TypeOK, ThreadType
  <2> QED
    BY <1>1, <1>2, <2>1, <2>2, <2>4, <2>5 DEF IInv, TypeOK, ThreadType
<1>8. LogAgrees'
  <2>1. row'.state.moves = MovesOf(log')
    BY <1>1, MovesOfAppend
  <2>2. \A i \in DOMAIN log' : log'[i].move.expected = i - 1 /\ log'[i].result = i
    BY <1>1, <1>3 DEF IInv, LogAgrees
  <2>3. \A i \in DOMAIN events' : events'[i].seq <= Len(log')
    <3>1. events \in Seq([seq : Nat, blocked : Nat])
      BY DEF IInv, TypeOK
    <3>2. \A i \in DOMAIN events' : events'[i] = [seq |-> n + 1, blocked |-> 0]
                                     \/ (i \in DOMAIN events /\ events'[i] = events[i])
      BY <1>1, <3>1
    <3>3. \A i \in DOMAIN events : events[i].seq <= n /\ events[i].seq \in Nat
      BY <3>1, EventSeq DEF IInv, LogAgrees
    <3>4. Len(log') = n + 1
      BY <1>1
    <3> QED
      BY <1>3, <3>2, <3>3, <3>4
  <2> QED
    BY <2>1, <2>2, <2>3 DEF LogAgrees
<1>9. OneWriter' /\ CapAhead'
  BY <1>2, <1>5, <1>6 DEF IInv, OneWriter, CapAhead
<1>10. AskedOnce'
  <2>1. m.by \in Request => m.expected = asked[m.by] /\ asked[m.by] # 0
    BY <1>2 DEF IInv, AskedOnce
  <2>2. \A i \in 1..(n + 1) : log'[i].move.by \in Request =>
           log'[i].move.expected = asked[log'[i].move.by] /\ asked[log'[i].move.by] # 0
    <3>1. \A i \in 1..n : log[i].move.by \in Request =>
             log[i].move.expected = asked[log[i].move.by] /\ asked[log[i].move.by] # 0
      BY <1>3 DEF IInv, AskedOnce
    <3> QED
      BY <1>3, <2>1, <3>1
  <2>3. \A u \in Thread : th'[u].pc \in {"apply", "inside"} /\ th'[u].move.by \in Request =>
           th'[u].move.expected = asked[th'[u].move.by] /\ asked[th'[u].move.by] # 0
    BY <1>5, <1>6 DEF IInv, AskedOnce
  <2> QED
    BY <1>2, <1>3, <2>2, <2>3 DEF AskedOnce
<1>11. AddedIsLogged'
  BY <1>1, <1>2, <1>3 DEF IInv, AddedIsLogged
<1>12. ToldIsAdded'
  BY <1>2, <1>5, <1>6 DEF IInv, ToldIsAdded
<1> QED
  BY <1>7, <1>8, <1>9, <1>10, <1>11, <1>12 DEF IInv

-----------------------------------------------------------------------------
LEMMA StopDrivingInv ==
  ASSUME IInv, NEW t \in Thread, StopDriving(t)
  PROVE  IInv'
  BY GoesIdle DEF StopDriving, Answer, IInv, TypeOK, LogAgrees

LEMMA ReportBlockerInv ==
  ASSUME IInv, NEW t \in Thread, ReportBlocker(t)
  PROVE  IInv'
<1> DEFINE e == [seq |-> Len(log), blocked |-> Revision(th[t].got)]
<1>1. events \in Seq([seq : Nat, blocked : Nat]) /\ Len(log) \in Nat
  BY DEF IInv, TypeOK
<1>2. e \in [seq : Nat, blocked : Nat]
  <2>1. th[t].got \in States
    BY DEF IInv, TypeOK
  <2>2. Len(th[t].got.moves) \in Nat
    BY <2>1 DEF States
  <2> QED
    BY <1>1, <2>2 DEF Revision
<1>3. events' = Append(events, e)
  BY DEF ReportBlocker
<1> HIDE DEF e
<1>4. events' \in Seq([seq : Nat, blocked : Nat])
  BY <1>1, <1>2, <1>3
<1>5. \A i \in DOMAIN events' : events'[i] = e \/ (i \in DOMAIN events /\ events'[i] = events[i])
  BY <1>1, <1>3
<1>6. \A i \in DOMAIN events' : events'[i].seq <= Len(log)
  BY <1>1, <1>5 DEF e, IInv, LogAgrees
<1> QED
  BY <1>4, <1>6, GoesIdle DEF ReportBlocker, Answer

LEMMA ReportFailsInv ==
  ASSUME IInv, NEW t \in Thread, ReportFails(t)
  PROVE  IInv'
  BY GoesIdle DEF ReportFails, AnswerError, IInv, TypeOK, LogAgrees

\* A restart: every thread is gone, the tables are what was committed.
LEMMA CrashInv ==
  ASSUME IInv, Crash
  PROVE  IInv'
<1>1. \A t \in Thread : th'[t] = Idle
  BY DEF Crash
<1>2. TypeOK'
  BY IdleType DEF IInv, TypeOK, Crash
<1>3. LogAgrees'
  BY DEF IInv, LogAgrees, Crash, MovesOf
<1>4. OneWriter' /\ AskedOnce' /\ CapAhead' /\ AddedIsLogged' /\ ToldIsAdded'
  BY <1>1, IdleType
     DEF IInv, OneWriter, AskedOnce, CapAhead, AddedIsLogged, ToldIsAdded, Crash
<1> QED
  BY <1>2, <1>3, <1>4 DEF IInv

LEMMA DeleteMatchInv ==
  ASSUME IInv, DeleteMatch
  PROVE  IInv'
<1>1. /\ row' = Gone /\ log' = <<>> /\ events' = <<>> /\ snaps' = {} /\ LockFree
      /\ UNCHANGED <<th, replay, asked, added, told>>
  BY DEF DeleteMatch
<1>2. TypeOK'
  BY <1>1, IdleType DEF IInv, TypeOK
<1>3. LogAgrees'
  BY <1>1, MovesOfEmpty DEF LogAgrees, Gone, NoState, State
<1>4. OneWriter' /\ AskedOnce' /\ CapAhead' /\ AddedIsLogged' /\ ToldIsAdded'
  BY <1>1 DEF IInv, OneWriter, AskedOnce, CapAhead, AddedIsLogged, ToldIsAdded, LockFree, Gone
<1> QED
  BY <1>2, <1>3, <1>4 DEF IInv

\* Pruning snapshots and exporting a match disturb no thread and no log.
LEMMA AsideInv ==
  ASSUME IInv, (\E n \in 1..Keep : PruneSnapshots(n)) \/ Export \/ UNCHANGED vars
  PROVE  IInv'
<1>1. UNCHANGED <<row, log, events, th, asked, added, told>>
  BY DEF PruneSnapshots, Export, ReadRow, ReadActions, CheckReplay, vars
<1>2. \A s \in snaps' : s \in snaps
  BY DEF PruneSnapshots, Export, ReadRow, ReadActions, CheckReplay, vars, Latest
<1>3. replay' \in [pc : {"idle", "row", "actions", "verified", "raised"},
                   expected : Seq(MoveType), actions : Seq(MoveType)]
  <2>1. replay \in [pc : {"idle", "row", "actions", "verified", "raised"},
                    expected : Seq(MoveType), actions : Seq(MoveType)]
    BY DEF IInv, TypeOK
  <2>2. row.state.moves \in Seq(MoveType) /\ MovesOf(log) \in Seq(MoveType)
    BY DEF IInv, TypeOK, LogAgrees, Rows, States
  <2>3. <<>> \in Seq(MoveType)
    BY EmptySeq
  <2>4. CASE replay' = replay
    BY <2>1, <2>4
  <2>5. CASE ReadRow
    BY <2>2, <2>3, <2>5 DEF ReadRow, NoReplay
  <2>6. CASE ReadActions
    BY <2>1, <2>2, <2>6 DEF ReadActions
  <2>7. CASE CheckReplay
    BY <2>1, <2>7 DEF CheckReplay
  <2> QED
    BY <2>4, <2>5, <2>6, <2>7 DEF PruneSnapshots, Export, vars
<1>4. TypeOK'
  BY <1>1, <1>2, <1>3 DEF IInv, TypeOK
<1>5. LogAgrees'
  BY <1>1 DEF IInv, LogAgrees, MovesOf
<1>6. OneWriter' /\ AskedOnce' /\ CapAhead' /\ AddedIsLogged' /\ ToldIsAdded'
  BY <1>1 DEF IInv, OneWriter, AskedOnce, CapAhead, AddedIsLogged, ToldIsAdded
<1> QED
  BY <1>4, <1>5, <1>6 DEF IInv

LEMMA StepInv == IInv /\ [Next]_vars => IInv'
<1> SUFFICES ASSUME IInv, [Next]_vars PROVE IInv'
  OBVIOUS
<1>1. CASE \E t \in Thread : ThreadStep(t)
  BY <1>1, BeginInv, CommitInv, RefuseInv, StopDrivingInv, ChooseAIActionInv,
     MeetBlockerInv, ReportBlockerInv, ReportFailsInv DEF ThreadStep
<1>2. CASE ClientStep
  BY <1>2, CreateMatchInv, ReceiveInv DEF ClientStep
<1>3. CASE Crash \/ CleanUp
  BY <1>3, CrashInv, DeleteMatchInv, AsideInv DEF CleanUp
<1>4. CASE Export \/ UNCHANGED vars
  BY <1>4, AsideInv
<1> QED
  BY <1>1, <1>2, <1>3, <1>4 DEF Next

LEMMA Inductive == Spec => []IInv
  BY InitInv, StepInv, PTL DEF Spec

\* The tables and the threads hold values of their columns and locals.
THEOREM StoreTypeCorrect == Spec => []TypeOK
<1>1. IInv => TypeOK
  BY DEF IInv
<1> QED
  BY <1>1, Inductive, PTL

\* State, action log and events agree in every state the database can be found
\* in, whatever crashed or timed out.
THEOREM LogAgreesHolds == Spec => []LogAgrees
<1>1. IInv => LogAgrees
  BY DEF IInv
<1> QED
  BY <1>1, Inductive, PTL

\* Retries apply an action once at most, and an acknowledged action is logged.
THEOREM AtMostOnceHolds == Spec => []AtMostOnce
<1>1. IInv => AtMostOnce
  <2> SUFFICES ASSUME IInv PROVE AtMostOnce
    OBVIOUS
  <2>1. ASSUME NEW i \in DOMAIN log, NEW j \in DOMAIN log,
               log[i].move.by = log[j].move.by, log[i].move.by \in Request
        PROVE  i = j
    <3>1. log[i].move.expected = log[j].move.expected
      BY <2>1 DEF IInv, AskedOnce
    <3>2. i - 1 = j - 1
      BY <3>1 DEF IInv, LogAgrees
    <3>3. i \in Nat /\ j \in Nat
      BY DEF IInv, TypeOK
    <3> QED
      BY <3>2, <3>3
  <2>2. row.life = "live" => \A q \in told : \E i \in DOMAIN log : log[i].move.by = q
    BY DEF IInv, AddedIsLogged, ToldIsAdded
  <2> QED
    BY <2>1, <2>2 DEF AtMostOnce
<1> QED
  BY <1>1, Inductive, PTL

-----------------------------------------------------------------------------
(***************************************************************************)
(* The store implements MatchLog.                                          *)
(***************************************************************************)

\* Ending a thread tells a client of an added request, or nobody.
LEMMA AnswerTells ==
  ASSUME IInv, NEW t \in Thread, th[t].pc \in {"drive", "report"},
         Answer(t), UNCHANGED <<row, log, added>>
  PROVE  (\E q \in Request : Abstract!Tell(q)) \/ UNCHANGED Abstract!vars
<1>1. MovesOf(log)' = MovesOf(log)
  BY DEF MovesOf
<1>2. CASE told' = told
  BY <1>1, <1>2 DEF Abstract!vars
<1>3. CASE told' # told
  <2>1. told' = told \cup ({th[t].req} \cap Request)
    BY <1>3 DEF Answer
  <2>2. th[t].req \in Request /\ told' = told \cup {th[t].req}
    BY <1>3, <2>1
  <2>3. th[t].req \in added
    BY <2>2 DEF IInv, ToldIsAdded
  <2>4. Abstract!Tell(th[t].req)
    BY <1>1, <2>2, <2>3 DEF Abstract!Tell
  <2> QED
    BY <2>2, <2>4
<1> QED
  BY <1>2, <1>3

LEMMA CommitAdds ==
  ASSUME IInv, NEW t \in Thread, Commit(t)
  PROVE  Abstract!Add(th[t].move.by) /\ th[t].move.by \in Mover
<1> DEFINE m == th[t].move
           e == [move |-> m, result |-> Len(log) + 1]
<1>1. /\ row.life = "live" /\ row'.life = "live"
      /\ m \in MoveType /\ m.expected = Len(log) /\ e \in Entry
      /\ log \in Seq(Entry) /\ log' = Append(log, e) /\ m.by \notin added
  BY CommitStep
<1>2. Len(MovesOf(log)) = Len(log) /\ MovesOf(Append(log, e)) = Append(MovesOf(log), m)
  BY <1>1, MovesOfAppend
<1>3. m = [by |-> m.by, expected |-> Len(MovesOf(log))]
  BY <1>1, <1>2 DEF MoveType
<1>4. MovesOf(log') = Append(MovesOf(log), [by |-> m.by, expected |-> Len(MovesOf(log))])
  BY <1>1, <1>2, <1>3
<1>5. m.by \in Mover
  BY <1>1 DEF MoveType
<1> QED
  BY <1>1, <1>4, <1>5 DEF Abstract!Add, Commit

LEMMA StepSimulated ==
  IInv /\ [Next]_vars => [Abstract!Next]_(Abstract!vars)
<1> SUFFICES ASSUME IInv, [Next]_vars
             PROVE  Abstract!Next \/ UNCHANGED Abstract!vars
  OBVIOUS
<1>1. ASSUME UNCHANGED <<row, log, added, told>>
      PROVE  UNCHANGED Abstract!vars
  BY <1>1 DEF Abstract!vars, MovesOf
<1>2. ASSUME NEW t \in Thread, ThreadStep(t)
      PROVE  Abstract!Next \/ UNCHANGED Abstract!vars
  <2>1. CASE Commit(t)
    BY <2>1, CommitAdds DEF Abstract!Next, Mover
  <2>2. CASE StopDriving(t) \/ ReportBlocker(t)
    BY <2>2, AnswerTells DEF Abstract!Next, StopDriving, ReportBlocker
  <2>3. CASE Refuse(t) \/ ApplyTimesOut(t)
    BY <1>1, <2>3 DEF Refuse, ApplyTimesOut, ApplyFails, AnswerError
  <2>4. CASE Begin(t) \/ ChooseAIAction(t) \/ MeetBlocker(t) \/ ReportFails(t)
    BY <1>1, <2>4 DEF Begin, ChooseAIAction, MeetBlocker, ReportFails, AnswerError
  <2> QED
    BY <1>2, <2>1, <2>2, <2>3, <2>4 DEF ThreadStep
<1>3. CASE ClientStep
  <2>1. UNCHANGED <<log, added, told>> /\ (row'.life = "deleted" <=> row.life = "deleted")
    <3>1. CASE \E t \in Thread : CreateMatch(t)
      <4>1. row.life = "absent" /\ row'.life = "live" /\ UNCHANGED <<log, added, told>>
        BY <3>1 DEF CreateMatch
      <4> QED
        BY <4>1
    <3>2. CASE \E t \in Thread, q \in Request : Receive(t, q)
      BY <3>2 DEF Receive
    <3> QED
      BY <1>3, <3>1, <3>2 DEF ClientStep
  <2> QED
    BY <2>1 DEF Abstract!vars, MovesOf
<1>4. CASE Crash \/ Export \/ UNCHANGED vars
  BY <1>1, <1>4 DEF Crash, Export, ReadRow, ReadActions, CheckReplay, vars
<1>5. CASE CleanUp
  <2>1. CASE DeleteMatch
    BY <2>1, MovesOfEmpty DEF DeleteMatch, Gone, Abstract!Next, Abstract!Close
  <2> QED
    BY <1>1, <1>5, <2>1 DEF CleanUp, PruneSnapshots
<1> QED
  BY <1>2, <1>3, <1>4, <1>5 DEF Next

\* What clients, crashes, the AI loop and clean-ups do to a match is a history
\* of one ordered log: moves are added one at a time, each on the state its
\* sender had seen, and none twice for a request.
THEOREM StoreImplementsLog == Spec => Linear
<1>1. Init => Abstract!Init
  BY MovesOfEmpty DEF Init, NoRow, Abstract!Init
<1>2. IInv /\ [Next]_vars => [Abstract!Next]_(Abstract!vars)
  BY StepSimulated
<1> QED
  BY <1>1, <1>2, Inductive, PTL DEF Spec, Linear, Abstract!Spec
-----------------------------------------------------------------------------
(***************************************************************************)
(* The snapshots.                                                          *)
(***************************************************************************)

\* From each snapshot on there is one of every revision up to n.
NoGap(S, n) ==
    \A s \in S : /\ s.revision \in 0..n
                 /\ \A r \in s.revision..n : \E u \in S : u.revision = r

\* Pruning takes the oldest ones: what is kept has no gap, and the snapshot of
\* the highest revision stays.
LEMMA PrunedNoGap ==
  ASSUME NEW S, IsFiniteSet(S), NEW n \in Nat, NoGap(S, n), NEW k \in Nat \ {0}
  PROVE  /\ Latest(S, k) \subseteq S /\ IsFiniteSet(Latest(S, k))
         /\ NoGap(Latest(S, k), n)
         /\ \A s \in S : s.revision = n => s \in Latest(S, k)
<1> DEFINE Newer(s) == {r \in S : r.revision > s.revision}
<1>1. Latest(S, k) \subseteq S /\ IsFiniteSet(Latest(S, k))
  BY FS_Subset DEF Latest
<1>2. \A s \in S : IsFiniteSet(Newer(s)) /\ Cardinality(Newer(s)) \in Nat
  BY FS_Subset, FS_CardinalityType
<1>3. ASSUME NEW s \in Latest(S, k), NEW r \in s.revision..n
      PROVE  \E u \in Latest(S, k) : u.revision = r
  <2>1. s \in S /\ Cardinality(Newer(s)) < k
    BY DEF Latest
  <2>2. PICK u \in S : u.revision = r
    BY <1>3, <2>1 DEF NoGap
  <2>3. Newer(u) \subseteq Newer(s)
    BY <1>3, <2>1, <2>2 DEF NoGap
  <2>4. Cardinality(Newer(u)) <= Cardinality(Newer(s))
    BY <1>2, <2>1, <2>3, FS_Subset
  <2>5. Cardinality(Newer(u)) < k
    BY <1>2, <2>1, <2>2, <2>4
  <2> QED
    BY <2>2, <2>5 DEF Latest
<1>4. ASSUME NEW s \in S, s.revision = n
      PROVE  s \in Latest(S, k)
  <2>1. Newer(s) = {}
    BY <1>4 DEF NoGap
  <2>2. Cardinality(Newer(s)) < k
    BY <2>1, FS_EmptySet
  <2> QED
    BY <2>2 DEF Latest
<1>5. NoGap(Latest(S, k), n)
  BY <1>1, <1>3 DEF NoGap
<1> QED
  BY <1>1, <1>4, <1>5

\* A sequence begins as before when an element is added at its end.
LEMMA BeginsAsBefore ==
  ASSUME NEW m \in Seq(MoveType), NEW x \in MoveType, NEW k \in 0..Len(m)
  PROVE  SubSeq(Append(m, x), 1, k) = SubSeq(m, 1, k)
<1>1. Append(m, x) \in Seq(MoveType) /\ k \in 0..Len(Append(m, x))
  OBVIOUS
<1>2. SubSeq(Append(m, x), 1, k) = Restrict(Append(m, x), 1..k)
  BY <1>1, SubSeqRestrict
<1>3. SubSeq(m, 1, k) = Restrict(m, 1..k)
  BY SubSeqRestrict
<1>4. \A i \in 1..k : Append(m, x)[i] = m[i]
  OBVIOUS
<1> QED
  BY <1>2, <1>3, <1>4 DEF Restrict

SnapInv == SnapshotsAgree /\ IsFiniteSet(snaps)

LEMMA SnapNoGap == IInv /\ SnapInv => NoGap(snaps, Len(log)) /\ Len(log) \in Nat
  BY DEF IInv, TypeOK, SnapInv, SnapshotsAgree, NoGap

LEMMA CommitSnap ==
  ASSUME IInv, SnapInv, NEW t \in Thread, Commit(t)
  PROVE  SnapInv'
<1> DEFINE m == th[t].move
           e == [move |-> m, result |-> Len(log) + 1]
           n == Len(log)
           new == [revision |-> n + 1, moves |-> row'.state.moves]
           S == snaps \cup {new}
<1>1. /\ row'.life = "live" /\ m \in MoveType /\ e \in Entry
      /\ log \in Seq(Entry) /\ log' = Append(log, e)
      /\ row'.state.moves = Append(MovesOf(log), m)
  BY CommitStep
<1>2. n \in Nat /\ Len(log') = n + 1 /\ MovesOf(log) \in Seq(MoveType)
      /\ Len(MovesOf(log)) = n /\ MovesOf(log') = Append(MovesOf(log), m)
  BY <1>1, MovesOfAppend
<1>3. MovesOf(log') \in Seq(MoveType) /\ Len(MovesOf(log')) = n + 1
  <2>1. \A s \in Seq(MoveType), x \in MoveType :
           Append(s, x) \in Seq(MoveType) /\ Len(Append(s, x)) = Len(s) + 1
    OBVIOUS
  <2> QED
    BY <1>1, <1>2, <2>1
<1>4. snaps' = Latest(S, Keep)
  <2>1. MovesOf(log) = row.state.moves /\ th[t].read = row /\ row.life = "live"
    BY DEF Commit, IInv, LogAgrees, OneWriter
  <2>2. PICK to : /\ row' = [row EXCEPT !.state = State(Append(row.state.moves, m), to)]
                  /\ snaps' = Latest(snaps \cup {[revision |-> Len(Append(row.state.moves, m)),
                                                  moves |-> Append(row.state.moves, m)]}, Keep)
    BY <2>1 DEF Commit
  <2>3. Append(row.state.moves, m) = row'.state.moves /\ Len(row'.state.moves) = n + 1
    BY <1>1, <1>2, <1>3, <2>1
  <2> QED
    BY <2>2, <2>3
<1>5. NoGap(snaps, n) /\ IsFiniteSet(snaps)
  BY SnapNoGap DEF SnapInv
<1>6. IsFiniteSet(S)
  BY <1>5, FS_AddElement
<1>7. new \in S /\ new.revision = n + 1 /\ new.moves = MovesOf(log')
  BY <1>1, <1>2
<1>8. \E s \in snaps : s.revision = n
  BY DEF SnapInv, SnapshotsAgree, Commit, IInv, OneWriter
<1>9. NoGap(S, n + 1)
  <2>1. ASSUME NEW s \in S
        PROVE  s.revision \in 0..(n + 1)
    BY <1>2, <1>5, <1>7 DEF NoGap
  <2>2. ASSUME NEW s \in S, NEW r \in s.revision..(n + 1)
        PROVE  \E u \in S : u.revision = r
    <3>1. CASE r = n + 1
      BY <1>7, <3>1
    <3>2. CASE r # n + 1
      <4>1. s \in snaps /\ r \in s.revision..n
        BY <1>2, <1>7, <2>1, <2>2, <3>2
      <4> QED
        BY <1>5, <4>1 DEF NoGap
    <3> QED
      BY <3>1, <3>2
  <2> QED
    BY <2>1, <2>2 DEF NoGap
<1>10. \A s \in S : s.moves = SubSeq(MovesOf(log'), 1, s.revision)
  <2>1. ASSUME NEW s \in snaps
        PROVE  s.moves = SubSeq(MovesOf(log'), 1, s.revision)
    <3>1. s.moves = SubSeq(MovesOf(log), 1, s.revision) /\ s.revision \in 0..n
      BY <1>5 DEF SnapInv, SnapshotsAgree, NoGap
    <3> QED
      BY <1>1, <1>2, <3>1, BeginsAsBefore
  <2>2. new.moves = SubSeq(MovesOf(log'), 1, new.revision)
    BY <1>3, <1>7, SubSeqFull
  <2> QED
    BY <2>1, <2>2
<1> HIDE DEF new, S
<1>11. /\ snaps' \subseteq S /\ IsFiniteSet(snaps') /\ NoGap(snaps', n + 1) /\ new \in snaps'
  BY <1>2, <1>4, <1>6, <1>7, <1>9, PrunedNoGap, ParametersAssumption
<1> QED
  BY <1>2, <1>7, <1>10, <1>11 DEF SnapInv, SnapshotsAgree, NoGap

LEMMA PruneSnap ==
  ASSUME IInv, SnapInv, NEW n \in 1..Keep, PruneSnapshots(n)
  PROVE  SnapInv'
<1>1. snaps' = Latest(snaps, n) /\ UNCHANGED <<row, log>> /\ n \in Nat \ {0}
  BY ParametersAssumption DEF PruneSnapshots
<1>2. /\ snaps' \subseteq snaps /\ IsFiniteSet(snaps') /\ NoGap(snaps', Len(log))
      /\ \A s \in snaps : s.revision = Len(log) => s \in snaps'
  BY <1>1, SnapNoGap, PrunedNoGap DEF SnapInv
<1> QED
  BY <1>1, <1>2 DEF SnapInv, SnapshotsAgree, NoGap, MovesOf

LEMMA SnapStep ==
  ASSUME IInv, SnapInv, [Next]_vars
  PROVE  SnapInv'
<1>1. ASSUME UNCHANGED <<row, log, snaps>>
      PROVE  SnapInv'
  BY <1>1 DEF SnapInv, SnapshotsAgree, MovesOf
<1>2. ASSUME NEW t \in Thread, CreateMatch(t)
      PROVE  SnapInv'
  <2>1. log = <<>> /\ log' = <<>> /\ Len(log') = 0
    BY <1>2 DEF CreateMatch, IInv, AddedIsLogged
  <2>2. snaps' = {[revision |-> 0, moves |-> <<>>]}
    BY <1>2 DEF CreateMatch
  <2>3. IsFiniteSet(snaps')
    BY <2>2, FS_Singleton
  <2>4. SubSeq(MovesOf(log'), 1, 0) = <<>>
    BY SubSeqEmpty
  <2> QED
    BY <2>1, <2>2, <2>3, <2>4 DEF SnapInv, SnapshotsAgree
<1>3. CASE \E t \in Thread : ThreadStep(t)
  BY <1>1, <1>3, CommitSnap
     DEF ThreadStep, Begin, Refuse, ApplyTimesOut, StopDriving, ChooseAIAction, MeetBlocker,
         ReportBlocker, ReportFails
<1>4. CASE ClientStep
  BY <1>1, <1>2, <1>4 DEF ClientStep, Receive
<1>5. CASE DeleteMatch
  BY <1>5, FS_EmptySet DEF DeleteMatch, SnapInv, SnapshotsAgree, Gone
<1>6. CASE CleanUp
  BY <1>5, <1>6, PruneSnap DEF CleanUp
<1>7. CASE Crash \/ Export \/ UNCHANGED vars
  BY <1>1, <1>7 DEF Crash, Export, ReadRow, ReadActions, CheckReplay, vars
<1> QED
  BY <1>3, <1>4, <1>6, <1>7 DEF Next

\* Snapshots are the states after the latest actions without a gap, the current
\* state among them, whatever was pruned with whichever limit.
THEOREM SnapshotsAgreeHolds == Spec => []SnapshotsAgree
<1>1. Init => SnapInv
  BY FS_EmptySet DEF Init, NoRow, SnapInv, SnapshotsAgree
<1>2. IInv /\ SnapInv /\ [Next]_vars => SnapInv'
  BY SnapStep
<1>3. SnapInv => SnapshotsAgree
  BY DEF SnapInv
<1> QED
  BY <1>1, <1>2, <1>3, Inductive, PTL DEF Spec
-----------------------------------------------------------------------------
(***************************************************************************)
(* The AI's turn.                                                          *)
(***************************************************************************)

\* The thread is in advance_ai, with a state it has got from a transaction.
InLoop(r) == \/ r.pc \in {"drive", "report"}
             \/ r.pc \in {"apply", "inside"} /\ r.move.by = AI

\* That state was the current one once; if no move was added since, it still is.
Seen(r, cur) ==
    /\ cur.life # "absent" /\ Revision(r.got) # 0
    /\ cur.life = "live" => \/ Revision(r.got) < Revision(cur.state)
                            \/ r.got = cur.state
    /\ r.pc \in {"apply", "inside"} => r.move.expected = Revision(r.got)

\* The thread has the turn in its hands: it has the current state, or is about
\* to make the move that the current state waits for.
Holds(r, n) ==
    \/ r.pc \in {"drive", "report"} /\ Revision(r.got) = n
    \/ r.pc \in {"apply", "inside"} /\ r.move.by \in {AI, Opening} /\ r.move.expected = n

StateInHand == \A t \in Thread : InLoop(th[t]) => Seen(th[t], row)
\* Nobody waits for an AI that has no seat.
SeatsKept == row.state.to = "ai" => AISeats # "none"
Reported == \E i \in DOMAIN events :
               events[i].blocked = Revision(row.state) /\ events[i].blocked # 0
InHand == AITurn => (\E t \in Thread : Holds(th[t], Revision(row.state))) \/ Reported

TurnInv == StateInHand /\ SeatsKept /\ InHand

LEMMA InHandIsNotForgotten == InHand <=> NotForgotten
  BY DEF InHand, NotForgotten, Holds, Reported

\* Only one thread moves, the others keep what they have in hand.
LEMMA OneMoves ==
  ASSUME TurnInv, NEW t \in Thread, NEW r, th \in [Thread -> ThreadType],
         th' = [th EXCEPT ![t] = r], UNCHANGED row,
         InLoop(r) => Seen(r, row),
         Reported => Reported',
         AITurn /\ Holds(th[t], Revision(row.state)) =>
            Holds(r, Revision(row.state)) \/ Reported'
  PROVE  TurnInv'
<1>1. \A u \in Thread : th'[u] = IF u = t THEN r ELSE th[u]
  OBVIOUS
<1>2. StateInHand'
  BY <1>1 DEF TurnInv, StateInHand
<1>3. SeatsKept'
  BY DEF TurnInv, SeatsKept
<1>4. InHand'
  <2> SUFFICES ASSUME AITurn, ~Reported'
               PROVE  \E u \in Thread : Holds(th'[u], Revision(row.state))
    BY DEF InHand, AITurn
  <2>1. PICK u \in Thread : Holds(th[u], Revision(row.state))
    BY DEF TurnInv, InHand
  <2>2. Holds(th'[u], Revision(row.state))
    BY <1>1, <2>1
  <2> QED
    BY <2>2
<1> QED
  BY <1>2, <1>3, <1>4 DEF TurnInv

LEMMA LengthOfState ==
  ASSUME NEW s \in States
  PROVE  Revision(s) \in Nat
<1>1. s.moves \in Seq(MoveType)
  BY DEF States
<1> QED
  BY <1>1 DEF Revision

LEMMA BeginTurn ==
  ASSUME IInv, TurnInv, NEW t \in Thread, Begin(t)
  PROVE  TurnInv'
<1> DEFINE r == [th[t] EXCEPT !.pc = "inside", !.read = row]
<1>1. th \in [Thread -> ThreadType]
  BY DEF IInv, TypeOK, ThreadType
<1>2. th' = [th EXCEPT ![t] = r] /\ th[t].pc = "apply" /\ UNCHANGED <<row, events>>
  BY <1>1 DEF Begin, ThreadType
<1>3. r.pc = "inside" /\ r.move = th[t].move /\ r.got = th[t].got
  BY <1>1 DEF ThreadType
<1> HIDE DEF r
<1>4. InLoop(r) => Seen(r, row)
  BY <1>2, <1>3 DEF TurnInv, StateInHand, InLoop, Seen
<1>5. \A n : Holds(th[t], n) => Holds(r, n)
  BY <1>2, <1>3 DEF Holds
<1> QED
  BY <1>1, <1>2, <1>4, <1>5, OneMoves DEF Reported

LEMMA ChooseTurn ==
  ASSUME IInv, TurnInv, NEW t \in Thread, ChooseAIAction(t)
  PROVE  TurnInv'
<1> DEFINE m == Move(AI, Revision(th[t].got))
           r == [th[t] EXCEPT !.pc = "apply", !.move = m]
<1>1. th \in [Thread -> ThreadType]
  BY DEF IInv, TypeOK, ThreadType
<1>2. th' = [th EXCEPT ![t] = r] /\ th[t].pc = "drive" /\ UNCHANGED <<row, events>>
  BY <1>1 DEF ChooseAIAction, ThreadType
<1>3. r.pc = "apply" /\ r.move = m /\ r.got = th[t].got
  BY <1>1 DEF ThreadType
<1>4. m.by = AI /\ m.expected = Revision(th[t].got)
  BY DEF Move
<1> HIDE DEF r, m
<1>5. InLoop(r) => Seen(r, row)
  BY <1>2, <1>3, <1>4 DEF TurnInv, StateInHand, InLoop, Seen
<1>6. \A n : Holds(th[t], n) => Holds(r, n)
  BY <1>2, <1>3, <1>4 DEF Holds
<1> QED
  BY <1>1, <1>2, <1>5, <1>6, OneMoves DEF Reported

\* A thread that turns to reporting a blocker still has the state in hand.
LEMMA ToReport ==
  ASSUME IInv, TurnInv, NEW t \in Thread, NEW r \in ThreadType,
         th' = [th EXCEPT ![t] = r], UNCHANGED <<row, events>>,
         InLoop(th[t]), r.pc = "report", r.got = th[t].got
  PROVE  TurnInv'
<1>1. th \in [Thread -> ThreadType]
  BY DEF IInv, TypeOK, ThreadType
<1>2. Seen(r, row)
  BY DEF TurnInv, StateInHand, Seen
<1>3. \A n : Holds(th[t], n) => Holds(r, n)
  BY NamesAssumption DEF TurnInv, StateInHand, InLoop, Seen, Holds
<1> QED
  BY <1>1, <1>2, <1>3, OneMoves DEF Reported

LEMMA MeetBlockerTurn ==
  ASSUME IInv, TurnInv, NEW t \in Thread, MeetBlocker(t)
  PROVE  TurnInv'
<1> DEFINE r == [th[t] EXCEPT !.pc = "report"]
<1>1. th[t] \in ThreadType
  BY DEF IInv, TypeOK, ThreadType
<1>2. /\ r \in ThreadType /\ th' = [th EXCEPT ![t] = r] /\ th[t].pc = "drive"
      /\ UNCHANGED <<row, events>>
  BY <1>1 DEF MeetBlocker, ThreadType, IInv, TypeOK
<1>3. r.pc = "report" /\ r.got = th[t].got
  BY <1>1 DEF ThreadType
<1> HIDE DEF r
<1> QED
  BY <1>2, <1>3, ToReport DEF InLoop

\* A thread that ends had not the turn in its hands, or has reported it.
LEMMA EndsTurn ==
  ASSUME IInv, TurnInv, NEW t \in Thread,
         th' = [th EXCEPT ![t] = Idle], UNCHANGED row,
         Reported => Reported',
         AITurn => ~Holds(th[t], Revision(row.state)) \/ Reported'
  PROVE  TurnInv'
<1>1. th \in [Thread -> ThreadType]
  BY DEF IInv, TypeOK, ThreadType
<1>2. ~InLoop(Idle)
  BY IdleType DEF InLoop
<1> QED
  BY <1>1, <1>2, OneMoves

LEMMA StopDrivingTurn ==
  ASSUME IInv, TurnInv, NEW t \in Thread, StopDriving(t)
  PROVE  TurnInv'
<1>1. /\ th[t].pc = "drive" /\ th' = [th EXCEPT ![t] = Idle] /\ UNCHANGED <<row, events>>
      /\ AISeats = "none" \/ ~AIMoves(th[t].got, th[t].steps)
  BY DEF StopDriving, Answer
<1>2. ASSUME AITurn, Revision(th[t].got) = Revision(row.state)
      PROVE  FALSE
  <2>1. row.life = "live" /\ AISeats # "none"
    BY <1>2 DEF AITurn, TurnInv, SeatsKept
  <2>2. row \in Rows
    BY DEF IInv, TypeOK
  <2>3. Revision(row.state) \in Nat
    BY <2>2, LengthOfState DEF Rows
  <2>4. th[t].got = row.state
    BY <1>1, <1>2, <2>1, <2>3 DEF TurnInv, StateInHand, InLoop, Seen
  <2> QED
    BY <1>1, <1>2, <2>1, <2>4 DEF AITurn, AIMoves
<1>3. AITurn => ~Holds(th[t], Revision(row.state))
  BY <1>1, <1>2 DEF Holds
<1> QED
  BY <1>1, <1>3, EndsTurn DEF Reported

LEMMA ReportBlockerTurn ==
  ASSUME IInv, TurnInv, NEW t \in Thread, ReportBlocker(t)
  PROVE  TurnInv'
<1> DEFINE e == [seq |-> Len(log), blocked |-> Revision(th[t].got)]
<1>1. /\ th[t].pc = "report" /\ th' = [th EXCEPT ![t] = Idle] /\ UNCHANGED row
      /\ events' = Append(events, e)
  BY DEF ReportBlocker, Answer
<1>2. events \in Seq([seq : Nat, blocked : Nat])
  BY DEF IInv, TypeOK
<1>3. e.blocked = Revision(th[t].got)
  OBVIOUS
<1> HIDE DEF e
<1>4. /\ \A i \in DOMAIN events : i \in DOMAIN events' /\ events'[i] = events[i]
      /\ \E i \in DOMAIN events' : events'[i] = e
  BY <1>1, <1>2
<1>5. Revision(th[t].got) # 0
  BY <1>1 DEF TurnInv, StateInHand, InLoop, Seen
<1>6. Reported => Reported'
  BY <1>1, <1>4 DEF Reported
<1>7. Holds(th[t], Revision(row.state)) => Reported'
  BY <1>1, <1>3, <1>4, <1>5 DEF Holds, Reported
<1> QED
  BY <1>1, <1>6, <1>7, EndsTurn

LEMMA ReportFailsTurn ==
  ASSUME IInv, TurnInv, "busy" \notin Faults, NEW t \in Thread, ReportFails(t)
  PROVE  TurnInv'
  BY EndsTurn DEF ReportFails, AnswerError, AITurn, Reported

\* The AI's move is refused when it was overtaken; the thread that opens the
\* match is never refused, for nobody can move before it.
LEMMA RefuseTurn ==
  ASSUME IInv, TurnInv, NEW t \in Thread, Refuse(t)
  PROVE  TurnInv'
<1>1. th[t].pc = "inside" /\ th[t].read = row /\ UNCHANGED <<row, events>>
  BY DEF Refuse, IInv, OneWriter
<1>2. CASE th[t].move.by = AI
  <2> DEFINE r == [th[t] EXCEPT !.pc = "report", !.read = NoRow]
  <2>1. th[t] \in ThreadType
    BY DEF IInv, TypeOK, ThreadType
  <2>2. r \in ThreadType /\ th' = [th EXCEPT ![t] = r]
    BY <1>2, <2>1, IdleType DEF Refuse, ApplyFails, ThreadType, IInv, TypeOK
  <2>3. r.pc = "report" /\ r.got = th[t].got
    BY <2>1 DEF ThreadType
  <2> HIDE DEF r
  <2> QED
    BY <1>1, <1>2, <2>2, <2>3, ToReport DEF InLoop
<1>3. CASE th[t].move.by # AI
  <2>1. th' = [th EXCEPT ![t] = Idle]
    BY <1>3 DEF Refuse, ApplyFails, AnswerError
  <2>2. ASSUME AITurn, Holds(th[t], Revision(row.state))
        PROVE  FALSE
    <3>1. th[t].move.by = Opening /\ Accepts(row.state, th[t].move) /\ row.life = "live"
      BY <1>1, <1>3, <2>2 DEF Holds, Accepts, AITurn
    <3> QED
      BY <1>1, <3>1 DEF Refuse
  <2> QED
    BY <1>1, <2>1, <2>2, EndsTurn DEF Reported
<1> QED
  BY <1>2, <1>3

\* Whoever commits a move has the new state in hand.
LEMMA CommitTurn ==
  ASSUME IInv, TurnInv, NEW t \in Thread, Commit(t)
  PROVE  TurnInv'
<1> DEFINE r == AfterCommit(t, row'.state)
           m == th[t].move
<1>1. /\ row.life = "live" /\ row'.life = "live" /\ m \in MoveType
      /\ log \in Seq(Entry) /\ MovesOf(log) = row.state.moves
      /\ row'.state.moves = Append(MovesOf(log), m) /\ row' \in Rows
      /\ th' = [th EXCEPT ![t] = r]
  BY CommitStep
<1>2. th \in [Thread -> ThreadType] /\ row \in Rows
  BY DEF IInv, TypeOK, ThreadType
<1>3. r.pc = "drive" /\ r.got = row'.state
  BY <1>2 DEF AfterCommit, ThreadType
<1> HIDE DEF r
<1>4. Revision(row'.state) = Revision(row.state) + 1 /\ Revision(row.state) \in Nat
  <2>1. row.state.moves \in Seq(MoveType)
    BY <1>2 DEF Rows, States
  <2> QED
    BY <1>1, <2>1 DEF Revision
<1>5. \A u \in Thread : th'[u] = IF u = t THEN r ELSE th[u]
  BY <1>1, <1>2
<1>6. StateInHand'
  <2>1. Seen(r, row')
    BY <1>1, <1>3, <1>4 DEF Seen
  <2>2. ASSUME NEW u \in Thread, InLoop(th[u])
        PROVE  Seen(th[u], row')
    <3>1. Seen(th[u], row)
      BY <2>2 DEF TurnInv, StateInHand
    <3>2. Revision(th[u].got) \in Nat
      BY <1>2, LengthOfState DEF ThreadType
    <3> QED
      BY <1>1, <1>4, <3>1, <3>2 DEF Seen
  <2> QED
    BY <1>5, <2>1, <2>2 DEF StateInHand
<1>7. SeatsKept'
  <2>1. PICK to \in MoversAfter(Len(Append(th[t].read.state.moves, m))) :
           row' = [row EXCEPT !.state = State(Append(th[t].read.state.moves, m), to)]
    BY DEF Commit
  <2>2. row'.state.to = to
    BY <1>2, <2>1 DEF Rows, State
  <2>3. to = "ai" => AISeats # "none"
    BY <2>1 DEF MoversAfter, NextMovers
  <2> QED
    BY <2>2, <2>3 DEF SeatsKept
<1>8. InHand'
  <2>1. Holds(r, Revision(row'.state))
    BY <1>3 DEF Holds
  <2> QED
    BY <1>5, <2>1 DEF InHand
<1> QED
  BY <1>6, <1>7, <1>8 DEF TurnInv

LEMMA CreateMatchTurn ==
  ASSUME IInv, TurnInv, NEW t \in Thread, CreateMatch(t)
  PROVE  TurnInv'
<1> DEFINE r == [Idle EXCEPT !.pc = "apply", !.move = Move(Opening, 0)]
<1>1. /\ th[t].pc = "idle" /\ row.life = "absent" /\ th' = [th EXCEPT ![t] = r]
      /\ row'.life = "live" /\ row'.state = NoState /\ UNCHANGED events
  BY DEF CreateMatch
<1>2. r.pc = "apply" /\ r.move.by = Opening /\ r.move.expected = 0
  BY DEF Idle, Move
<1> HIDE DEF r
<1>3. \A u \in Thread : th'[u] = IF u = t THEN r ELSE th[u]
  BY <1>1 DEF IInv, TypeOK
<1>4. StateInHand'
  BY <1>1, <1>2, <1>3, NamesAssumption DEF TurnInv, StateInHand, InLoop, Seen
<1>5. SeatsKept'
  BY <1>1 DEF SeatsKept, NoState, State
<1>6. Revision(row'.state) = 0
  BY <1>1 DEF NoState, State, Revision
<1>7. InHand'
  BY <1>2, <1>3, <1>6 DEF InHand, Holds
<1> QED
  BY <1>4, <1>5, <1>7 DEF TurnInv

LEMMA ReceiveTurn ==
  ASSUME IInv, TurnInv, NEW t \in Thread, NEW q \in Request, Receive(t, q)
  PROVE  TurnInv'
<1>1. PICK n \in 1..MaxMoves :
         th' = [th EXCEPT ![t] = [Idle EXCEPT !.pc = "apply", !.req = q, !.move = Move(q, n)]]
  BY DEF Receive
<1> DEFINE r == [Idle EXCEPT !.pc = "apply", !.req = q, !.move = Move(q, n)]
<1>2. r.pc = "apply" /\ r.move.by = q
  BY DEF Idle, Move
<1>3. th' = [th EXCEPT ![t] = r] /\ th[t].pc = "idle" /\ UNCHANGED <<row, events>>
  BY <1>1 DEF Receive
<1> HIDE DEF r
<1>4. ~InLoop(r)
  BY <1>2, NamesAssumption DEF InLoop
<1>5. \A k : ~Holds(th[t], k)
  BY <1>3 DEF Holds
<1>6. th \in [Thread -> ThreadType]
  BY DEF IInv, TypeOK, ThreadType
<1> QED
  BY <1>3, <1>4, <1>5, <1>6, OneMoves DEF Reported

LEMMA TurnStep ==
  ASSUME IInv, TurnInv, [Next]_vars, Faults \cap {"crash", "busy"} = {}
  PROVE  TurnInv'
<1>1. ASSUME UNCHANGED <<row, events, th>>
      PROVE  TurnInv'
  BY <1>1 DEF TurnInv, StateInHand, SeatsKept, InHand, Reported, AITurn
<1>2. CASE \E t \in Thread : ThreadStep(t)
  BY <1>2, BeginTurn, CommitTurn, RefuseTurn, StopDrivingTurn, ChooseTurn, MeetBlockerTurn,
     ReportBlockerTurn, ReportFailsTurn DEF ThreadStep, ApplyTimesOut
<1>3. CASE ClientStep
  BY <1>3, CreateMatchTurn, ReceiveTurn DEF ClientStep
<1>4. CASE DeleteMatch
  <2>1. row' = Gone /\ th' = th /\ row.life = "live"
    BY <1>4 DEF DeleteMatch
  <2> QED
    BY <2>1 DEF TurnInv, StateInHand, SeatsKept, InHand, AITurn, Seen, Gone, NoState, State
<1>5. CASE CleanUp
  BY <1>1, <1>4, <1>5 DEF CleanUp, PruneSnapshots
<1>6. CASE Crash
  BY <1>6 DEF Crash
<1>7. CASE Export \/ UNCHANGED vars
  BY <1>1, <1>7 DEF Export, ReadRow, ReadActions, CheckReplay, vars
<1> QED
  BY <1>2, <1>3, <1>5, <1>6, <1>7 DEF Next

\* Threads that overtake each other never drop the turn of the AI: while it is the
\* AI's turn some thread has the current state in hand, or a blocker is
\* reported.  After a crash, or when the lock times out while a blocker is to
\* be written, the turn is nobody's: advance_ai keeps no record of its loop.
THEOREM NotForgottenHolds ==
  ASSUME Faults \cap {"crash", "busy"} = {}
  PROVE  Spec => []NotForgotten
<1>1. Init => TurnInv
  BY IdleType
     DEF Init, NoRow, TurnInv, StateInHand, SeatsKept, InHand, AITurn, InLoop, NoState, State
<1>2. IInv /\ TurnInv /\ [Next]_vars => TurnInv'
  BY TurnStep
<1>3. TurnInv => NotForgotten
  BY InHandIsNotForgotten DEF TurnInv
<1> QED
  BY <1>1, <1>2, <1>3, Inductive, PTL DEF Spec
=============================================================================
