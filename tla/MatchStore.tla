------------------------------ MODULE MatchStore ------------------------------
(***************************************************************************)
(* One match in the runtime database (runtime.py), the threads of the      *)
(* server that serve requests about it (service.py), and the clients.      *)
(*                                                                         *)
(* A request is served in several transactions: the client's action, then  *)
(* one for each action of the AI, then perhaps one for a blocker event.    *)
(* SQLite lets one writer in at a time (BEGIN IMMEDIATE); between its two  *)
(* steps, reading the row and committing, other threads only wait, time    *)
(* out, or read.  A crash loses the threads and keeps what is committed.   *)
(*                                                                         *)
(* A state of the game is the moves that led to it, since apply_action is  *)
(* deterministic, and who may move next, which is all the service looks at.*)
(***************************************************************************)
EXTENDS Naturals, FiniteSets, Sequences

CONSTANTS
    Thread,         \* the threads of the server
    Request,        \* the actions the clients submit
    AI, Opening,    \* who moves besides: the AI, and create_match
    NoRequest,
    AISeats,        \* seats of the AI: "none", "one" or "both"
    MaxDrive,       \* max_ai_actions (256 in the code)
    Keep,           \* max_snapshots_per_match
    Faults,         \* what may go wrong, a subset of FaultKinds
    MaxMoves        \* bound: the game is over after this many moves

FaultKinds == {"crash", "lost", "busy", "delete"}
Mover == Request \cup {AI, Opening}

ASSUME NamesAssumption ==
    /\ NoRequest \notin Mover
    /\ AI \notin Request /\ Opening \notin Request /\ AI # Opening
ASSUME ParametersAssumption ==
    /\ AISeats \in {"none", "one", "both"}
    /\ MaxDrive \in Nat /\ Keep \in Nat \ {0} /\ MaxMoves \in Nat \ {0}
    /\ Faults \subseteq FaultKinds

VARIABLES
    row,        \* the row of matches
    log,        \* match_actions, in the order of sequence
    events,     \* match_events, in the order of action_sequence and event_index
    snaps,      \* match_snapshots
    th,         \* the threads
    replay,     \* a reader that exports the match
    asked,      \* the revision each request expects, 0 before it is sent
    added,      \* the requests whose action was committed
    told        \* the requests whose client was told of success

database == <<row, log, events, snaps>>
vars == <<row, log, events, snaps, th, replay, asked, added, told>>

\* Whose action generate_legal_actions lists: of a human seat, of an AI seat,
\* of no player in particular, or of nobody because the match is complete.
NextMovers ==
    CASE AISeats = "none" -> {"human", "neutral", "over"}
      [] AISeats = "one"  -> {"human", "ai", "neutral", "over"}
      [] AISeats = "both" -> {"ai", "neutral", "over"}
\* bound: at MaxMoves the game is over
MoversAfter(n) == IF n < MaxMoves THEN NextMovers ELSE {"over"}

Move(who, revision) == [by |-> who, expected |-> revision]
State(moves, to) == [moves |-> moves, to |-> to]
NoState == State(<<>>, "neutral")
Revision(s) == Len(s.moves)

NoRow == [life |-> "absent", state |-> NoState]
Gone == [life |-> "deleted", state |-> NoState]
Idle == [pc |-> "idle", req |-> NoRequest, move |-> Move(Opening, 0),
         read |-> NoRow, got |-> NoState, steps |-> 0]
NoReplay == [pc |-> "idle", expected |-> <<>>, actions |-> <<>>]

Init ==
    /\ row = NoRow /\ log = <<>> /\ events = <<>> /\ snaps = {}
    /\ th = [t \in Thread |-> Idle]
    /\ replay = NoReplay
    /\ asked = [q \in Request |-> 0] /\ added = {} /\ told = {}

-----------------------------------------------------------------------------
\* No thread is inside a write transaction.
LockFree == \A t \in Thread : th[t].pc # "inside"

\* The n snapshots of the highest revisions.
LatestAscending(S, n) ==        \* mutant: ORDER BY revision without DESC
    {s \in S : Cardinality({r \in S : r.revision < s.revision}) < n}
Latest(S, n) == {s \in S : Cardinality({r \in S : r.revision > s.revision}) < n}

\* A thread ends with an answer to its client, or with an error.
Answer(t) ==
    /\ th' = [th EXCEPT ![t] = Idle]
    /\ \/ told' = told \cup ({th[t].req} \cap Request)
       \/ "lost" \in Faults /\ UNCHANGED told
AnswerError(t) == th' = [th EXCEPT ![t] = Idle] /\ UNCHANGED told

\* create_match: the row with its first snapshot, in a transaction of its own.
CreateMatch(t) ==
    /\ th[t].pc = "idle" /\ LockFree
    /\ row.life = "absent"
    /\ row' = [life |-> "live", state |-> NoState]
    /\ snaps' = {[revision |-> 0, moves |-> <<>>]}
    /\ th' = [th EXCEPT ![t] = [Idle EXCEPT !.pc = "apply", !.move = Move(Opening, 0)]]
    /\ UNCHANGED <<log, events, replay, asked, added, told>>

\* A client sends its action on a state it has seen, or sends it once more
\* because it got no answer.
Receive(t, q) ==
    /\ th[t].pc = "idle" /\ q \notin told
    /\ \E r \in 1..MaxMoves :
          /\ IF asked[q] = 0 THEN r <= Revision(row.state) ELSE r = asked[q]
          /\ asked' = [asked EXCEPT ![q] = r]
          /\ th' = [th EXCEPT ![t] = [Idle EXCEPT !.pc = "apply", !.req = q,
                                                  !.move = Move(q, r)]]
    /\ UNCHANGED <<row, log, events, snaps, replay, added, told>>

\* apply begins: the lock is taken and the row read.
MayBeginDeferred == TRUE        \* mutant: the row is read before the lock is taken
MayBegin == LockFree
Begin(t) ==
    /\ th[t].pc = "apply" /\ MayBegin
    /\ th' = [th EXCEPT ![t].pc = "inside", ![t].read = row]
    /\ UNCHANGED <<row, log, events, snaps, replay, asked, added, told>>

\* What apply_action refuses whatever the action is.
AcceptsAnyRevision(s, m) == s.to # "over"       \* mutant: the revision is not compared
Accepts(s, m) == m.expected = Revision(s) /\ s.to # "over"

\* The thread goes on with the state it has committed.
AfterCommit(t, s) ==
    [th[t] EXCEPT !.pc = "drive", !.got = s, !.read = NoRow,
                  !.steps = IF th[t].move.by = AI THEN @ + 1 ELSE @]

\* apply ends: action, events, state and snapshot are committed together.
Commit(t) ==
    /\ th[t].pc = "inside" /\ th[t].read.life = "live"
    /\ Accepts(th[t].read.state, th[t].move)
    /\ LET moves == Append(th[t].read.state.moves, th[t].move)
       IN  \E to \in MoversAfter(Len(moves)) :
              /\ row' = [row EXCEPT !.state = State(moves, to)]
              /\ log' = Append(log, [move |-> th[t].move, result |-> Len(moves)])
              /\ events' = Append(events, [seq |-> Len(log) + 1, blocked |-> 0])
              /\ snaps' = Latest(snaps \cup {[revision |-> Len(moves), moves |-> moves]}, Keep)
              /\ th' = [th EXCEPT ![t] = AfterCommit(t, State(moves, to))]
    /\ added' = added \cup ({th[t].move.by} \cap Request)
    /\ UNCHANGED <<replay, asked, told>>

\* An exception in apply: of a client's action it is the answer, of an action
\* of the AI it becomes a blocker.
ApplyFailsRetried(t) ==     \* mutant: the AI tries again
    IF th[t].move.by = AI
    THEN th' = [th EXCEPT ![t].pc = "drive", ![t].read = NoRow] /\ UNCHANGED told
    ELSE AnswerError(t)
ApplyFailsSilently(t) ==    \* mutant: the exception is swallowed
    IF th[t].move.by = AI
    THEN th' = [th EXCEPT ![t].pc = "report", ![t].read = NoRow] /\ UNCHANGED told
    ELSE Answer(t)
ApplyFails(t) ==
    IF th[t].move.by = AI
    THEN th' = [th EXCEPT ![t].pc = "report", ![t].read = NoRow] /\ UNCHANGED told
    ELSE AnswerError(t)

\* The transaction is rolled back: the match is gone, the revision is stale,
\* the match is complete, or the handler refuses the action.
Refuse(t) ==
    /\ th[t].pc = "inside"
    /\ \/ th[t].read.life # "live" \/ ~Accepts(th[t].read.state, th[t].move)
       \/ th[t].move.by # Opening
    /\ ApplyFails(t)
    /\ UNCHANGED <<row, log, events, snaps, replay, asked, added>>

\* The lock is not free within the timeout of the connection.
ApplyTimesOut(t) ==
    /\ "busy" \in Faults
    /\ th[t].pc = "apply" /\ ~LockFree
    /\ ApplyFails(t)
    /\ UNCHANGED <<row, log, events, snaps, replay, asked, added>>

-----------------------------------------------------------------------------
(***************************************************************************)
(* advance_ai                                                              *)
(***************************************************************************)

\* The state has an action for the AI after n actions of its own.  Actions of
\* no player are for it if it has moved in this loop or has both seats.
AIMovesOnlyOwn(s, n) == s.to = "ai"     \* mutant: ai_continuation_active is never set
AIMoves(s, n) ==
    s.to = "ai" \/ (s.to = "neutral" /\ (AISeats = "both" \/ n > 0))

CapReachedLate(t) == th[t].steps > MaxDrive     \* mutant: one action too many
CapReached(t) == th[t].steps = MaxDrive

\* The loop ends: without an AI there is none, or nothing is left for the AI.
StopDriving(t) ==
    /\ th[t].pc = "drive"
    /\ AISeats = "none" \/ (~CapReached(t) /\ ~AIMoves(th[t].got, th[t].steps))
    /\ Answer(t)
    /\ UNCHANGED <<row, log, events, snaps, replay, asked, added>>

ChooseAIAction(t) ==
    /\ th[t].pc = "drive" /\ AISeats # "none"
    /\ ~CapReached(t) /\ AIMoves(th[t].got, th[t].steps)
    /\ th' = [th EXCEPT ![t].pc = "apply",
                        ![t].move = Move(AI, Revision(th[t].got))]
    /\ UNCHANGED <<row, log, events, snaps, replay, asked, added, told>>

\* The controller finds no safe action, or the loop has run max_ai_actions times.
MeetBlocker(t) ==
    /\ th[t].pc = "drive" /\ AISeats # "none"
    /\ CapReached(t) \/ AIMoves(th[t].got, th[t].steps)
    /\ th' = [th EXCEPT ![t].pc = "report"]
    /\ UNCHANGED <<row, log, events, snaps, replay, asked, added, told>>

\* append_system_events: a blocker about the state the thread has.
ReportBlocker(t) ==
    /\ th[t].pc = "report" /\ LockFree /\ row.life = "live"
    /\ events' = Append(events, [seq |-> Len(log), blocked |-> Revision(th[t].got)])
    /\ Answer(t)
    /\ UNCHANGED <<row, log, snaps, replay, asked, added>>

\* It raises in turn, and the client gets an error for an action that is done.
ReportFails(t) ==
    /\ th[t].pc = "report"
    /\ row.life # "live" \/ ("busy" \in Faults /\ ~LockFree)
    /\ AnswerError(t)
    /\ UNCHANGED <<row, log, events, snaps, replay, asked, added>>

-----------------------------------------------------------------------------
(***************************************************************************)
(* Crash, clean-up and export.                                             *)
(***************************************************************************)

\* The server is restarted; a new process prunes and knows of no request.
Crash ==
    /\ "crash" \in Faults
    /\ \E t \in Thread : th[t].pc # "idle"
    /\ th' = [t \in Thread |-> Idle]
    /\ UNCHANGED <<row, log, events, snaps, replay, asked, added, told>>

\* A complete match beyond the retained ones, or an active one that nobody has
\* touched for an hour at least; the other tables follow by ON DELETE CASCADE.
DeleteMatch ==
    /\ "delete" \in Faults
    /\ row.life = "live" /\ LockFree
    /\ row.state.to = "over" \/ \A t \in Thread : th[t].pc = "idle"
    /\ row' = Gone /\ log' = <<>> /\ events' = <<>> /\ snaps' = {}
    /\ UNCHANGED <<th, replay, asked, added, told>>

PruneSnapshots(n) ==
    /\ LockFree /\ Latest(snaps, n) # snaps
    /\ snaps' = Latest(snaps, n)
    /\ UNCHANGED <<row, log, events, th, replay, asked, added, told>>

\* replay reads the row, the actions and the events in three statements, each
\* of which sees what is committed at that time.
MovesOf(entries) == [i \in DOMAIN entries |-> entries[i].move]
ReadRow ==
    /\ replay.pc = "idle" /\ row.life = "live"
    /\ replay' = [NoReplay EXCEPT !.pc = "row", !.expected = row.state.moves]
    /\ UNCHANGED <<row, log, events, snaps, th, asked, added, told>>
ReadActions ==
    /\ replay.pc = "row"
    /\ replay' = [replay EXCEPT !.pc = "actions", !.actions = MovesOf(log)]
    /\ UNCHANGED <<row, log, events, snaps, th, asked, added, told>>

\* The actions are applied to the initial state and the outcome compared.
CheckReplay ==
    /\ replay.pc = "actions"
    /\ replay' = [replay EXCEPT !.pc = IF replay.actions = replay.expected
                                       THEN "verified" ELSE "raised"]
    /\ UNCHANGED <<row, log, events, snaps, th, asked, added, told>>

-----------------------------------------------------------------------------
ThreadStep(t) ==
    \/ Begin(t) \/ Commit(t) \/ Refuse(t) \/ ApplyTimesOut(t)
    \/ StopDriving(t) \/ ChooseAIAction(t) \/ MeetBlocker(t)
    \/ ReportBlocker(t) \/ ReportFails(t)
ClientStep == \E t \in Thread : CreateMatch(t) \/ \E q \in Request : Receive(t, q)
CleanUp == DeleteMatch \/ \E n \in 1..Keep : PruneSnapshots(n)
Export == ReadRow \/ ReadActions \/ CheckReplay

Next == (\E t \in Thread : ThreadStep(t)) \/ ClientStep \/ Crash \/ CleanUp \/ Export

Spec == Init /\ [][Next]_vars

\* A thread that serves a request goes on; one that waits for the lock gets it
\* or times out.
FairSpec == Spec /\ \A t \in Thread : WF_vars(ThreadStep(t))

-----------------------------------------------------------------------------
MoveType == [by : Mover, expected : Nat]
States == [moves : Seq(MoveType), to : {"human", "ai", "neutral", "over"}]
Rows == [life : {"absent", "live", "deleted"}, state : States]

\* The columns of the tables and the locals of advance_ai.
TypeOK ==
    /\ row \in Rows
    /\ log \in Seq([move : MoveType, result : Nat])
    /\ events \in Seq([seq : Nat, blocked : Nat])
    /\ \A s \in snaps : s.revision \in Nat /\ s.moves \in Seq(MoveType)
    /\ th \in [Thread -> [pc : {"idle", "apply", "inside", "drive", "report"},
                          req : Request \cup {NoRequest}, move : MoveType,
                          read : Rows, got : States, steps : 0..MaxDrive]]
    /\ replay \in [pc : {"idle", "row", "actions", "verified", "raised"},
                   expected : Seq(MoveType), actions : Seq(MoveType)]
    /\ asked \in [Request -> Nat]
    /\ added \subseteq Request /\ told \subseteq Request

\* The tables tell one story, whatever crashed, timed out or ran side by side:
\* the current state is what the logged actions lead to, each of them expected
\* the revision it was applied to, and no event precedes its action.  About the
\* transaction of apply and its lock.
LogAgrees ==
    /\ row.state.moves = MovesOf(log)
    /\ \A i \in DOMAIN log : log[i].move.expected = i - 1 /\ log[i].result = i
    /\ \A i \in DOMAIN events : events[i].seq <= Len(log)

\* The snapshots that are kept are the states after the latest actions, without
\* a gap, the current one among them, whichever limits were used to prune them.
SnapshotsAgree ==
    /\ row.life = "live" => \E s \in snaps : s.revision = Len(log)
    /\ \A s \in snaps : /\ s.revision <= Len(log)
                        /\ s.moves = SubSeq(MovesOf(log), 1, s.revision)
                        /\ \A r \in s.revision..Len(log) : \E u \in snaps : u.revision = r

\* However often a client sends a request, its action is in the log once at
\* most, and a client that was told of success finds it there until the match
\* is deleted.
AtMostOnce ==
    /\ \A i, j \in DOMAIN log :
          log[i].move.by = log[j].move.by /\ log[i].move.by \in Request => i = j
    /\ row.life = "live" => \A q \in told : \E i \in DOMAIN log : log[i].move.by = q

\* The AI's turn is nobody's business only after a blocker said so: otherwise a
\* thread has the current state in hand.  About the hand-over between threads
\* that overtake each other: the loser stops, the winner drives on.
AITurn == row.life = "live" /\ (row.state.to = "ai"
                                \/ (row.state.to = "neutral" /\ AISeats = "both"))
NotForgotten ==
    AITurn =>
       \/ \E t \in Thread :
             \/ /\ th[t].pc \in {"drive", "report"}
                /\ Revision(th[t].got) = Revision(row.state)
             \/ /\ th[t].pc \in {"apply", "inside"} /\ th[t].move.by \in {AI, Opening}
                /\ th[t].move.expected = Revision(row.state)
       \/ \E i \in DOMAIN events : events[i].blocked = Revision(row.state) /\ events[i].blocked # 0

\* Every request is answered, also one whose AI actions are overtaken, refused
\* or cut off.
Served == \A t \in Thread : th[t].pc # "idle" ~> th[t].pc = "idle"

\* The store is a log of moves as its clients see it.
Abstract == INSTANCE MatchLog WITH
    Other <- {AI, Opening}, entries <- MovesOf(log), closed <- row.life = "deleted"
Linear == Abstract!Spec
=============================================================================
