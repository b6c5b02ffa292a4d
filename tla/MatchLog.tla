------------------------------- MODULE MatchLog -------------------------------
(***************************************************************************)
(* What the match service promises its clients: one ordered log of moves   *)
(* per match.  Each move is made on the state its sender had seen, a       *)
(* request adds at most one move however often it is sent, a success is    *)
(* told only for a move that was added, and a deleted match stays deleted. *)
(***************************************************************************)
EXTENDS Naturals, Sequences

CONSTANTS
    Request,    \* the requests of the clients
    Other       \* who moves besides: the AI, and the service when it opens a match

VARIABLES
    entries,    \* the log, a sequence of [by, expected]
    closed,     \* the match has been deleted
    added,      \* the requests that have added their move
    told        \* the requests whose client was told of success

Init == entries = <<>> /\ closed = FALSE /\ added = {} /\ told = {}

\* A move is added to the end, on the state that all moves so far have led to.
Add(who) ==
    /\ ~closed
    /\ who \notin added
    /\ entries' = Append(entries, [by |-> who, expected |-> Len(entries)])
    /\ added' = added \cup ({who} \cap Request)
    /\ UNCHANGED <<closed, told>>

Tell(q) ==
    /\ q \in added
    /\ told' = told \cup {q}
    /\ UNCHANGED <<entries, closed, added>>

Close == closed' = TRUE /\ entries' = <<>> /\ UNCHANGED <<added, told>>

Next == (\E who \in Request \cup Other : Add(who)) \/ (\E q \in Request : Tell(q)) \/ Close

vars == <<entries, closed, added, told>>

Spec == Init /\ [][Next]_vars
=============================================================================
