# Formal specification of the LoveCa simulator

TLA+ models of the simulator in `src/`, the TLC runs that check them, and
TLAPS proofs about them. Line numbers below are lines of the source file named;
`engine.py`, `models.py`, `runtime.py`, `service.py`, `rooms.py` and
`ready_history.py` are the files of `src/src/loveca/simulation/`, `App.tsx` is
`src/web/src/App.tsx`, and `aidlc-lib.ts` is in `src/.codex/tools/`.

## 1. The system

| Component | State it keeps | Operations | Modelled |
|---|---|---|---|
| Match flow (`engine.py`, `models.py`) | `MatchState`: phase, turn, seats, the one pending choice, the effect queue, live areas and results | `apply_action` with one handler per action type; `generate_legal_actions` | `MatchFlow` |
| Card zones (`engine.py`) | decks, hands, waiting rooms, stage with attachments, energy | draw, refresh, baton touch, moves | `CardZones` |
| Member-ready history (`ready_history.py`) | object ids and ready events of a turn | record, query, departures | in `CardZones` |
| Live heart allocation (`engine.py` 11906) | none | pay for the lives of a performance, one after the other | `HeartAllocation` |
| Effect operations (`engine.py`, `effects.py`, `effect_candidates.py`) | modifiers, flags, usage counts | conditions, costs, operations of several hundred effects | control in `MatchFlow`, moves of members in `CardZones` |
| Match repository (`runtime.py`) | SQLite: match rows, action log, events, snapshots, tokens | create, apply, append events, prune, replay | `MatchStore`, `MatchLog` |
| Match service and AI loop (`service.py`, `ai.py`) | none (works on the repository) | create, apply, `advance_ai` | `MatchStore`, `MatchLog` |
| Hosted rooms (`rooms.py`, `webapp.py` 319-491) | SQLite: room rows | create, join, get, touch, leave, act, clean up | `HostedRooms`, `RoomLife` |
| Web front end (`App.tsx`, `api.ts`) with the routes it uses (`webapp.py`) | the match shown, the online session, tokens, the watch of a room | open, join, resume, act, leave, refresh, stream, poll | `WebClient` |
| Lock of the workflow tools (`aidlc-lib.ts`) | a lock directory, its gate, a kernel mutex, what was moved aside | acquire, release, reap, doctor | `OwnerLock` |
| CLI, decks, card database, importers, rulesets, visibility, catalog | files and a read-only database | load, validate, compare, project | no |
| Rollback guard (`deploy/rollback_guard.py`) | none | compare two commits | no |

**Interactions.** A client posts an `ActionRequest` to the web application,
directly for a local match or through a room for a hosted one. The room service
checks the token and the state and calls the match service, which applies the
action through the repository: one SQLite transaction that loads the state,
calls `apply_action`, and writes the action, its events, the new state and a
snapshot. After that the match service plays the seats of the AI, one such
transaction per AI action, until a human has to act. Requests run in threads of
one server process; they share nothing but the database file. Clean-up
endpoints delete matches and rooms; a room protects its match from deletion. The
browser learns of the other player's actions from a stream that says only that
something changed, or by polling, and fetches a snapshot each time.

The largest part of the repository by lines is not the simulator: the
TypeScript under `.codex` is a third-party workflow kit copied into the
repository (`third_party/aidlc-workflows/UPSTREAM.md`), sequential commands of
the development process (`docs/20-ai-dlc-development-workflow.md`) that the
simulator neither calls nor ships. Its lock, where processes do compete, is
modelled; the rest is not, and this is why the share of all lines that is
modelled stays low.

**What is hard here.** (1) The engine spreads one rule procedure over many
requests: a pending choice cuts a loop in two, effects of both players wait in
one queue, and every handler has to say which of about twenty requests it
accepts meanwhile. Manual adjustments may change the table under an open
choice. (2) A card leaves the stage by a dozen routes, and each has to clean up
what is attached to it and recorded about it; a deck may run out in the middle
of an operation. (3) The service makes several transactions per request, so
other requests, clean-ups and a crash fall between them. (4) The rooms read a
row, decide, and write in another transaction. (5) The browser lays snapshots
that arrive late, out of order or never over what it shows, while a stream, a
poll and the user's own calls are all under way. (6) The lock's processes are
killed at any step, and recovery itself is a race. The hazards of each are
listed with their lines in `PROJECT.json`.

**Correctness, per component.** Match flow: the right player acts; effects of
the turn player go first; no effect outlives its phase; a card that is no live
card never scores; winners and only winners place one card; a match is never
stuck, and its judgments draw none. Players may edit the table by hand; section 3
says which of these survive which edits. Zones: no card is lost or in two places, nothing stays
attached to an empty area or recorded about a card that left, no arrival is sent
off in its turn. Hearts: lives succeed exactly when the hearts can pay for all.
Repository and service: log, revision, state and snapshots agree; an action is
applied at most once; an acknowledged action is in the log; the AI does not stop
while it is its turn. Rooms: a room only moves forward through its life; one
guest; a match in use is not deleted. Browser: the events shown are the
server's, and polling comes to show the latest state. Lock: one holder, nobody
robbed, nothing lost, and whoever survives gets it.

## 2. Modules and plan

In the order they were built, the most important behaviour first:

1. `MatchFlow`, `MCMatchFlow`: the match flow, with its proofs in
   `MatchFlow_proofs` (types, seats, phases, the effect queue, the end of the
   automatic loop, and that a match never gets stuck) and `MatchJudgment_proofs`
   (the live judgment), which extends it.
2. `MatchStore`, `MCMatchStore`, `MatchStore_proofs`: the repository with
   request threads, the AI loop and faults, which implements the abstract
   `MatchLog`.
3. `HostedRooms`, `MCHostedRooms`, `HostedRooms_proofs`: a room, the requests
   about it and the matches made for it, which implements the abstract
   `RoomLife`.
4. `CardZones`, `MCCardZones`, `CardZones_proofs`: the cards of a player.
5. `HeartAllocation`, `MCHeartAllocation`, `HeartAllocation_proofs`: the payment
   of the lives.
6. `WebClient`, `MCWebClient`, `WebClient_proofs`: the browser.
7. `OwnerLock`, `MCOwnerLock`, `OwnerLock_proofs`: the lock.

Left: the deck library (save, rename and update are two file operations each) and
the rollback guard, if they prove worth it.

The models meet at narrow places and are kept apart: `MatchStore` knows of a
game only who may move next, `HostedRooms` of a match only whether its row is
there, is over, and how old it is, `WebClient` of a match only its revision,
`CardZones` of a turn only how far it is.

## 3. MatchFlow

A step is one accepted `ActionRequest`. `apply_action` (75-121) deep-copies the
state, refuses a request by exception, and returns the new state, so a handler
is atomic and a refused request is no step; that two requests race for one
state is the store's matter. Every handler ends by resolving the automatic
effects and continuing the phase; that is `Settle` here and part of each action.

| Variable | Code |
|---|---|
| `phase`, `turn`, `first`, `active`, `nextFirst`, `result` | the fields of `MatchState` of those names |
| `choice` | `pending_choice`; `inv` is `options.invocation_id`, or `source_invocation_id` of a manual one |
| `fx` | `pending_effects`; `started` are those past the stage `initial`, `done` those that fired this turn, `bonus`, `turnBonus` and `gameBonus` the score modifiers that last the live, the turn and the game, `blocked` the flag of `prevent_equal_score_success_live_placement` |
| `zones` | live areas, success areas, cards moved in this judgment, the players whose resolution area holds inspected cards, and those (`strays`) with cards that were moved there by hand |
| `total`, `winners`, `queued` | `live_result.total_score`, `live_winner_ids`, `live_success_effects_queued` |

Data is abstracted to what steers the flow. Cards exist only as live cards or
bluffs that a player may set. Whether the hearts of a yell suffice, whether the
player chooses the order of the lives, and which effects fire at a trigger are
nondeterministic. An effect is its owner, its trigger, its kind (`simple`;
`two_step` pays a cost first; `inspect` and `multi` ask a choice; `manual` is
resolved by hand), whether it is optional, what it does to the judgment
(`Impact`), and which effects it triggers (`Chain`). An effect that is executed
triggers all of `Chain`; one that is not wanted is left out of `Invocation`.
The policies that only old saved matches lack (`service.py` 113-118) are taken
as set.

Simplifications a reader should know: the two-player choices (multi-player
choices of different types) are one kind, and all of them can be skipped and
adjusted beside, although a few types refuse it; an activated effect is `simple`,
`inspect`, `two_step` or `manual`, and any but a simple one may also wait at the
stage `initial`, its cost still to be chosen (1501-1528); an invocation fires at
most once a turn; a player has at most one card inspection open (bound in
`InspectTopCards`).

`OfferedOnly = TRUE` restricts the clients to the actions
`generate_legal_actions` lists; the engine does not enforce the list, so runs
with `FALSE` cover late and foreign requests.

**Adjustments by hand.** `_manual_adjustment` (896) takes a list of entries and
carries them out in one step, so a step here changes any combination of what the
model keeps. `Adjustments` names the kinds the players use:

| Kind | Entry of the code | Here |
|---|---|---|
| `live_move`, `success_move` | `move_card` into or out of `live_area`, `success_live_area` (12691, 12694) | the areas become any sets of the owner's cards, bluffs included, no card in both |
| `resolution_move` | `move_card` into or out of `resolution_area` (12693) | `strays` becomes any set of players, inspected cards may be taken away |
| `score` | `modify_score` (12585) with its duration (13927) | each of the three bonuses may become a member of `HandScores` |
| `stage_departure` | `move_card` of a member from the stage to the waiting room (12703) | the departure triggers of any of the effects are queued |
| `inspect` | `inspect_top_cards` (12472), alone in its list | `InspectTopCards`, its own action |

An adjustment that carries out a `manual` effect (`AdjustForEffect`) also removes
the effect, resolves the automatic ones and continues the phase; any other
(`AdjustByHand`) only changes the table and the queue. Such moves do not touch
`success_live_cards_moved_this_turn`, so `moved` stays. Bounds: nobody moves a member
on or off the stage by hand during the setup. Abstracted: entries about hands, decks,
energy, orientation, flags, blades and hearts, which the flow does not read here; a
member moved between areas of the stage fires effects like one that leaves it.

### Runs

All use the sixteen effects of `MCMatchFlow`, of which each run names those in
play, and model values for the players. Cards of a player: `Lives` live cards
and `Bluffs` bluffs. The scores make both a win and a tie possible.

| Run | Instance | Shows |
|---|---|---|
| `turn` | 2 lives and a bluff each, 7 effects of both players, one turn | `TypeOK`, `RevealedBeforeScored`, `EligiblePlaced`, `NoDeadEnd`, `TurnPlayerFirst`; `TurnsEnd` under `FairSpec` |
| `match` | 3 lives each, 6 turns, no effects, score modifiers of each duration by hand | `OnlyWinnersPlace`, `NeverBothFinished` |
| `requests` | 8 effects, requests not offered | `ResolutionLock`, `PhaseBarrier` |
| `adjust` | 1 live each, one turn, an effect fired by departures and one resolved by hand, every kind of adjustment but `score` | `NoStrandedInspection`, `CleanTable` |

The bounds suffice because the flow has no arithmetic but three small counts: a
turn contains every phase, match point needs two success lives and the end
three (six turns reach all combinations of both players), queue order matters
between two players and a chain (two owners, two effects of an owner at a time),
and a choice is about one effect of one player at a time. By hand a player's score
is lowered by two or put back (`HandScores`), which turns a win into a loss or a tie;
score modifiers are in `match`, the other adjustments in `adjust`, since only `match`
compares scores and the product of both is large. `turn` and `requests` have no
adjustments: what they check of play by the rules, the theorems below state with
the adjustments too. `MaxTurn` bounds the turns; deadlock is not checked, as the
match ends or `MaxTurn` is reached, and `NoDeadEnd` replaces it with a stronger
statement: of the requests that the code lists, one meets all that its handler
asks for, and the automatic effects that the handler goes on with run out. It
names these guards instead of using `ENABLED`, so that it can be proved; that they
suffice is what `TurnsEnd` shows in the same run, since under `FairSpec` a turn would not end if the step of a
listed request were not enabled.

**Fairness.** `FairSpec` asks `WF_vars(GameStep)`: when a request other than a
manual adjustment can be sent, eventually one is. For an AI seat `advance_ai`
sends it after every action; for a human it is the assumption that the player
wants to finish. Manual adjustments are never forced and cannot help.

### Where the engine relies on its clients

Some behaviours that the properties forbid are possible in the code, when players
edit the table by hand or send a request that the engine accepts but does not offer.
The model has them; no document promises that they cannot happen, so they are no
findings, and the runs of the properties concerned leave out the adjustments or
requests they need:

- A card moved by hand into a success area counts there whatever it is and whoever
  won (12694). With three for each player the match ends in a draw (12408), which
  nothing else leads to; and a card moved there or away in a judgment makes the
  placements disagree with it.
- A card moved by hand into a live area after the reveal is scored, also a bluff
  (12691).
- A queue that becomes empty during a performance moves the match to the yell
  also when the performance has not been started, so the face-down cards are not
  revealed (11584). Opening and closing a card inspection by hand does it.
- If the offered cards are moved away by hand, every offered answer to the
  success-live choice raises, and nothing else is accepted (13244).
- The effect that bars placements on a tie compares scores from before the other
  live-success effects (10394), so a player who wins alone may stay barred.
- A departure trigger resolved while a winner chooses a success live makes the
  engine judge a second time over what is left (11596), and a player who has placed
  a card may not be among the winners of that judgment.
- Skipping a manual effect while its inspection is open leaves a choice that
  nobody can answer (2829).
- `advance_phase` in a yell phase overwrites an open inspection (480).
- After a turn is judged, adjustments are not offered, but accepted: what they put
  on the table stays there for the next turn.

### Proofs

For every catalogue of cards and effects, every scoring and any number of turns,
from the four named assumptions of `MatchFlow`. One of them says that a player is
not the word `"draw"` or `"none"`, as the code's player ids are not: a result is
one of those words or a player. Where a theorem needs more, the table says so;
`Adjustments` and `OfferedOnly` are otherwise arbitrary.

| Theorem | States | Hypothesis |
|---|---|---|
| `TypeCorrect`, `SeatedCorrect`, `PhaseBarrierHolds` | `TypeOK`, `Seated` (proved only), `PhaseBarrier` | none |
| `TurnPlayerFirstHolds` | `TurnPlayerFirst` | none |
| `ResolutionLockHolds` | `ResolutionLock` | only offered requests, or no effect that is resolved by hand |
| `InspectionNotStranded` | `NoStrandedInspection` | only offered requests |
| `CleanTableHolds` | `CleanTable` | only offered requests, or no adjustments but `success_move` |
| `OnlyWinnersPlaceHolds` | `OnlyWinnersPlace` | no `stage_departure`, no `success_move` |
| `NeverBothFinishedHolds` | `NeverBothFinished` | no `success_move` |
| `EligiblePlacedHolds` | `EligiblePlaced` | no `live_move`, no `success_move` |
| `RevealedBeforeScoredHolds` | `RevealedBeforeScored` | no `stage_departure`, `inspect`, `live_move`, `success_move` |
| `AutomaticLoopEnds` | the automatic effects run out, with one outcome (proved only) | a well-formed queue |
| `NeverStuck` | `NoDeadEnd` | only offered requests, no `live_move` |

Each hypothesis excludes one of the behaviours listed above, which break the
property otherwise: a skipped manual effect or an overwritten inspection (offered
requests), a second judgment or a queue filled by hand (departures), a yell without a
reveal (inspections), cards scored unseen and offered cards moved away (moves in the
live areas, which also leave a match stuck), and success cards that no judgment placed
(moves in the success areas). From `OnlyWinnersPlaceHolds` on, each kind of adjustment
that a row excludes is needed: with it added to a small instance, TLC finds the
property violated. Of the other kinds in the table above the proofs show that none
breaks the property; they say nothing of entries that the model abstracts from.

*Types, seats and phases.* The inductive invariant `IInv` joins to `TypeOK` and
`Seated` that a half-resolved effect is waiting (without it a phase could change
with an empty queue and a started effect), that only a judgment asks for a
success live (`_finish_judgment_choices` makes the chooser active, which would
break `Seated` in a phase with a seat), and that no judgment is queued before the
match starts. Each action has a lemma; the actions that end in `Settle` share
lemmas about the automatic run, the continuation of the phase and the judgment.
The automatic run is a set of permutations rather than a recursive operator so
that it can be reasoned about.

*The queue.* `QInv` says that what waits was not executed before, that one effect
at most is half-resolved, and which effect and player an open choice is about.
The proofs about it do not go through thirty actions each: `StepKinds` shows once
that a step is `Worked` (a handler took effects from the queue and then settles),
`Quiet` (it starts an effect, adds some, opens a choice, or is an adjustment by hand,
and leaves the phase and the result alone) or a `PhaseStep` (refused while an effect
waits). Every later theorem is a case split into these three.

*The judgment.* `JInv` adds, to what `OnlyWinnersPlace` says of the players who
have placed a card, what holds between two requests: nobody has placed one before
the judgment, the winner asked and those still to be asked (`choice.rest`) are
different players who may place one, and no effect waits meanwhile. `EInv` adds
that every winner has been served or is one of them, with a card to place, which
is what could be lost between two requests. `BInv` stands apart from both, so that
it holds also when a judgment runs twice: between two requests nobody has three
success lives, and of several winners still to be asked none is at match point.
`RInv` is about the performance: the
cards of a performer are revealed before any effect of the phase is queued, so
while one waits the area holds lives only.

*The loop and the way on.* An effect that the automatic loop executes is out of
the queue for good (an invocation fires once a turn), so a run is no longer than
the catalogue of effects, and by induction over its length a run that cannot go on
exists (`LoopEnds`). Which effect is next depends on the queue alone (`NextOne`),
so two runs never part (`RunsAgree`): the loop has one outcome, although it may
trigger effects as it goes. `NeverStuck` adds the invariant `OInv`: the mulligan
phases wait for the mulligan and for nothing else (`SetupIdle`), and a winner who
is asked is offered cards that are still in the live area (`OfferStands`). The
rest is a split over the open choice, the queue and the phase.

Only model-checked: `TurnsEnd` (liveness).

## 4. MatchStore

One match in the database, and the threads of the server that serve requests
about it. Each call of the repository is one transaction under `BEGIN
IMMEDIATE`; between two calls anything may happen.

| Variable | Code |
|---|---|
| `row` | the row of `matches`: whether it is there, and the current state; a revision is the number of moves in the state |
| `log`, `events`, `snaps` | the tables `match_actions`, `match_events` and `match_snapshots` |
| `th` | each thread: `idle`, about to `apply`, `inside` the transaction of `apply`, in the loop of `advance_ai` (`drive`), or about to `report` a blocker; its move, how many steps the AI has made for this request, and the state it works on |
| `replay` | the locals of `replay`, between its SELECT statements |
| `asked`, `added`, `told` | history: the revision that a client expects with a request, and the requests that were applied and acknowledged |

A game state is the sequence of its moves and the set of seats that may move
next: which seats those are after a move is the engine's affair (`MatchFlow`)
and nondeterministic here. `Receive`, `Begin`, `Commit`, `Refuse` are
`MatchService.apply` and the two halves of `MatchRepository.apply`;
`ChooseAIAction`, `MeetBlocker`, `StopDriving` and `ReportBlocker` the loop of
`advance_ai`, and each failing call has an action of its own. `Crash` restarts
the server: threads are lost, tables stay, an open transaction is undone.
Clean-ups prune snapshots and delete the match.

Assumed: a retry carries the `expected_revision` of the first try, as the front
end's requests do; a match is deleted only when no thread works on it (clean-ups
take matches that were not updated for at least an hour).

| Run | Instance | Shows |
|---|---|---|
| `store_handover` | 2 requests whose answers may be lost and which are then retried, 2 threads, both seats are the AI's | `TypeOK`, `AtMostOnce`, `NotForgotten` |
| `store_faults` | 1 request and its retries, 2 threads, one AI seat, crashes, timeouts, lost answers, clean-ups; under `FairSpec` | `LogAgrees`, `SnapshotsAgree`, `Linear` (the refinement), `Served` |

Two threads are enough for every pair of transactions to interleave, and the
lock keeps a third from adding anything inside one. `MaxMoves` bounds the log;
with a cap of the AI below it, a loop can end at the cap, at a blocker, at a
human's turn and at the end of the match. Deadlock is not checked, because the
clients may stop.

**Fairness.** `WF_vars(ThreadStep(t))` for each thread: a server thread that can
take its next step takes it, and a wait for the lock ends with the lock or with
the timeout of SQLite. No client, clean-up or crash is forced.

**An observation.** `replay` reads the row, the actions and the events in
statements that belong to no common transaction (654), so an action committed in
between makes the comparison at 711 fail on a database that is consistent. The
model has this (`replay`); the client may ask again, and no property forbids it.

**Proofs** (`MatchStore_proofs`), for any number of threads and requests, any
faults and any length of the match: `StoreTypeCorrect`, `LogAgreesHolds`,
`AtMostOnceHolds`, and `StoreImplementsLog`, that the store implements
`MatchLog`. The inductive invariant adds to the properties: the thread inside
the transaction is alone and the row is what it has read (`OneWriter`, the
consequence of taking the lock before reading); a request stands for one
revision (`AskedOnce`); what was applied is in the log of a live match
(`AddedIsLogged`); what was acknowledged was applied (`ToldIsAdded`); the AI
acts below its cap (`CapAhead`).

`SnapshotsAgreeHolds` needs of that only the log, and that the set of snapshots is
finite: pruning keeps those with fewer than a number of newer ones, so a snapshot
that is kept keeps every newer one (`PrunedNoGap`), and the one just written among
them, since the limit is not zero.

`NotForgottenHolds` is proved for servers that do not crash and do not run into
the timeout of the database lock (`Faults` without `crash` and `busy`); both leave
the AI's turn to the next request, as they do in the code. Answers may be lost and
matches deleted. Its invariant `TurnInv` says that the state a thread of
`advance_ai` has in hand was the current one once (`Seen`): either it still is, or
the row has a later revision, and then whoever committed that one has it in hand.

Only model-checked: `Served` (liveness).

## 5. HostedRooms

One room code, its host, and the guests who try to join. A request is a sequence
of calls of `RoomRepository`, each with a connection and a transaction of its
own, so what a call returned may be stale when the next one writes. `get_room`
is two calls when the room's time is over: it reads, and `expire_room` writes.

| Variable | Code |
|---|---|
| `room` | the row of `hosted_rooms`; `guest` stands for guest name, token and match id, which are written together; `deleted` after the row is |
| `match` | for each guest the row of the match that `join_room` creates for it: there or not, complete or not, `updated_at` |
| `op` | for each player the request being served: the next call `pc`, the one after a `get_room` (`then`), what was read, and whether the clock has struck meanwhile (`late`) |
| `holds` | the guest token that the answer to a join contained |
| `clock` | the time in hours, as the periods are configured |

`StartJoin`, `GetRoom`, `CreateMatch`, `GetRoom`, `Reserve`, `GetRoom`, `Joined`
are a join; a poll, an action and a leave start with `StartUse`. The route of an
action first polls and then acts: here these are two requests of the same
player. `Sweep` is `cleanup_expired`, `PruneMatch` the two ways in which
`runtime.py` deletes matches, of which any may be chosen. A request takes less
than an hour (`Tick`); a match is pruned for its age not before `MatchAge`
hours. Room codes, decks, seeds, names and the ruleset binding are left out, and
so are later rooms under the same code.

| Run | Instance | Shows |
|---|---|---|
| `rooms` | host and 2 interchangeable guests, all periods 1 hour, clock up to 2 | `MatchKept`, `TokenStays`, `OneLife` (the refinement) |
| `cutoff` | the same | a violation |

Two guests are enough for a lost race for the seat. Two ticks are enough for a
room to be created, to end, and to be deleted after its grace, and for a match
to be old enough to prune while polls keep its room alive. Deadlock is not
checked, because the clock stops. There is no liveness: nothing forces anyone to
ask for a room, and it is the asking that expires it.

**Finding.** `cutoff`: `get_room` reads that a room's time is over and expires it
with an UPDATE that has no condition (188, 196). If another player's poll or
join prolongs the room in between, it is closed under them all the same.
`cleanup_expired` does test the time in its UPDATE.

The loser of a race for the seat is answered as if it had joined, with the
winner's name and token, and leaves a match without a room behind. The
specification 021 (86) says that reservation is not atomic, so this is a hazard
of the list rather than a finding; the model shows it (`holds` may be another
guest's token), and `TokenStays` says what remains true.

**Proofs** (`HostedRooms_proofs`), for any number of guests and any periods of
at least an hour: `RoomsTypeCorrect` (`TypeOK`, proved only), `MatchKeptHolds`,
`TokenStaysHolds` and `RoomImplementsLife`. The inductive invariant adds: which columns go with which
status (`RoomShape`); whoever was read or told as the guest is the guest while
the row is there (`GuestStays`, true because a seat is taken once); a guest who
has not taken the seat is in no room and in nobody's locals (`NewIsNotSeated`,
so no action can complete its match); and its match is too young to be pruned
(`MatchIsNew`, where `late` is needed: one stroke of the clock may fall into a
request, not two).

## 6. CardZones

The cards of one player. A step is one accepted request or one entry of a manual
adjustment, under the policies every new match gets (`service.py` 110-125).
Operators such as `OffStage`, `Replace` and `CleanAttachments` are the helpers
of `engine.py`, each from a table to a table; the actions compose them as the
handlers do.

| Variable | Code |
|---|---|
| `table` | the zones and areas of `PlayerState`, `member_area_attachments`, the modifiers aimed at a card, and the ready history: `object` and `next` are the tokens, `events` the ready events |
| `entered` | `member_card_instance_ids_entered_stage_this_turn` |
| `part` | how far the turn is |
| `replaced` | queued effects that name a member replaced by baton touch |
| `choice` | the pending inspection and the cards it shows |
| `arrived`, `readied` | history that follows the cards alone and never looks at what the engine records |

Which card an effect moves is any of those its operation accepts. Left out:
costs, orientation, the success area, adjustments during the setup, the
qualified counts of the ready history, and the order of the main deck, which is
shuffled: a draw takes any of its cards. Tokens start again each turn, as no
event or object of an earlier turn is left.

| Run | Instance | Shows |
|---|---|---|
| `zones` | 3 members, 1 energy card, 2 areas, symmetric | `TypeOK`, `Conserved`, `StageSound`, `ReadiedThisStay`, `DealtOneByOne`, `KeepsArrivals`, `DepartureClears` |

Three members are enough for a top, a card under it and one that replaces them,
or for a deck, a waiting room and a stage at once; two areas for every swap and
promotion. With `MaxDeal = 2` a deck of none, one or two cards is exhausted
before, in and after an operation. With `MaxReady = 1` a turn issues one token,
and `ReadyMember` stops there; a second stay of the same member, which is what
tokens are for, needs no second one. `Moves` limits moves by hand to the waiting
room and the energy deck; the other zones are reached by other steps. Deadlock is
checked. `DealtOneByOne` ties the way in which the model deals n cards at once to
the loops of the code (13395), which deal them one by one.

**Proofs** (`CardZones_proofs`), for any cards, areas and bounds:
`ZonesTypeCorrect`, `CardsConserved`, `StageAlwaysSound`, `ReadiedCountsThisStay`,
`DeparturesClear`, `ArrivalsKept` and `DealsOneByOne`. The inductive invariant is `TypeOK`, conservation in the
form "each card in exactly one place" (`Whole`), stage soundness, and `Objects`,
which says what tokens and events belong to (exactly the members readied in their
present stay have a token, each has its event, and no event bears a token that was
not issued yet). Between two helpers of one
step a card may be in no zone, so the lemmas about helpers use `Whole(t, L)`, a
table that is whole but for the cards in limbo `L`: `OffStage` keeps limbo,
`Take` adds to it, `Put` empties it. Each action has a lemma per part.

`ArrivalsKept` states `KeepsArrivals`. The invariant behind it is that the engine's
record covers the arrivals of the turn (`arrived \subseteq entered`). A step either
brings no member to the stage (`Stays`) or one to one area (`Comes`), and in the
second case the area's guard looked at the record (`_member_area_blocks_entry`);
the lemmas about helpers say which of the two each makes of a table.

`DealsOneByOne` states `DealtOneByOne`. Its reference `OneByOne` is a recursive
function over the number of cards. What was dealt after each step, `Dealt(D, W, i,
eager)`, is an explicit solution of that recursion (`DealtStep`: one card more from
what i cards left, with the refresh where the code has it), and induction over the
step shows that there is no other. Nothing here is only model-checked.

## 7. HeartAllocation

`_apply_live_requirements` with the policy of every new match. Each step pays for
one live, or finds that it cannot be paid for; the lives come in any order, as
the player chooses it. `need`, `pool` and `wild` are the effective needs, the
hearts and the wild hearts left; `preserve` is the feasibility test made before
the first live; `paid` what each live took. Nothing is negative here, which the
code asks for before it reserves anything. How modifiers change the needs is an
input. What a live took before it was found short only goes to the event log and
is left out.

| Run | Instance | Shows |
|---|---|---|
| `hearts` | 3 lives, 2 colours and the colourless slot, needs up to 1, pool up to 2 per slot, 2 wild hearts | `OutcomeExact`, `LedgerBalances` |

`OutcomeExact` compares the code with `Payable`, which tries every division of
the hearts and owes nothing to the code's formula: after every step, the lives
still to pay can be paid exactly if all could be paid at the start. Three lives
are enough for a live before and after another; two colours for a heart spent on
the wrong one; a third colour would behave as the second. Deadlock is not
checked, because a judgment ends.

**Proofs** (`HeartAllocation_proofs`), for any number of lives, colours, needs and
hearts: `OutcomeIsExact` and `LedgerHolds`, without hypotheses. The argument has
three parts.

- The test that the code makes before the first live is exact (`PayableIsTest`):
  hearts pass it for some lives exactly when some division of them pays for these
  lives. A stock passes exactly when some payment for one of the lives leaves a
  stock that passes for the others (`TestByStep`); the rest is induction over the
  set of lives, with `StockTable` for the recursion that defines `StocksFor`.
- What the code takes for one live pays for it exactly (`GreedyPays`), and with the
  reserve for later colours the test for the others still passes (`GreedyFits`).
- The invariant `IInv`: the policy chosen at the start is right and stays right
  (`Decided`: hearts that are enough remain enough, and hearts that are not never
  become so), and what was spent is what is missing (`Balanced`).

The library has no facts about sums, so the module first proves those it needs: a
function defined by recursion over the subsets of a finite set exists
(`SetRecursion`), and a sum may be split at any element, added and compared
pointwise (`SumElement`, `SumPointwise`).

## 8. WebClient

One browser page and the server as the page meets it. The page shows a match of
a room or a local one, sends one action at a time, and watches its room.

| Variable | Code |
|---|---|
| `status`, `broken`, `rev` | the server: state of the room, whether its saved match can be read, and the revision of the room's match and of the local one |
| `match`, `session`, `token`, `saved` | the state `match`, `onlineSession` and `matchToken` of `App`, and the local matches kept in the browser |
| `due`, `watch` | the effect that watches the room: whether React has to run it again, and its stream, poll and terminal flag |
| `leaving` | `returnToMatchList` waits for `leaveRoom` |
| `wire` | the user's call and the refreshes in flight, each with what the page showed when it was sent |
| `strayed` | history: an action went to a match that was not the one shown |

A payload is made of two reads (`ReadState`, `ReadEvents`), so its events may be
newer than its state. Commit of an effect, delivery of an answer, a click, a
stream update, a failure and a reload are steps of their own. Answers may be
lost (`Fails`) or come in any order. The page knows one room; a reload loses what
was on its way.

| Run | Instance | Shows |
|---|---|---|
| `web` | revisions up to 3 in the room and 1 locally, one refresh in flight, all calls of the start screen | `EventsFaithful`, `OneWatcher`, `RoomNotKept`; `PollingRecovers` under `FairSpec` |

One refresh and the user's own call are enough for two snapshots that overtake
each other: the refresh was read before the action and is delivered after it.
Three revisions are the deal, an action of each player, and so a gap between
them. A local match has one revision, as only its being shown matters; so the run
makes no move in a local match, and of `RoomNotKept` it exercises only that the
actions of a room keep nothing. Deadlock is checked.

**Fairness.** `WF` of `Commit` (React runs a pending effect), of each poll
(the interval fires), and `SF` of the two reads and of the delivery of a refresh
(the network does not lose every request). No user, other player or stream is
forced. `PollingRecovers` says nothing of a page with an open stream, for good
reason:

- A refresh that is lost or overtaken while the stream is open leaves the page
  stale until the next change; the fallback poll starts only when the stream
  itself fails (402). The slow recovery after ordinary disconnections that
  `docs/development/energy-return-replay-verification.md` (73) speaks of is that
  poll, so this is a hazard of the list rather than a finding.
- A local match opened while an online room waits for its guest sends its actions
  to the room (678); they are refused until the guest joins and accepted if the
  revisions happen to agree. `EventsFaithful` excludes what follows (`strayed`).
- An answer that is in flight when the player leaves shows the left match again
  (612): the leave button is not disabled.
- Switching the language rebuilds the effect and so retries after an answer that
  was taken as final.

**Proofs** (`WebClient_proofs`), for any number of refreshes in flight, any calls of
the start screen and any bound on the revisions: `EventsFaithfulHolds`,
`OneWatcherHolds` and `RoomNotKeptHolds`, without hypotheses. The inductive
invariant says what a request on its way carries: slots carry refreshes only
(`Purposes`); an answer's events were read no earlier than its state, and both are
some moment of its match (`Sound`); an action carries the list that was shown when
the button was pressed, which is a beginning of the log no older than its revision,
and since the server accepts it on the last revision only, its event is the next one
(`Acting`). A revision is never taken back (`Undealt`: the guest's joining is what
deals the match), so what was true of an answer when it was read stays true while it
waits. `MergeLogs` then shows that merging two beginnings of one log gives the longer
one (`mergeEvents`). `RoomNotKept` rests on the same invariant: an action made without
a session is accepted only on the local match. Only model-checked: `PollingRecovers`
(liveness).

## 9. OwnerLock

The lock of the workflow tools: a lock directory with an owner stamp, a gate
directory held while the lock is created, moved or retired, and a kernel mutex
around taking and dropping the gate. A kill frees the mutex and leaves both
directories behind.

| Variable | Code |
|---|---|
| `up`, `inc` | whether a process lives, and which bearer of its PID it is; the pair stands for the owner token |
| `mutex`, `gate`, `lock`, `aside` | the kernel mutex, `<lock>.reap` with its releasable marker, the lock directory (its stamp missing, half-written or valid; older than the grace period or not), and what a reaper moved away |
| `pc`, `goal`, `cand`, `won` | where a command is, what it wants the gate for, the directory it judged, and the result |
| `debt`, `pending` | `PENDING_REAP_GATE_RELEASES`, and `releasePending` of the receipt |

Acquiring, releasing, reaping and the doctor's `--clear` are sequences of steps,
one per file-system call that another process can see; a kill may fall between
any two. Writing the stamp is two steps, since `writeFileSync` creates
`owner.json` in its place before it writes it. One lock is modelled; a rename
succeeds within its hundred attempts, and a stamp is never unreadable for want
of permission.
`GenSeen` says whether the platform tells a reused PID from the old one.

| Run | Instance | Shows |
|---|---|---|
| `lock` | 2 processes, 2 kills, PIDs reused | `MutualExclusion`, `HolderKept`, `NothingAstray`, `FailsClosed`; `Recovers` under `FairSpec` |

Two processes make every pair of steps interleave, and two kills kill a process
and then the one that recovers after it. Deadlock is checked.

**Fairness.** `WF` of a process's own steps (a command runs until it ends), `SF`
of creating and of writing a stamp (neither fails for ever) and of asking for the lock (a
command that could not get it is run again), `WF` of `Age`. `Recovers` then says:
when one process is left alive, it gets the lock again and again, unless a
killed one left its stamp half-written (`Torn`). It assumes `GenSeen`; without it
a reused PID may pass for the dead owner.

**What does not recover.** A kill between the creation of `owner.json` and the
write of it leaves a stamp that `inspectOwnerStamp` reports as "invalid". It is
neither a missing stamp, which ages and is reaped, nor one that names a dead
owner: `reapCandidate` never takes it and the doctor reports it without clearing
it. The comments say so of malformed stamps (aidlc-lib.ts 16849-16853,
aidlc-utility.ts 3332-3335): recovery fails closed and asks for a removal by
hand. `FailsClosed` is that promise, `Recovers` its price: of all that a killed
process may leave behind, the half-written stamp is the only thing that keeps
the last process from the lock.

**Proofs** (`OwnerLock_proofs`), for any processes, kills and either `GenSeen`:
`LockTypeCorrect`, `MutualExclusionHolds`, `HolderKeptHolds`,
`NothingAstrayHolds` and `FailsClosedHolds`. The inductive invariant says who holds what where in the
code: exactly the process in the mutex's section has the mutex (`MutexHeld`), one under
the gate has the gate (`GateHeld`), and only a live process is anywhere (`Alive`);
no directory bears an
incarnation that does not exist yet (`Past`); what is aside is there under its
own gate (`AsideKept`); and the lock of a live process has the stamp its program
counter says (`Owned`, `Holders`, `Goals`): so nobody is about to stamp, move or
retire a lock whose stamp is half-written. Only model-checked:
`Recovers` (liveness).

## 10. Mutants

Each checked property has a mutant: a plausible bug in a definition, kept just
before the definition it alters and marked as a mutant. None is used by the
specification.

## 11. What is not proved, and not modelled

Every invariant and action property that a run checks and expects to hold, and
both refinements, are stated by a theorem. Eight theorems about the match and one
about the store have hypotheses on the adjustments, requests or faults; sections 3
and 4 say which and why. Model-checked only, because the prover has no fairness, is
liveness: `TurnsEnd`, `Served`, `Recovers` and `PollingRecovers`. The finding
(`cutoff`) is a counterexample of the model checker.

The library's induction theorems take the statement as an operator, which the
provers here cannot instantiate. Where a proof needs induction, the project proves
it for a set of numbers or of sets (`NatSetInduction`, `SubsetInduction`, from the
well-foundedness of the naturals) and applies it to the set of those for which
the statement holds. A recursive function is handled by giving or constructing a
solution of its equation. No module declares a recursive operator.

Not modelled: the individual effects, which are data to the flow; the AI's choice
of an action, rulesets and visibility, which keep no state; the card database with
its importers and the catalog, which are read-only at run time; decks and their
files; the command line; the rollback guard; the rendering, deck builder and
offline preview of the front end; development tools; and the workflow kit but for
its lock. `PROJECT.json` gives the reason for each.
