------------------------------ MODULE MatchFlow ------------------------------
(***************************************************************************)
(* The control skeleton of a match: the phase machine of engine.py, the    *)
(* one pending choice, the queue of triggered effects, and the live        *)
(* judgment that moves live cards to the success areas and ends the match. *)
(*                                                                         *)
(* A step is one accepted ActionRequest (engine.py:75).  The handler runs  *)
(* to its end inside the step, the automatic resolution of the effect      *)
(* queue and the continuation of the phase included.  A request that the   *)
(* engine refuses, or whose handler raises, leaves the stored state alone  *)
(* (it worked on a deep copy) and is no step here.                         *)
(*                                                                         *)
(* Decks, hands, energy and the stage are abstracted: an action that       *)
(* depends on them only (which cards a mulligan replaces, whether the      *)
(* hearts of a yell suffice, which triggers fire) is a nondeterministic    *)
(* choice between its outcomes.                                            *)
(***************************************************************************)
EXTENDS Integers, FiniteSets, Sequences, Functions, SequencesExt

CONSTANTS
    P1, P2,          \* the two players of a match
    NoPlayer,        \* Python's None where a player id is expected
    CardsOf,         \* [Player -> set of cards a player may put in a live area]
    LiveCard,        \* the cards whose card_type is "live"; the others bluff
    Score,           \* [sets of cards -> printed and static score of that live area]
    MaxSet,          \* how many cards set_live_cards takes (3 in the code)
    Invocation,      \* the effect invocations that may be queued in a turn
    NoInvocation,
    Owner,           \* [Invocation -> Player]
    Kind,            \* [Invocation -> how the effect is resolved]
    Optional,        \* the invocations of effects with is_optional
    Trigger,         \* [Invocation -> what queues it]
    Impact,          \* [Invocation -> what its operations do to the judgment]
    Chain,           \* [Invocation -> invocations its operations trigger]
    Adjustments,     \* the kinds of manual adjustment the players use
    HandScores,      \* what the score modifiers of one duration may be set to by hand
    OfferedOnly,     \* only actions listed by generate_legal_actions are sent
    MaxTurn          \* bound: no turn after this one is started

Player == {P1, P2}
Opp(p) == IF p = P1 THEN P2 ELSE P1
Card == UNION {CardsOf[p] : p \in Player}

Kinds == {"simple", "two_step", "inspect", "multi", "manual"}
Triggers == {"member_played", "activated", "live_started", "live_succeeded",
             "left_stage", "chain"}
Impacts == {"none", "score", "block"}

ASSUME PlayersAssumption ==
    /\ P1 # P2 /\ NoPlayer \notin Player
    /\ {"none", "draw"} \cap Player = {}     \* outcomes without a winner
ASSUME CardsAssumption ==
    /\ CardsOf \in [Player -> SUBSET Card]
    /\ CardsOf[P1] \cap CardsOf[P2] = {}
    /\ IsFiniteSet(Card)
    /\ LiveCard \subseteq Card
    /\ Score \in [SUBSET Card -> Nat]
    /\ MaxSet \in Nat
ASSUME EffectsAssumption ==
    /\ IsFiniteSet(Invocation)
    /\ NoInvocation \notin Invocation
    /\ Owner \in [Invocation -> Player]
    /\ Kind \in [Invocation -> Kinds]
    /\ Optional \subseteq Invocation
    /\ Trigger \in [Invocation -> Triggers]
    /\ Impact \in [Invocation -> Impacts]
    /\ Chain \in [Invocation -> SUBSET Invocation]
    \* prevent_equal_score_success_live_placement is a live_succeeded operation
    /\ \A i \in Invocation : Impact[i] = "block" => Trigger[i] = "live_succeeded"
    \* what an operation triggers waits for nothing else to trigger it
    /\ \A i \in Invocation : \A j \in Chain[i] : Trigger[j] = "chain"
ASSUME BoundsAssumption ==
    /\ MaxTurn \in Nat \ {0}
    /\ OfferedOnly \in BOOLEAN
    /\ Adjustments \subseteq {"stage_departure", "inspect", "live_move",
                              "success_move", "resolution_move", "score"}
    /\ HandScores \subseteq [Player -> Int]

VARIABLES
    phase,      \* MatchState.phase
    turn,       \* turn_number
    first,      \* first_player_id
    active,     \* active_player_id
    choice,     \* pending_choice
    fx,         \* pending_effects and what effects have left behind
    zones,      \* live areas, success live areas, resolution areas
    total,      \* live_result.total_score of each player
    queued,     \* live_success_effects_queued
    winners,    \* live_winner_ids
    result,     \* game_result
    nextFirst   \* next_first_player_id

vars == <<phase, turn, first, active, choice, fx, zones, total, queued,
          winners, result, nextFirst>>

second == Opp(first)

TurnPhases == {"first_active", "first_energy", "first_draw", "first_main",
               "second_active", "second_energy", "second_draw", "second_main"}
SetupPhases == {"setup_choose_first", "setup_mulligan_first", "setup_mulligan_second"}
PerformancePhases == {"performance_first", "performance_second"}
YellPhases == {"yell_first", "yell_second"}
Phases == SetupPhases \cup TurnPhases \cup PerformancePhases \cup YellPhases \cup
          {"live_set_first", "live_set_second", "live_judgment",
           "turn_complete", "complete"}

\* The phases of the first player and of the second player.
FirstPhases == {"setup_mulligan_first", "first_active", "first_energy", "first_draw",
                "first_main", "live_set_first", "performance_first", "yell_first"}
SecondPhases == {"setup_mulligan_second", "second_active", "second_energy",
                 "second_draw", "second_main", "live_set_second",
                 "performance_second", "yell_second"}

\* PendingChoice.  inv is options.invocation_id of an effect choice or
\* options.source_invocation_id of a manual one; rest holds the players who
\* choose next (remaining_player_ids, or player_order after current_index).
ChoiceKinds == {"none", "mulligan", "live_requirements", "success_live",
                "manual", "inspection", "multi"}
ChoiceOf(kind, p, i, cards, rest) ==
    [kind |-> kind, player |-> p, inv |-> i, cards |-> cards, rest |-> rest]
NoChoice == ChoiceOf("none", NoPlayer, NoInvocation, {}, <<>>)

\* Results of a match: GameResult.outcome with its winner.
Results == {"none", "draw"} \cup Player

-----------------------------------------------------------------------------
(***************************************************************************)
(* The effect queue.                                                       *)
(***************************************************************************)

\* An effect of this kind resolves without its owner: _resolve_automatic_effects
\* stops at an effect that is optional, has a choice or a cost, or is manual.
Automatic == {i \in Invocation : Kind[i] = "simple"} \ Optional

\* The triggers that can still fire this turn: what is queued or was queued
\* already is another invocation object.
Fresh(f, S) == S \ (f.pending \cup f.done)
Triggered(f, trigger, S) ==
    Fresh(f, {i \in Invocation : Trigger[i] = trigger /\ Owner[i] \in S})

\* Live Set and judgment have no turn player, the first player stands in.
EffectActive ==
    IF phase \in {"second_active", "second_energy", "second_draw", "second_main",
                  "performance_second", "yell_second"}
    THEN second ELSE first

\* The half-resolved effect, or the one whose choice is open.
Lock(f, ch) == IF ch.inv \in f.pending THEN {ch.inv} ELSE f.started

\* The invocations one of which has to be resolved next.  A definition marked
\* as a mutant is a plausible bug in the one it precedes and is used nowhere.
BatchOwnOnly(f, ch) ==      \* mutant: the other player's effects get no turn
    IF Lock(f, ch) # {} THEN Lock(f, ch) ELSE {i \in f.pending : Owner[i] = EffectActive}
BatchAnyOrder(f, ch) ==     \* mutant: the turn player has no precedence
    IF Lock(f, ch) # {} THEN Lock(f, ch) ELSE f.pending
Batch(f, ch) ==
    LET own == {i \in f.pending : Owner[i] = EffectActive}
    IN  IF Lock(f, ch) # {} THEN Lock(f, ch)
        ELSE IF own # {} THEN own ELSE f.pending

\* The effects of D have been executed on the zones z: they leave the queue for
\* good, their score bonuses count, they may block placements, and what they
\* trigger waits.
After(f, D, z) ==
    LET chained == UNION {Chain[i] : i \in D}
        scores(p) == {i \in D : Impact[i] = "score" /\ Owner[i] = p}
        tie == /\ \A p \in Player : z.live[p] # {}
               /\ total[P1] = total[P2]
    IN  [f EXCEPT !.pending = (@ \cup Fresh(f, chained)) \ D,
                  !.started = @ \ D,
                  !.done    = @ \cup D,
                  !.bonus   = [p \in Player |-> @[p] + Cardinality(scores(p))],
                  !.blocked = @ \/ (tie /\ \E i \in D : Impact[i] = "block")]

\* An invocation is removed without being executed.
Drop(f, i) == [f EXCEPT !.pending = @ \ {i}, !.started = @ \ {i},
                        !.done = @ \cup {i}]

\* The effect the loop of _resolve_automatic_effects executes next, if any.
NextAuto(f, ch) ==
    IF ch # NoChoice \/ Lock(f, ch) # {} \/ Cardinality(Batch(f, ch)) > 1
    THEN {} ELSE Batch(f, ch) \cap Automatic

\* s is the run of the loop: each effect in its turn, until there is none.
AutoOrders == SetToAllKPermutations(Automatic)
IsAutoRun(f, ch, z, s) ==
    /\ \A k \in DOMAIN s :
          NextAuto(After(f, {s[j] : j \in {m \in DOMAIN s : m < k}}, z), ch) = {s[k]}
    /\ NextAuto(After(f, Range(s), z), ch) = {}

\* The queue once the loop has ended (a set with the one outcome).
AutoRun(f, ch, z) ==
    {After(f, Range(s), z) : s \in {o \in AutoOrders : IsAutoRun(f, ch, z, o)}}

NoBonus == [p \in Player |-> 0]
Queue(f, T) == [f EXCEPT !.pending = @ \cup T]

\* The score of a player's live area with the modifiers of every duration.
ScoreOf(z, f, p) == Score[z.live[p]] + f.bonus[p] + f.turnBonus[p] + f.gameBonus[p]

-----------------------------------------------------------------------------
(***************************************************************************)
(* Live judgment.                                                          *)
(***************************************************************************)

\* _cleanup_live_judgment_zones
ClearedOfInspected(z) ==    \* mutant: cards put in a resolution area by hand stay
    [z EXCEPT !.live = [p \in Player |-> {}], !.inspecting = {}]
Cleared(z) ==
    [z EXCEPT !.live = [p \in Player |-> {}], !.inspecting = {}, !.strays = {}]

\* _complete_live_judgment: the live and resolution areas go to the waiting
\* room, the success areas decide, and unless the match is over the score
\* modifiers expire and the next first player is the only one who moved a card.
CompleteJudgment(z, f) ==
    LET reached == {p \in Player : Cardinality(z.success[p]) >= 3}
        movers  == {p \in Player : z.moved[p] # {}}
    IN  /\ zones' = Cleared(z)
        /\ choice' = NoChoice
        /\ active' = NoPlayer
        /\ IF reached = {}
           THEN /\ phase' = "turn_complete"
                /\ fx' = [f EXCEPT !.bonus = NoBonus]
                /\ nextFirst' = IF Cardinality(movers) = 1
                                THEN CHOOSE p \in Player : movers = {p}
                                ELSE first
                /\ UNCHANGED result
           ELSE /\ phase' = "complete"
                /\ fx' = f
                /\ result' = IF reached = Player THEN "draw"
                             ELSE CHOOSE p \in Player : reached = {p}
                /\ nextFirst' = NoPlayer

\* The winners whose turn comes after the k-th has chosen.
ChooseNextNone(remaining, k) == <<>>    \* mutant: the loop over winners is not resumed
ChooseNext(remaining, k) == SubSeq(remaining, k + 1, Len(remaining))

\* What _finish_judgment_choices does with the winners that may place a card:
\* one with a single live card places it, the first with several is asked.
FinishJudgmentChoices(z, remaining, f) ==
    LET askers == {k \in DOMAIN remaining : Cardinality(z.live[remaining[k]]) > 1}
        before(k) == {remaining[j] : j \in {m \in DOMAIN remaining : m < k}}
        PlaceSingle(S) ==
            [z EXCEPT !.live    = [p \in Player |-> IF p \in S THEN {} ELSE @[p]],
                      !.success = [p \in Player |->
                                      IF p \in S THEN @[p] \cup z.live[p] ELSE @[p]],
                      !.moved   = [p \in Player |->
                                      IF p \in S THEN @[p] \cup z.live[p] ELSE @[p]]]
    IN  \/ \E k \in askers :
              /\ \A j \in askers : k <= j
              /\ zones' = PlaceSingle(before(k))
              /\ choice' = ChoiceOf("success_live", remaining[k], NoInvocation,
                                    z.live[remaining[k]], ChooseNext(remaining, k))
              /\ active' = remaining[k]
              /\ fx' = f
              /\ UNCHANGED <<phase, result, nextFirst>>
        \/ /\ askers = {}
           /\ CompleteJudgment(PlaceSingle(Range(remaining)), f)

\* The winners in the order first player, second player.
InTurnOrderBoth(S) == <<first, second>>     \* mutant: winners are not filtered
InTurnOrder(S) ==
    IF S = Player THEN <<first, second>>
    ELSE IF first \in S THEN <<first>>
    ELSE IF second \in S THEN <<second>> ELSE <<>>

\* Who may place a card: nobody if an effect blocks it, and of two winners
\* only those who are not at match point.
EligibleAtMatchPoint(z, f, won) == IF f.blocked THEN {} ELSE won    \* mutant
Eligible(z, f, won) ==
    LET matchPoint == {p \in Player : Cardinality(z.success[p]) >= 2}
    IN  IF f.blocked THEN {} ELSE IF won = Player THEN won \ matchPoint ELSE won

\* _continue_live_judgment_after_success_effects: scores are refreshed, the
\* winners determined, and those of them that may place a card do.
Judge(z, f) ==
    LET has == {p \in Player : z.live[p] # {}}
        scoreOf(p) == IF p \in has THEN ScoreOf(z, f, p) ELSE 0
        won == {p \in has : Opp(p) \in has => scoreOf(p) >= scoreOf(Opp(p))}
    IN  /\ total' = [p \in Player |-> scoreOf(p)]
        /\ winners' = won
        /\ FinishJudgmentChoices(z, InTurnOrder(Eligible(z, f, won)), f)

\* The end of every handler that works on the queue: the automatic effects are
\* resolved, then _continue_after_effect_queue moves the phase when no effect
\* is left.  f, ch and z are the queue, the choice and the zones so far.
Settle(f, ch, z) ==
    \E g \in AutoRun(f, ch, z) :
       \/ /\ g.pending = {}
          /\ phase \in PerformancePhases
          /\ phase' = IF phase = "performance_first" THEN "yell_first" ELSE "yell_second"
          /\ fx' = g /\ choice' = ch /\ zones' = z
          /\ UNCHANGED <<active, total, winners, result, nextFirst>>
       \/ /\ g.pending = {}
          /\ phase = "live_judgment" /\ queued
          /\ Judge(z, g)
       \/ /\ \/ g.pending # {}
             \/ phase \notin PerformancePhases /\ ~(phase = "live_judgment" /\ queued)
          /\ fx' = g /\ choice' = ch /\ zones' = z
          /\ UNCHANGED <<phase, active, total, winners, result, nextFirst>>

-----------------------------------------------------------------------------
(***************************************************************************)
(* What generate_legal_actions offers.                                     *)
(***************************************************************************)

OfferedInPhase ==
    CASE phase = "setup_choose_first" -> {"choose_first_player"}
      [] phase # "setup_choose_first" /\ choice.kind = "mulligan" -> {"submit_mulligan"}
      [] choice.kind \in {"live_requirements", "success_live"} ->
            {"resolve_live_requirements"}
      [] phase \in {"first_main", "second_main"} /\ choice = NoChoice ->
            {"play_member", "activate_effect", "end_main_phase"}
      [] phase \in {"live_set_first", "live_set_second"} /\ choice = NoChoice ->
            {"set_live_cards"}
      [] OTHER -> {"advance_phase"}

OfferedOutsideInspection ==
    IF choice.kind \in {"inspection", "multi"} THEN {"resolve_effect_choice", "skip_effect"}
    ELSE IF fx.pending # {}
         THEN {"resolve_effect", "skip_effect"} \cup
              (IF \E i \in Batch(fx, choice) : Kind[i] = "manual"
               THEN {"manual_adjustment"} ELSE {})
    ELSE IF phase = "turn_complete" THEN {"start_next_turn"}
    ELSE OfferedInPhase \cup {"manual_adjustment"}
OfferedBesideInspection ==      \* mutant: the phase goes on beside a manual inspection
    OfferedOutsideInspection \cup
        (IF choice.kind = "manual" THEN {"resolve_manual_inspection"} ELSE {})
Offered ==
    IF phase = "complete" THEN {}
    ELSE IF choice.kind = "manual" THEN {"resolve_manual_inspection"}
    ELSE OfferedOutsideInspection

\* The sender respects the offer, if senders do; the engine does not check it.
Sent(action) == OfferedOnly => action \in Offered

\* apply_action: these requests are refused while an effect is pending.
QueueIdle == fx.started = {}     \* mutant: only a half-resolved effect holds them up
QueueEmpty == fx.pending = {}

-----------------------------------------------------------------------------
\* pending_effects; those past resolution_stage "initial"; what has left the
\* queue this turn; score modifiers by duration; blocked placements.
NoFx == [pending |-> {}, started |-> {}, done |-> {}, bonus |-> NoBonus,
         turnBonus |-> NoBonus, gameBonus |-> NoBonus, blocked |-> FALSE]
\* Live areas, success areas, cards placed in this judgment; the players whose
\* resolution area holds inspected cards, or cards put there by hand.
NoZones == [live |-> [p \in Player |-> {}], success |-> [p \in Player |-> {}],
            moved |-> [p \in Player |-> {}], inspecting |-> {}, strays |-> {}]

Init ==
    /\ phase = "setup_choose_first" /\ turn = 1
    /\ first = NoPlayer /\ active = NoPlayer /\ nextFirst = NoPlayer
    /\ choice = NoChoice
    /\ fx = NoFx /\ zones = NoZones
    /\ total = [p \in Player |-> 0]
    /\ queued = FALSE /\ winners = {} /\ result = "none"

ChooseFirstPlayer(p) ==
    /\ Sent("choose_first_player") /\ QueueEmpty
    /\ phase = "setup_choose_first"
    /\ first' = p /\ active' = p
    /\ phase' = "setup_mulligan_first"
    /\ choice' = ChoiceOf("mulligan", p, NoInvocation, {}, <<>>)
    /\ UNCHANGED <<turn, fx, zones, total, queued, winners, result, nextFirst>>

SubmitMulligan ==
    /\ Sent("submit_mulligan") /\ QueueEmpty
    /\ choice.kind = "mulligan"
    /\ IF choice.player = first
       THEN /\ phase' = "setup_mulligan_second" /\ active' = second
            /\ choice' = ChoiceOf("mulligan", second, NoInvocation, {}, <<>>)
       ELSE /\ phase' = "first_active" /\ active' = first
            /\ choice' = NoChoice
    /\ UNCHANGED <<turn, first, fx, zones, total, queued, winners, result, nextFirst>>

\* The guard every branch of _advance_phase shares.
MayAdvance ==
    /\ Sent("advance_phase") /\ QueueEmpty
    /\ choice.kind \notin {"live_requirements", "success_live"}

\* The active, energy and draw phases.
TransitionAstray ==         \* mutant: a phase nothing handles
    [p \in TurnPhases |-> IF p = "first_active" THEN "main_first" ELSE "first_main"]
TransitionBack ==           \* mutant: the draw phase leads back to the active phase
    [p \in {"first_active", "first_energy", "first_draw"} |->
        CASE p = "first_active" -> "first_energy" [] p = "first_energy" -> "first_draw"
          [] p = "first_draw" -> "first_active"]
Transition == [first_active  |-> "first_energy",  first_energy  |-> "first_draw",
               first_draw    |-> "first_main",    second_active |-> "second_energy",
               second_energy |-> "second_draw",   second_draw   |-> "second_main"]
AdvancePhase ==
    /\ MayAdvance
    /\ phase \in DOMAIN Transition
    /\ phase' = Transition[phase]
    /\ UNCHANGED <<turn, first, active, choice, fx, zones, total, queued, winners,
                   result, nextFirst>>

\* _reveal_current_live_cards: what is left of the cards set face down, the
\* others go to the waiting room.
RevealedAll(p) == zones.live[p]     \* mutant: bluffs are turned but not discarded
Revealed(p) == zones.live[p] \cap LiveCard

\* Performance: the face-down cards are revealed, and the live_started effects
\* of a player who has a live are queued.
Perform(T) ==
    /\ MayAdvance
    /\ phase \in PerformancePhases
    /\ T \subseteq (IF Revealed(active) = {} THEN {}
                    ELSE Triggered(fx, "live_started", {active}))
    /\ zones' = [zones EXCEPT !.live[active] = Revealed(active)]
    /\ total' = [total EXCEPT ![active] = 0]
    /\ \E g \in AutoRun(Queue(fx, T), choice,
                       [zones EXCEPT !.live[active] = Revealed(active)]) :
          /\ fx' = g
          /\ phase' = IF g.pending # {} THEN phase
                      ELSE IF phase = "performance_first" THEN "yell_first"
                      ELSE "yell_second"
    /\ UNCHANGED <<turn, first, active, choice, queued, winners, result, nextFirst>>

\* _continue_after_yell
AfterYell ==
    IF phase = "yell_first"
    THEN phase' = "performance_second" /\ active' = second
    ELSE phase' = "live_judgment" /\ active' = NoPlayer

\* _apply_live_requirements for a player whose hearts suffice or do not.
ApplyRequirements(p, satisfied) ==
    IF satisfied
    THEN /\ total' = [total EXCEPT ![p] = ScoreOf(zones, fx, p)]
         /\ UNCHANGED zones
    ELSE /\ zones' = [zones EXCEPT !.live[p] = {}]
         /\ total' = [total EXCEPT ![p] = 0]

\* With several lives, or all-colour hearts, the order is the player's choice.
YellAsks ==
    /\ MayAdvance
    /\ phase \in YellPhases
    /\ zones.live[active] # {}
    /\ choice' = ChoiceOf("live_requirements", active, NoInvocation,
                          zones.live[active], <<>>)
    /\ total' = [total EXCEPT ![active] = 0]
    /\ UNCHANGED <<phase, turn, first, active, fx, zones, queued, winners, result,
                   nextFirst>>

YellDecides(satisfied) ==
    /\ MayAdvance
    /\ phase \in YellPhases
    /\ Cardinality(zones.live[active]) <= 1
    /\ IF zones.live[active] = {} THEN UNCHANGED <<total, zones>>
       ELSE ApplyRequirements(active, satisfied)
    /\ IF choice = NoChoice THEN AfterYell ELSE UNCHANGED <<phase, active>>
    /\ UNCHANGED <<turn, first, choice, fx, queued, winners, result, nextFirst>>

\* live_judgment: the live_succeeded effects are queued, and judged at once if
\* none is left after the automatic ones.
BeginJudgment(T) ==
    /\ MayAdvance
    /\ phase = "live_judgment"
    /\ LET z == [zones EXCEPT !.moved = [p \in Player |-> {}]]
           f == [fx EXCEPT !.blocked = FALSE]
           successful == {p \in Player : zones.live[p] # {}}
           \* condition live_score_relation = equal_to_opponent at the trigger
           fires(i) == Impact[i] = "block" => total[P1] = total[P2]
       IN  /\ T \subseteq {i \in Triggered(f, "live_succeeded", successful) : fires(i)}
           /\ \E g \in AutoRun(Queue(f, T), choice, z) :
                 IF g.pending # {}
                 THEN /\ fx' = g /\ zones' = z
                      /\ UNCHANGED <<phase, active, choice, total, winners, result,
                                     nextFirst>>
                 ELSE Judge(z, g)
    /\ queued' = TRUE
    /\ UNCHANGED <<turn, first>>

\* A member is played: its triggers, and those of the member it replaces.
PlayMember(T) ==
    /\ Sent("play_member") /\ QueueEmpty
    /\ phase \in {"first_main", "second_main"}
    /\ T # {}       \* nothing this module keeps changes otherwise
    /\ T \subseteq Triggered(fx, "member_played", {active}) \cup
                   Triggered(fx, "left_stage", {active})
    /\ \E g \in AutoRun(Queue(fx, T), choice, zones) : fx' = g
    /\ UNCHANGED <<phase, turn, first, active, choice, zones, total, queued, winners,
                   result, nextFirst>>

\* An activated effect is used at once, or waits half-resolved for its choice;
\* one whose cost is still to be chosen waits with nothing paid.
ActivateEffect(i) ==
    /\ Sent("activate_effect") /\ QueueEmpty
    /\ phase \in {"first_main", "second_main"}
    /\ i \in Triggered(fx, "activated", {active})
    /\ \/ /\ Kind[i] = "simple"
          /\ Settle(After(fx, {i}, zones), choice, zones)
       \/ /\ Kind[i] # "simple"
          /\ fx' = Queue(fx, {i})
          /\ UNCHANGED <<phase, active, choice, zones, total, winners, result, nextFirst>>
       \/ /\ Kind[i] = "inspect" /\ choice = NoChoice
          /\ fx' = [fx EXCEPT !.pending = @ \cup {i}, !.started = @ \cup {i}]
          /\ choice' = ChoiceOf("inspection", active, i, {}, <<>>)
          /\ zones' = [zones EXCEPT !.inspecting = @ \cup {active}]
          /\ UNCHANGED <<phase, active, total, winners, result, nextFirst>>
       \/ /\ Kind[i] \in {"two_step", "manual"}
          /\ fx' = [fx EXCEPT !.pending = @ \cup {i}, !.started = @ \cup {i}]
          /\ UNCHANGED <<phase, active, choice, zones, total, winners, result, nextFirst>>
    /\ UNCHANGED <<turn, first, queued>>

EndMainPhase ==
    /\ Sent("end_main_phase") /\ QueueEmpty
    /\ \/ phase = "first_main" /\ phase' = "second_active" /\ active' = second
       \/ phase = "second_main" /\ phase' = "live_set_first" /\ active' = first
    /\ UNCHANGED <<turn, first, choice, fx, zones, total, queued, winners, result,
                   nextFirst>>

SetLiveCards(S) ==
    /\ Sent("set_live_cards") /\ QueueEmpty
    /\ phase \in {"live_set_first", "live_set_second"}
    /\ S \subseteq CardsOf[active] \ (zones.live[active] \cup zones.success[active])
    /\ Cardinality(S) <= MaxSet
    /\ zones' = [zones EXCEPT !.live[active] = @ \cup S]
    /\ IF phase = "live_set_first"
       THEN phase' = "live_set_second" /\ active' = second
       ELSE phase' = "performance_first" /\ active' = first
    /\ UNCHANGED <<turn, first, choice, fx, total, queued, winners, result, nextFirst>>

\* resolve_live_requirements answers both live choices.
OrderRequirements(satisfied) ==
    /\ Sent("resolve_live_requirements") /\ QueueEmpty
    /\ choice.kind = "live_requirements"
    /\ ApplyRequirements(choice.player, satisfied)
    /\ choice' = NoChoice
    /\ AfterYell
    /\ UNCHANGED <<turn, first, fx, queued, winners, result, nextFirst>>

ChooseSuccessLive(c) ==
    /\ Sent("resolve_live_requirements") /\ QueueEmpty
    /\ choice.kind = "success_live"
    /\ c \in choice.cards
    /\ c \in zones.live[choice.player]       \* list.remove raises otherwise
    /\ LET p == choice.player
           z == [zones EXCEPT !.live[p] = @ \ {c}, !.success[p] = @ \cup {c},
                              !.moved[p] = @ \cup {c}]
       IN  FinishJudgmentChoices(z, choice.rest, fx)
    /\ UNCHANGED <<turn, first, total, queued, winners>>

-----------------------------------------------------------------------------
(***************************************************************************)
(* The effect actions.                                                     *)
(***************************************************************************)

MayResolve(i) ==
    /\ Sent("resolve_effect")
    /\ choice = NoChoice
    /\ i \in Batch(fx, choice)

\* accepted = FALSE for an optional effect, or a trigger whose condition has
\* become stale by the time its resolution starts.
DeclineEffect(i) ==
    /\ MayResolve(i)
    /\ i \in Optional \/ (Kind[i] # "manual" /\ i \notin fx.started)
    /\ Settle(Drop(fx, i), choice, zones)
    /\ UNCHANGED <<turn, first, queued>>

\* The cost is paid and a choice is left: of the owner over the cards on the
\* field, of the owner over inspected cards, or of both players in turn.
StartEffect(i) ==
    /\ MayResolve(i)
    /\ i \notin fx.started
    /\ Kind[i] \in {"two_step", "inspect", "multi"}
    /\ fx' = [fx EXCEPT !.started = @ \cup {i}]
    /\ choice' = CASE Kind[i] = "two_step" -> NoChoice
                   [] Kind[i] = "inspect" ->
                         ChoiceOf("inspection", Owner[i], i, {}, <<>>)
                   [] Kind[i] = "multi" ->
                         ChoiceOf("multi", EffectActive, i, {}, <<Opp(EffectActive)>>)
    /\ zones' = IF Kind[i] = "inspect"
                THEN [zones EXCEPT !.inspecting = @ \cup {Owner[i]}] ELSE zones
    /\ UNCHANGED <<phase, turn, first, active, total, queued, winners, result, nextFirst>>

ExecuteEffect(i) ==
    /\ MayResolve(i)
    /\ Kind[i] = "simple" \/ (Kind[i] = "two_step" /\ i \in fx.started)
    /\ Settle(After(fx, {i}, zones), choice, zones)
    /\ UNCHANGED <<turn, first, queued>>

ResolveInspection ==
    /\ Sent("resolve_effect_choice")
    /\ choice.kind = "inspection"
    /\ choice.inv \in fx.pending
    /\ Settle(After(fx, {choice.inv}, zones), NoChoice,
              [zones EXCEPT !.inspecting = @ \ {choice.player}])
    /\ UNCHANGED <<turn, first, queued>>

\* The next player is passed over when nothing is required of that player.
AnswerMultiPlayer ==
    /\ Sent("resolve_effect_choice")
    /\ choice.kind = "multi"
    /\ \/ /\ choice.rest # <<>>
          /\ choice' = [choice EXCEPT !.player = Head(choice.rest),
                                      !.rest = Tail(choice.rest)]
          /\ UNCHANGED <<phase, active, fx, zones, total, winners, result, nextFirst>>
       \/ /\ choice.inv \in fx.pending
          /\ Settle(After(fx, {choice.inv}, zones), NoChoice, zones)
    /\ UNCHANGED <<turn, first, queued>>

\* Skipping closes the choice only when options.invocation_id names the effect,
\* which a manual choice does not have.
ClosedBySkipOne(i) == choice.kind = "inspection" /\ choice.inv = i     \* mutant
ClosedBySkip(i) == choice.kind \in {"inspection", "multi"} /\ choice.inv = i

\* skip_effect discards an effect of the batch.
SkipEffect(i) ==
    /\ Sent("skip_effect")
    /\ i \in Batch(fx, choice)
    /\ LET z == IF ClosedBySkip(i) /\ choice.kind = "inspection"
                THEN [zones EXCEPT !.inspecting = @ \ {Owner[i]}] ELSE zones
       IN  Settle(Drop(fx, i), IF ClosedBySkip(i) THEN NoChoice ELSE choice, z)
    /\ UNCHANGED <<turn, first, queued>>

-----------------------------------------------------------------------------
(***************************************************************************)
(* Manual adjustments.  With a source they stand for a manual_resolution   *)
(* effect of the batch; without one they need an empty queue.              *)
(***************************************************************************)

\* What a list of adjustments may do to the state kept here: move cards into
\* and out of the areas, change score modifiers, and move members off the stage.
ByHand(kind, S, now) == IF kind \in Adjustments THEN S \cup {now} ELSE {now}
Areas == {L \in [Player -> SUBSET Card] : \A p \in Player : L[p] \subseteq CardsOf[p]}
HandZones ==
    {z \in [live       : ByHand("live_move", Areas, zones.live),
            success    : ByHand("success_move", Areas, zones.success),
            moved      : {zones.moved},
            inspecting : ByHand("resolution_move", SUBSET zones.inspecting,
                                zones.inspecting),
            strays     : ByHand("resolution_move", SUBSET Player, zones.strays)] :
        \A p \in Player : z.live[p] \cap z.success[p] = {}}
HandFx ==
    [pending : {fx.pending}, started : {fx.started}, done : {fx.done},
     bonus     : ByHand("score", HandScores, fx.bonus),
     turnBonus : ByHand("score", HandScores, fx.turnBonus),
     gameBonus : ByHand("score", HandScores, fx.gameBonus),
     blocked : {fx.blocked}]
Departures == IF "stage_departure" \in Adjustments
              THEN Triggered(fx, "left_stage", Player) ELSE {}

MayAdjust == Sent("manual_adjustment") /\ choice.kind # "inspection"

\* The adjustments that carry out a manual_resolution effect complete it.
AdjustForEffect(i, T) ==
    /\ MayAdjust
    /\ i \in Batch(fx, choice) /\ Kind[i] = "manual"
    /\ T \subseteq Departures
    /\ \E z \in HandZones, f \in HandFx : Settle(After(Queue(f, T), {i}, z), choice, z)
    /\ UNCHANGED <<turn, first, queued>>

\* Other adjustments: what they trigger waits, the queue is not worked on.
\* Bound: nobody moves a member on or off the stage by hand during the setup.
AdjustByHand(T) ==
    /\ MayAdjust /\ QueueEmpty
    /\ phase # "complete"
    /\ T \subseteq Departures /\ (phase \in SetupPhases => T = {})
    /\ zones' \in HandZones
    /\ \E f \in HandFx : fx' = Queue(f, T)
    /\ UNCHANGED <<phase, turn, first, active, choice, total, queued, winners, result,
                   nextFirst>>

\* inspect_top_cards opens a manual_card_selection.
MayInspect(i) ==
    /\ choice = NoChoice
    /\ \/ i = NoInvocation /\ QueueEmpty /\ "inspect" \in Adjustments
       \/ i \in Batch(fx, choice) /\ Kind[i] = "manual"
InspectTopCards(p, i) ==
    /\ Sent("manual_adjustment") /\ MayInspect(i)
    /\ phase # "complete"
    /\ p \notin zones.inspecting       \* bound: one inspection per player
    /\ choice' = ChoiceOf("manual", p, i, {}, <<>>)
    /\ zones' = [zones EXCEPT !.inspecting = @ \cup {p}]
    /\ UNCHANGED <<phase, turn, first, active, fx, total, queued, winners, result,
                   nextFirst>>

ResolveManualInspection ==
    /\ Sent("resolve_manual_inspection")
    /\ choice.kind = "manual"
    /\ choice.inv = NoInvocation \/ choice.inv \in Batch(fx, choice)
    /\ choice.player \in zones.inspecting
    /\ Settle(IF choice.inv = NoInvocation THEN fx ELSE After(fx, {choice.inv}, zones),
              NoChoice, [zones EXCEPT !.inspecting = @ \ {choice.player}])
    /\ UNCHANGED <<turn, first, queued>>

-----------------------------------------------------------------------------
StartNextTurn ==
    /\ Sent("start_next_turn") /\ QueueEmpty
    /\ phase = "turn_complete"
    /\ turn < MaxTurn
    /\ turn' = turn + 1
    /\ first' = nextFirst /\ active' = nextFirst /\ nextFirst' = NoPlayer
    /\ phase' = "first_active"
    /\ choice' = NoChoice
    /\ fx' = [fx EXCEPT !.done = {}, !.turnBonus = NoBonus, !.blocked = FALSE]
    /\ zones' = [zones EXCEPT !.moved = [p \in Player |-> {}]]
    /\ total' = [p \in Player |-> 0]
    /\ queued' = FALSE /\ winners' = {}
    /\ UNCHANGED result

\* The requests of the game proper, and the adjustments on top of them.
SetupStep == (\E p \in Player : ChooseFirstPlayer(p)) \/ SubmitMulligan
TurnStep ==
    \/ AdvancePhase \/ EndMainPhase \/ StartNextTurn
    \/ \E T \in SUBSET Invocation : PlayMember(T)
    \/ \E i \in Invocation : ActivateEffect(i)
LiveStep ==
    \/ \E S \in SUBSET Card : SetLiveCards(S)
    \/ \E T \in SUBSET Invocation : Perform(T) \/ BeginJudgment(T)
    \/ YellAsks
    \/ \E ok \in BOOLEAN : YellDecides(ok) \/ OrderRequirements(ok)
    \/ \E c \in Card : ChooseSuccessLive(c)
EffectStep ==
    \/ \E i \in Invocation : DeclineEffect(i) \/ StartEffect(i) \/ ExecuteEffect(i)
                            \/ SkipEffect(i)
    \/ ResolveInspection \/ AnswerMultiPlayer \/ ResolveManualInspection
Adjust ==
    \/ \E i \in Invocation, T \in SUBSET Invocation : AdjustForEffect(i, T)
    \/ \E p \in Player, i \in Invocation \cup {NoInvocation} : InspectTopCards(p, i)
    \/ \E T \in SUBSET Invocation : AdjustByHand(T)

GameStep == SetupStep \/ TurnStep \/ LiveStep \/ EffectStep
Next == GameStep \/ Adjust

Spec == Init /\ [][Next]_vars

\* The controllers answer: a request of the game proper is sent while one is
\* possible.  An AI seat is driven by advance_ai after every action, a human
\* seat by a player who wants to finish the match.
FairSpec == Spec /\ WF_vars(GameStep)

-----------------------------------------------------------------------------
\* The ranges of the fields of MatchState, PendingChoice and EffectInvocation
\* that the handlers rely on.
TypeOK ==
    /\ phase \in Phases /\ turn \in 1..MaxTurn
    /\ {first, active, nextFirst} \subseteq Player \cup {NoPlayer}
    /\ choice \in [kind : ChoiceKinds, player : Player \cup {NoPlayer},
                   inv : Invocation \cup {NoInvocation}, cards : SUBSET Card,
                   rest : Seq(Player)]
    /\ fx \in [pending : SUBSET Invocation, started : SUBSET Invocation,
               done : SUBSET Invocation, bonus : [Player -> Int],
               turnBonus : [Player -> Int], gameBonus : [Player -> Int],
               blocked : BOOLEAN]
    /\ zones \in [live : [Player -> SUBSET Card], success : [Player -> SUBSET Card],
                  moved : [Player -> SUBSET Card], inspecting : SUBSET Player,
                  strays : SUBSET Player]
    /\ total \in [Player -> Int]
    /\ queued \in BOOLEAN /\ winners \subseteq Player /\ result \in Results

\* The player the engine accepts requests from is the player the phase belongs
\* to, also after a choice of the other player in between (_finish_judgment_choices
\* makes the chooser the active player), and a finished turn names a successor.
Seated ==
    /\ phase # "setup_choose_first" => first \in Player
    /\ phase \in FirstPhases => active = first
    /\ phase \in SecondPhases => active = second
    /\ phase = "turn_complete" => nextFirst \in Player

\* At most one effect is half-resolved at any time, it waits in the queue, and
\* an open effect choice or source-bound inspection belongs to a waiting effect:
\* "a pending effect-native choice or non-initial resolution stage locks its
\* invocation until completion" (specs/019).  About _effect_resolution_lock and
\* every handler that opens, answers, skips or forgets a choice.
ResolutionLock ==
    /\ fx.started \subseteq fx.pending /\ fx.pending \cap fx.done = {}
    /\ \A i, j \in fx.started : i = j
    /\ choice.kind \in {"inspection", "multi"} => fx.started = {choice.inv}
    /\ choice.inv # NoInvocation => choice.inv \in fx.pending

\* No step moves the match to another phase while an effect waits, and none
\* leaves an effect waiting in the phase it enters: every trigger of a phase is
\* resolved in that phase.  About apply_action's guard, _advance_phase and
\* _continue_after_effect_queue.
PhaseBarrier == [][phase' # phase => fx'.pending = {} /\ fx'.started = {}]_vars

\* The player to move resolves all waiting effects before the opponent resolves
\* one of theirs, the automatic ones included (rules 7.2.1 and 9.5.3): an effect
\* of the other player leaves the queue only with everything the turn player
\* had waiting, unless it was half-resolved.
TurnPlayerFirst ==
    [][\A i \in fx.pending \ fx'.pending :
          \/ Owner[i] = EffectActive \/ i \in Lock(fx, choice)
          \/ {j \in fx.pending : Owner[j] = EffectActive} \cap fx'.pending = {}]_vars

\* Cards set face down as a bluff are out of the live area before a yell counts
\* for it, are never judged, and never reach a success area (rule 10.5.1).
\* About _reveal_current_live_cards and every way into a yell phase.
RevealedBeforeScored ==
    /\ \A p \in Player : zones.success[p] \subseteq LiveCard
    /\ phase \in {"yell_first", "performance_second"} => zones.live[first] \subseteq LiveCard
    /\ phase \in {"yell_second", "live_judgment"} =>
          \A p \in Player : zones.live[p] \subseteq LiveCard

\* Whoever placed a card in this judgment is a winner of it, placed one card
\* only, and did not tie at match point.  About the choices spread over several
\* requests by _finish_judgment_choices.
OnlyWinnersPlace ==
    \A p \in Player : zones.moved[p] # {} =>
       /\ p \in winners
       /\ Cardinality(zones.moved[p]) = 1 /\ zones.moved[p] \subseteq zones.success[p]
       /\ winners = Player => Cardinality(zones.success[p]) <= 2

Ended == phase \in {"turn_complete", "complete"}

\* When the judgment is over every winner who was allowed to place a card did:
\* all winners, unless an effect blocked the placement, or the match point rule
\* stopped a winner who tied.  About the two loops over winners being cut in two
\* by a pending choice.
EligiblePlaced ==
    Ended => \A p \in winners :
       \/ zones.moved[p] # {}
       \/ fx.blocked
       \/ winners = Player /\ Cardinality(zones.success[p]) >= 2

\* Play by the rules draws no match: both players cannot have three success
\* lives, because the second of two winners at match point is stopped.  Only
\* adjustments by hand lead to the draw of _finish_live_judgment.
NeverBothFinished ==
    /\ result # "draw"
    /\ \E p \in Player : Cardinality(zones.success[p]) <= 2

\* Nothing of a turn survives it: no card in a live area, none in a resolution
\* area (inspected, or put there by hand), no choice, no effect, no score modifier
\* of the live.
CleanTable ==
    phase = "turn_complete" =>
       /\ \A p \in Player : zones.live[p] = {} /\ fx.bonus[p] = 0
       /\ zones.inspecting = {} /\ zones.strays = {}
       /\ choice = NoChoice /\ fx.pending = {}

\* An inspected card is in a resolution area only while the choice about it is
\* open, so no step can strand it there.
NoStrandedInspection ==
    zones.inspecting = (IF choice.kind \in {"manual", "inspection"}
                        THEN {choice.player} ELSE {})

\* Until the match is over, one of the requests generate_legal_actions lists,
\* other than a manual adjustment, would be accepted, and its handler comes to
\* an end: what the handler asks for is met, and the automatic effects it goes
\* on with run out.
NoDeadEnd ==
    LET Can(name, guard) == name \in Offered /\ guard
        RunsOut(f, ch) == AutoRun(f, ch, zones) # {}
    IN  \/ phase = "complete" \/ (phase = "turn_complete" /\ turn = MaxTurn)
        \/ Can("choose_first_player", QueueEmpty /\ phase = "setup_choose_first")
        \/ Can("submit_mulligan", QueueEmpty /\ choice.kind = "mulligan")
        \/ /\ MayAdvance /\ "advance_phase" \in Offered
           /\ \/ phase \in DOMAIN Transition \cup YellPhases
              \/ phase \in PerformancePhases /\ RunsOut(fx, choice)
              \/ phase = "live_judgment" /\ RunsOut([fx EXCEPT !.blocked = FALSE], choice)
        \/ Can("end_main_phase", QueueEmpty /\ phase \in {"first_main", "second_main"})
        \/ Can("set_live_cards",
               QueueEmpty /\ phase \in {"live_set_first", "live_set_second"})
        \/ Can("resolve_live_requirements",
               /\ QueueEmpty
               /\ \/ choice.kind = "live_requirements"
                  \/ /\ choice.kind = "success_live"
                     /\ choice.cards \cap zones.live[choice.player] # {})
        \/ Can("resolve_effect_choice",
               /\ choice.kind \in {"inspection", "multi"}
               /\ choice.inv \in fx.pending
               /\ RunsOut(After(fx, {choice.inv}, zones), NoChoice))
        \/ Can("resolve_manual_inspection",
               /\ choice.kind = "manual" /\ choice.player \in zones.inspecting
               /\ choice.inv = NoInvocation \/ choice.inv \in Batch(fx, choice)
               /\ RunsOut(IF choice.inv = NoInvocation THEN fx
                          ELSE After(fx, {choice.inv}, zones), NoChoice))
        \/ Can("skip_effect",
               \E i \in Batch(fx, choice) :
                  RunsOut(Drop(fx, i), IF ClosedBySkip(i) THEN NoChoice ELSE choice))
        \/ Can("start_next_turn", QueueEmpty /\ phase = "turn_complete" /\ turn < MaxTurn)

\* A turn that is started is judged: the match reaches turn_complete or ends.
TurnsEnd == \A t \in 1..MaxTurn :
    (turn = t /\ phase = "first_active") ~> (turn = t /\ Ended)
=============================================================================
