--------------------------- MODULE MatchFlow_proofs ---------------------------
(***************************************************************************)
(* Theorems about MatchFlow, for every set of cards, catalogue of effects, *)
(* kind of manual adjustment and number of turns, and whether the senders  *)
(* keep to the offered actions or not.                                     *)
(***************************************************************************)
EXTENDS MatchFlow, FiniteSetTheorems, TLAPS

FxType == [pending : SUBSET Invocation, started : SUBSET Invocation,
           done : SUBSET Invocation, bonus : [Player -> Int],
           turnBonus : [Player -> Int], gameBonus : [Player -> Int], blocked : BOOLEAN]
ZonesType == [live : [Player -> SUBSET Card], success : [Player -> SUBSET Card],
              moved : [Player -> SUBSET Card], inspecting : SUBSET Player,
              strays : SUBSET Player]
ChoiceType == [kind : ChoiceKinds, player : Player \cup {NoPlayer},
               inv : Invocation \cup {NoInvocation}, cards : SUBSET Card,
               rest : Seq(Player)]

\* The queue holds invocations of the catalogue, the half-resolved among them.
FxOK(f) == f \in FxType /\ f.started \subseteq f.pending

\* The other player is a player, and players are told apart from nobody.
LEMMA OppType == \A p : Opp(p) \in Player
  BY DEF Opp, Player

\* No points are a number of points.
LEMMA ZeroScore ==
  /\ [p \in Player |-> 0] \in [Player -> Int]
  /\ \A s \in [Player -> Int] : \A p : [s EXCEPT ![p] = 0] \in [Player -> Int]
<1>1. 0 \in Int
  OBVIOUS
<1>2. PICK zero \in Int : zero = 0
  BY <1>1
<1>3. /\ [p \in Player |-> zero] \in [Player -> Int]
      /\ \A s \in [Player -> Int] : \A p : [s EXCEPT ![p] = zero] \in [Player -> Int]
  OBVIOUS
<1> QED
  BY <1>2, <1>3

\* What executing the effects of D does to the queue.
LEMMA AfterFields ==
  ASSUME NEW f, FxOK(f), NEW D, NEW z
  PROVE  /\ f.pending \ D \subseteq After(f, D, z).pending
         /\ After(f, D, z).pending \cap (D \cup (f.done \ f.pending)) = {}
         /\ After(f, D, z).started = f.started \ D
         /\ After(f, D, z).done = f.done \cup D
         /\ f.blocked => After(f, D, z).blocked
  BY DEF After, Fresh, FxOK, FxType

\* Removing executed effects from a queue and adding what they trigger leaves
\* a queue (any set D of executed effects).
LEMMA AfterType ==
  ASSUME NEW f, FxOK(f), NEW D \in SUBSET Invocation, NEW z
  PROVE  FxOK(After(f, D, z))
<1>1. \A p \in Player : Cardinality({i \in D : Impact[i] = "score" /\ Owner[i] = p}) \in Nat
  BY EffectsAssumption, FS_Subset, FS_CardinalityType
<1>2. UNION {Chain[i] : i \in D} \subseteq Invocation
  BY EffectsAssumption
<1>3. [p \in Player |-> f.bonus[p] +
          Cardinality({i \in D : Impact[i] = "score" /\ Owner[i] = p})] \in [Player -> Int]
  BY <1>1 DEF FxOK, FxType
<1>4. f \in FxType /\ f.started \subseteq f.pending
  BY DEF FxOK
<1> QED
  BY <1>2, <1>3, <1>4 DEF After, FxOK, FxType, Fresh

LEMMA DropType ==
  ASSUME NEW f, FxOK(f), NEW i \in Invocation
  PROVE  FxOK(Drop(f, i))
  BY DEF Drop, FxOK, FxType

LEMMA QueueType ==
  ASSUME NEW f, FxOK(f), NEW T \in SUBSET Invocation
  PROVE  FxOK(Queue(f, T))
  BY DEF Queue, FxOK, FxType

\* The loop of _resolve_automatic_effects executes automatic effects only, and
\* ends in a queue that is one.
LEMMA AutoRunType ==
  ASSUME NEW f, FxOK(f), NEW ch, NEW z, NEW g \in AutoRun(f, ch, z)
  PROVE  FxOK(g)
<1>1. PICK s \in AutoOrders : IsAutoRun(f, ch, z, s) /\ g = After(f, Range(s), z)
  BY DEF AutoRun
<1>2. \A k \in DOMAIN s : s[k] \in Automatic
  <2> SUFFICES ASSUME NEW k \in DOMAIN s PROVE s[k] \in Automatic
    OBVIOUS
  <2> DEFINE h == After(f, {s[j] : j \in {m \in DOMAIN s : m < k}}, z)
  <2>1. NextAuto(h, ch) = {s[k]}
    BY <1>1 DEF IsAutoRun
  <2>2. NextAuto(h, ch) \subseteq Automatic
    BY DEF NextAuto
  <2> QED
    BY <2>1, <2>2
<1>3. Range(s) \in SUBSET Invocation
  BY <1>2 DEF Range, Automatic
<1> QED
  BY <1>1, <1>3, AfterType

-----------------------------------------------------------------------------
(***************************************************************************)
(* The judgment.                                                           *)
(***************************************************************************)

\* A score counts the cards of the area and the modifiers, which may be negative.
LEMMA ScoreType ==
  ASSUME NEW z \in ZonesType, NEW f, FxOK(f), NEW p \in Player
  PROVE  ScoreOf(z, f, p) \in Int
<1>1. Score[z.live[p]] \in Nat
  BY CardsAssumption DEF ZonesType
<1>2. f.bonus[p] \in Int /\ f.turnBonus[p] \in Int /\ f.gameBonus[p] \in Int
  BY DEF FxOK, FxType
<1> QED
  BY <1>1, <1>2 DEF ScoreOf

LEMMA PlayerFinite == IsFiniteSet(Player)
<1>1. Player = {P1} \cup {P2}
  BY DEF Player
<1>2. IsFiniteSet({P1})
  BY FS_Singleton
<1> QED
  BY <1>1, <1>2, FS_AddElement

\* What a handler leaves behind when it completes the judgment.
Completed(f) ==
    /\ zones' \in ZonesType /\ choice' = NoChoice /\ active' = NoPlayer
    /\ FxOK(fx') /\ fx'.pending = f.pending
    /\ phase' \in {"turn_complete", "complete"}
    /\ result' \in Results
    /\ nextFirst' \in Player \cup {NoPlayer}
    /\ phase' = "turn_complete" => nextFirst' \in Player

LEMMA CompleteJudgmentType ==
  ASSUME first \in Player, result \in Results,
         NEW z \in ZonesType, NEW f, FxOK(f), CompleteJudgment(z, f)
  PROVE  Completed(f)
<1> DEFINE reached == {p \in Player : Cardinality(z.success[p]) >= 3}
           movers  == {p \in Player : z.moved[p] # {}}
<1>1. zones' \in ZonesType /\ choice' = NoChoice /\ active' = NoPlayer
  BY DEF CompleteJudgment, Cleared, ZonesType
<1>2. CASE reached = {}
  <2>1. nextFirst' \in Player
    <3>1. CASE Cardinality(movers) = 1
      <4>1. IsFiniteSet(movers)
        BY PlayerFinite, FS_Subset
      <4>2. PICK q : movers = {q}
        BY <3>1, <4>1, FS_Singleton
      <4>3. q \in Player
        BY <4>2
      <4> QED
        BY <1>2, <3>1, <4>2, <4>3 DEF CompleteJudgment
    <3>2. CASE Cardinality(movers) # 1
      BY <1>2, <3>2 DEF CompleteJudgment
    <3> QED
      BY <3>1, <3>2
  <2>2. fx' = [f EXCEPT !.bonus = NoBonus] /\ phase' = "turn_complete"
        /\ result' = result
    BY <1>2 DEF CompleteJudgment
  <2>3. FxOK(fx') /\ fx'.pending = f.pending
    BY <2>2 DEF FxOK, FxType, NoBonus
  <2> QED
    BY <1>1, <2>1, <2>2, <2>3 DEF Completed
<1>3. CASE reached # {}
  <2>1. fx' = f /\ phase' = "complete" /\ nextFirst' = NoPlayer
    BY <1>3 DEF CompleteJudgment
  <2>2. result' \in Results
    <3>1. CASE reached = Player
      BY <1>3, <3>1 DEF CompleteJudgment, Results
    <3>2. CASE reached # Player
      <4>1. \E p \in Player : reached = {p}
        BY <1>3, <3>2 DEF Player
      <4>2. (CHOOSE p \in Player : reached = {p}) \in Player
        BY <4>1
      <4> QED
        BY <1>3, <3>2, <4>2 DEF CompleteJudgment, Results
    <3> QED
      BY <3>1, <3>2
  <2> QED
    BY <1>1, <2>1, <2>2 DEF Completed
<1> QED
  BY <1>2, <1>3

\* What it leaves behind when a winner is asked for a card first.
Asked(f) ==
    /\ zones' \in ZonesType /\ choice' \in ChoiceType /\ choice'.kind = "success_live"
    /\ active' \in Player
    /\ fx' = f
    /\ phase' = phase /\ result' = result /\ nextFirst' = nextFirst

LEMMA FinishJudgmentType ==
  ASSUME first \in Player, result \in Results,
         NEW z \in ZonesType, NEW f, FxOK(f), NEW remaining \in Seq(Player),
         FinishJudgmentChoices(z, remaining, f)
  PROVE  Completed(f) \/ Asked(f)
<1> DEFINE askers == {k \in DOMAIN remaining : Cardinality(z.live[remaining[k]]) > 1}
           before(k) == {remaining[j] : j \in {m \in DOMAIN remaining : m < k}}
           PlaceSingle(S) ==
             [z EXCEPT !.live    = [p \in Player |-> IF p \in S THEN {} ELSE @[p]],
                       !.success = [p \in Player |->
                                      IF p \in S THEN @[p] \cup z.live[p] ELSE @[p]],
                       !.moved   = [p \in Player |->
                                      IF p \in S THEN @[p] \cup z.live[p] ELSE @[p]]]
<1>1. \A S : PlaceSingle(S) \in ZonesType
  BY DEF ZonesType
<1>2. CASE \E k \in askers :
              /\ zones' = PlaceSingle(before(k))
              /\ choice' = ChoiceOf("success_live", remaining[k], NoInvocation,
                                    z.live[remaining[k]], ChooseNext(remaining, k))
              /\ active' = remaining[k]
              /\ fx' = f
              /\ UNCHANGED <<phase, result, nextFirst>>
  <2>1. PICK k \in askers :
              /\ zones' = PlaceSingle(before(k))
              /\ choice' = ChoiceOf("success_live", remaining[k], NoInvocation,
                                    z.live[remaining[k]], ChooseNext(remaining, k))
              /\ active' = remaining[k]
              /\ fx' = f
              /\ UNCHANGED <<phase, result, nextFirst>>
    BY <1>2
  <2>2. k \in 1..Len(remaining) /\ remaining[k] \in Player
    OBVIOUS
  <2>3. ChooseNext(remaining, k) \in Seq(Player)
    BY <2>2 DEF ChooseNext
  <2>4. z.live[remaining[k]] \subseteq Card
    BY <2>2 DEF ZonesType
  <2>5. choice' \in ChoiceType /\ choice'.kind = "success_live"
    BY <2>1, <2>2, <2>3, <2>4 DEF ChoiceOf, ChoiceType, ChoiceKinds
  <2> QED
    BY <1>1, <2>1, <2>2, <2>5 DEF Asked
<1>3. CASE askers = {} /\ CompleteJudgment(PlaceSingle(Range(remaining)), f)
  <2>1. PlaceSingle(Range(remaining)) \in ZonesType
    BY <1>1
  <2>2. Completed(f)
    BY <1>3, <2>1, CompleteJudgmentType
  <2> QED
    BY <2>2
<1> QED
  BY <1>2, <1>3 DEF FinishJudgmentChoices

LEMMA JudgeType ==
  ASSUME first \in Player, result \in Results,
         NEW z \in ZonesType, NEW f, FxOK(f), Judge(z, f)
  PROVE  /\ Completed(f) \/ Asked(f)
         /\ total' \in [Player -> Int] /\ winners' \subseteq Player
<1> DEFINE has == {p \in Player : z.live[p] # {}}
           scoreOf(p) == IF p \in has THEN ScoreOf(z, f, p) ELSE 0
           won == {p \in has : Opp(p) \in has => scoreOf(p) >= scoreOf(Opp(p))}
           eligible == Eligible(z, f, won)
<1>1. \A p \in Player : scoreOf(p) \in Int
  BY ScoreType
<1>2. total' \in [Player -> Int] /\ winners' \subseteq Player
  BY <1>1 DEF Judge
<1>3. InTurnOrder(eligible) \in Seq(Player)
  BY OppType DEF InTurnOrder, second
<1>4. FinishJudgmentChoices(z, InTurnOrder(eligible), f)
  BY DEF Judge
<1>5. Completed(f) \/ Asked(f)
  <2> HIDE DEF eligible
  <2> QED
    BY <1>3, <1>4, FinishJudgmentType
<1> QED
  BY <1>2, <1>5

-----------------------------------------------------------------------------
(***************************************************************************)
(* The inductive invariant.  Types alone are not inductive: a yell offers  *)
(* the lives of the active player, so that has to be one of the players,   *)
(* which only the phase tells; a half-resolved effect that were not in the *)
(* queue would survive the end of its phase; a winner asked for a card     *)
(* outside the judgment would become the active player of another phase;   *)
(* and a mulligan or a live choice answered before the first player is     *)
(* chosen would move the match on without one.                             *)
(***************************************************************************)
AskedInJudgment == choice.kind = "success_live" => phase = "live_judgment"
IdleBeforeStart == phase = "setup_choose_first" =>
    choice.kind \notin {"mulligan", "live_requirements", "success_live"}
IInv ==
    /\ TypeOK /\ Seated /\ fx.started \subseteq fx.pending
    /\ AskedInJudgment /\ IdleBeforeStart

\* What a step does to the queue when it changes the phase.
Barrier == phase' # phase => fx'.pending = {}

LEMMA IInvFacts ==
  ASSUME IInv
  PROVE  /\ FxOK(fx) /\ choice \in ChoiceType /\ zones \in ZonesType
         /\ phase \in Phases /\ result \in Results
  BY DEF IInv, TypeOK, FxOK, FxType, ChoiceType, ZonesType

\* What has to be shown of the next state.
LEMMA IInvIntro ==
  ASSUME phase' \in Phases, turn' \in 1..MaxTurn,
         first' \in Player \cup {NoPlayer}, active' \in Player \cup {NoPlayer},
         nextFirst' \in Player \cup {NoPlayer},
         choice' \in ChoiceType, FxOK(fx'), zones' \in ZonesType,
         total' \in [Player -> Int], queued' \in BOOLEAN, winners' \subseteq Player,
         result' \in Results, Seated', AskedInJudgment',
         phase' # "setup_choose_first" \/ IdleBeforeStart'
  PROVE  IInv'
  BY DEF IInv, TypeOK, FxOK, FxType, ChoiceType, ZonesType, IdleBeforeStart

LEMMA NoChoiceType == NoChoice \in ChoiceType /\ NoChoice.kind = "none"
  BY DEF NoChoice, ChoiceOf, ChoiceType, ChoiceKinds

LEMMA JudgedInv ==
  ASSUME IInv, phase = "live_judgment", UNCHANGED <<turn, first>>, queued' \in BOOLEAN,
         NEW f, FxOK(f), f.pending = {}, Completed(f) \/ Asked(f),
         total' \in [Player -> Int], winners' \subseteq Player
  PROVE  IInv' /\ Barrier
<1>1. first \in Player
  BY DEF IInv, Seated
<1>2. CASE Completed(f)
  <2>1. Seated'
    BY <1>1, <1>2 DEF Seated, Completed, FirstPhases, SecondPhases
  <2>2. /\ phase' \in Phases /\ phase' # "setup_choose_first"
        /\ choice' \in ChoiceType /\ AskedInJudgment'
    BY <1>2, NoChoiceType DEF Completed, Phases, AskedInJudgment
  <2>3. IInv'
    BY <1>2, <2>1, <2>2, IInvIntro DEF Completed, IInv, TypeOK
  <2> QED
    BY <1>2, <2>3 DEF Completed, Barrier
<1>3. CASE Asked(f)
  <2>1. Seated'
    BY <1>1, <1>3 DEF Seated, Asked, FirstPhases, SecondPhases
  <2>2. IInv'
    BY <1>3, <2>1, IInvIntro DEF Asked, IInv, TypeOK, AskedInJudgment
  <2> QED
    BY <1>3, <2>2 DEF Asked, Barrier
<1> QED
  BY <1>2, <1>3

LEMMA SettleInv ==
  ASSUME IInv, NEW f, FxOK(f), NEW ch \in ChoiceType, NEW z \in ZonesType,
         ch.kind = "success_live" => phase = "live_judgment",
         phase = "setup_choose_first" =>
             ch.kind \notin {"mulligan", "live_requirements", "success_live"},
         Settle(f, ch, z), UNCHANGED <<turn, first, queued>>
  PROVE  IInv' /\ Barrier
<1>1. PICK g \in AutoRun(f, ch, z) :
       \/ /\ g.pending = {}
          /\ phase \in PerformancePhases
          /\ phase' = IF phase = "performance_first" THEN "yell_first" ELSE "yell_second"
          /\ fx' = g /\ choice' = ch /\ zones' = z
          /\ UNCHANGED <<active, total, winners, result, nextFirst>>
       \/ /\ g.pending = {}
          /\ phase = "live_judgment" /\ queued
          /\ Judge(z, g)
       \/ /\ \/ g.pending # {}
             \/ phase \notin PerformancePhases /\ ~(phase = "live_judgment" /\ queued)
          /\ fx' = g /\ choice' = ch /\ zones' = z
          /\ UNCHANGED <<phase, active, total, winners, result, nextFirst>>
  BY DEF Settle
<1>2. FxOK(g)
  BY AutoRunType
<1>3. CASE /\ g.pending = {}
           /\ phase \in PerformancePhases
           /\ phase' = IF phase = "performance_first" THEN "yell_first" ELSE "yell_second"
           /\ fx' = g /\ choice' = ch /\ zones' = z
           /\ UNCHANGED <<active, total, winners, result, nextFirst>>
  <2>1. Seated'
    BY <1>3 DEF Seated, IInv, FirstPhases, SecondPhases, PerformancePhases, second
  <2>2. /\ phase' \in Phases /\ phase' # "setup_choose_first"
        /\ ch.kind # "success_live"
    BY <1>3 DEF Phases, YellPhases, PerformancePhases
  <2>3. IInv'
    BY <1>2, <1>3, <2>1, <2>2, IInvIntro DEF IInv, TypeOK, AskedInJudgment
  <2> QED
    BY <1>3, <2>3 DEF Barrier
<1>4. CASE g.pending = {} /\ phase = "live_judgment" /\ queued /\ Judge(z, g)
  <2>1. first \in Player /\ result \in Results /\ queued' \in BOOLEAN
    BY <1>4 DEF IInv, Seated, TypeOK
  <2>2. /\ Completed(g) \/ Asked(g)
        /\ total' \in [Player -> Int] /\ winners' \subseteq Player
    BY <1>2, <1>4, <2>1, JudgeType
  <2> QED
    BY <1>2, <1>4, <2>1, <2>2, JudgedInv
<1>5. CASE /\ fx' = g /\ choice' = ch /\ zones' = z
           /\ UNCHANGED <<phase, active, total, winners, result, nextFirst>>
  <2>1. Seated'
    BY <1>5 DEF Seated, IInv, second
  <2>2. IInv'
    BY <1>2, <1>5, <2>1, IInvIntro DEF IInv, TypeOK, AskedInJudgment, IdleBeforeStart
  <2> QED
    BY <1>5, <2>2 DEF Barrier
<1> QED
  BY <1>1, <1>3, <1>4, <1>5

\* A new match satisfies it.
LEMMA InitInv == Init => IInv
<1> SUFFICES ASSUME Init PROVE IInv
  OBVIOUS
<1>1. fx \in FxType /\ zones \in ZonesType /\ choice \in ChoiceType
  BY NoChoiceType DEF Init, NoFx, NoBonus, NoZones, FxType, ZonesType
<1>2. phase \in Phases /\ result \in Results /\ turn \in 1..MaxTurn
  BY BoundsAssumption DEF Init, Phases, SetupPhases, Results
<1>3. /\ {first, active, nextFirst} \subseteq Player \cup {NoPlayer}
      /\ total \in [Player -> Int] /\ queued \in BOOLEAN /\ winners \subseteq Player
  BY ZeroScore DEF Init
<1>4. TypeOK
  BY <1>1, <1>2, <1>3 DEF TypeOK, FxType, ZonesType, ChoiceType
<1> QED
  BY <1>4, NoChoiceType
  DEF Init, IInv, Seated, AskedInJudgment, IdleBeforeStart, NoFx, FirstPhases, SecondPhases

-----------------------------------------------------------------------------
(***************************************************************************)
(* Every action, the queue's share first.                                  *)
(***************************************************************************)

\* When a mulligan or a live choice is asked, the first player is chosen.
LEMMA NotBeforeStart ==
  ASSUME IInv, choice.kind \in {"mulligan", "live_requirements", "success_live"}
  PROVE  phase # "setup_choose_first" /\ first \in Player
  BY DEF IInv, IdleBeforeStart, Seated

\* The handlers that execute, drop or add effects and then settle.
LEMMA SettledInv ==
  ASSUME IInv, UNCHANGED <<turn, first, queued>>,
         NEW f, FxOK(f), NEW ch \in {choice, NoChoice}, NEW z \in ZonesType,
         Settle(f, ch, z)
  PROVE  IInv' /\ Barrier
<1>1. /\ ch \in ChoiceType /\ (ch.kind = "success_live" => phase = "live_judgment")
      /\ phase = "setup_choose_first" =>
             ch.kind \notin {"mulligan", "live_requirements", "success_live"}
  BY IInvFacts, NoChoiceType DEF IInv, AskedInJudgment, IdleBeforeStart
<1> QED
  BY <1>1, SettleInv

LEMMA BatchFacts ==
  ASSUME IInv, NEW i \in Batch(fx, choice)
  PROVE  i \in fx.pending /\ i \in Invocation /\ fx.pending # {}
  BY IInvFacts DEF Batch, Lock, IInv, FxOK, FxType

LEMMA DeclineEffectInv ==
  ASSUME IInv, NEW i \in Invocation, DeclineEffect(i)
  PROVE  IInv' /\ Barrier
<1>1. FxOK(Drop(fx, i)) /\ zones \in ZonesType
  BY IInvFacts, DropType
<1> QED
  BY <1>1, SettledInv DEF DeclineEffect

LEMMA ExecuteEffectInv ==
  ASSUME IInv, NEW i \in Invocation, ExecuteEffect(i)
  PROVE  IInv' /\ Barrier
<1>1. FxOK(After(fx, {i}, zones)) /\ zones \in ZonesType
  BY IInvFacts, AfterType
<1> QED
  BY <1>1, SettledInv DEF ExecuteEffect

LEMMA SkipEffectInv ==
  ASSUME IInv, NEW i \in Invocation, SkipEffect(i)
  PROVE  IInv' /\ Barrier
<1>1. FxOK(Drop(fx, i))
  BY IInvFacts, DropType
<1> DEFINE z == IF ClosedBySkip(i) /\ choice.kind = "inspection"
                THEN [zones EXCEPT !.inspecting = @ \ {Owner[i]}] ELSE zones
<1>2. z \in ZonesType
  BY IInvFacts DEF ZonesType
<1>3. Settle(Drop(fx, i), IF ClosedBySkip(i) THEN NoChoice ELSE choice, z)
  BY DEF SkipEffect
<1> QED
  BY <1>1, <1>2, <1>3, SettledInv DEF SkipEffect

LEMMA ResolveInspectionInv ==
  ASSUME IInv, ResolveInspection
  PROVE  IInv' /\ Barrier
<1>0. FxOK(fx) /\ {choice.inv} \in SUBSET Invocation
  BY IInvFacts DEF ResolveInspection, FxOK, FxType
<1>1. FxOK(After(fx, {choice.inv}, zones))
  BY <1>0, AfterType
<1>2. [zones EXCEPT !.inspecting = @ \ {choice.player}] \in ZonesType
  BY IInvFacts DEF ZonesType
<1> QED
  BY <1>1, <1>2, SettledInv DEF ResolveInspection

LEMMA ResolveManualInspectionInv ==
  ASSUME IInv, ResolveManualInspection
  PROVE  IInv' /\ Barrier
<1> DEFINE f == IF choice.inv = NoInvocation THEN fx ELSE After(fx, {choice.inv}, zones)
           z == [zones EXCEPT !.inspecting = @ \ {choice.player}]
<1>1. FxOK(f)
  BY IInvFacts, AfterType, BatchFacts DEF ResolveManualInspection
<1>2. z \in ZonesType
  BY IInvFacts DEF ZonesType
<1>3. Settle(f, NoChoice, z) /\ UNCHANGED <<turn, first, queued>>
  BY DEF ResolveManualInspection
<1> QED
  BY <1>1, <1>2, <1>3, SettledInv

\* What adjustments by hand may do to the areas and to the modifiers: nothing
\* beyond the kinds the players use.
LEMMA HandFacts ==
  ASSUME IInv
  PROVE  /\ \A z \in HandZones :
               /\ z \in ZonesType /\ z.moved = zones.moved
               /\ z.inspecting \subseteq zones.inspecting
               /\ z.live = zones.live \/ "live_move" \in Adjustments
               /\ z.success = zones.success \/ "success_move" \in Adjustments
               /\ \/ z.inspecting = zones.inspecting /\ z.strays = zones.strays
                  \/ "resolution_move" \in Adjustments
         /\ \A f \in HandFx :
               /\ FxOK(f) /\ f.pending = fx.pending /\ f.started = fx.started
               /\ f.done = fx.done /\ f.blocked = fx.blocked
               /\ f.bonus = fx.bonus \/ "score" \in Adjustments
<1>1. FxOK(fx) /\ zones \in ZonesType
  BY IInvFacts
<1>2. \A L \in Areas : L \in [Player -> SUBSET Card]
  BY DEF Areas
<1>3. ASSUME NEW z \in HandZones
      PROVE  /\ z \in ZonesType /\ z.moved = zones.moved
             /\ z.inspecting \subseteq zones.inspecting
             /\ z.live = zones.live \/ "live_move" \in Adjustments
             /\ z.success = zones.success \/ "success_move" \in Adjustments
             /\ \/ z.inspecting = zones.inspecting /\ z.strays = zones.strays
                \/ "resolution_move" \in Adjustments
  BY <1>1, <1>2, <1>3 DEF HandZones, ByHand, ZonesType
<1>4. ASSUME NEW f \in HandFx
      PROVE  /\ FxOK(f) /\ f.pending = fx.pending /\ f.started = fx.started
             /\ f.done = fx.done /\ f.blocked = fx.blocked
             /\ f.bonus = fx.bonus \/ "score" \in Adjustments
  <2>1. \A b \in ByHand("score", HandScores, fx.bonus) \cup
                ByHand("score", HandScores, fx.turnBonus) \cup
                ByHand("score", HandScores, fx.gameBonus) : b \in [Player -> Int]
    BY <1>1, BoundsAssumption DEF ByHand, FxOK, FxType
  <2>2. f.bonus = fx.bonus \/ "score" \in Adjustments
    BY <1>4 DEF HandFx, ByHand
  <2> QED
    BY <1>1, <1>4, <2>1, <2>2 DEF HandFx, FxOK, FxType
<1> QED
  BY <1>3, <1>4

LEMMA AdjustForEffectInv ==
  ASSUME IInv, NEW i \in Invocation, NEW T \in SUBSET Invocation, AdjustForEffect(i, T)
  PROVE  IInv' /\ Barrier
<1>1. PICK z \in HandZones, f \in HandFx : Settle(After(Queue(f, T), {i}, z), choice, z)
  BY DEF AdjustForEffect
<1>2. FxOK(f) /\ z \in ZonesType
  BY HandFacts
<1>3. FxOK(After(Queue(f, T), {i}, z))
  BY <1>2, QueueType, AfterType
<1> QED
  BY <1>1, <1>2, <1>3, SettledInv DEF AdjustForEffect

LEMMA AnswerMultiPlayerInv ==
  ASSUME IInv, AnswerMultiPlayer
  PROVE  IInv' /\ Barrier
<1>1. CASE /\ choice.rest # <<>>
           /\ choice' = [choice EXCEPT !.player = Head(choice.rest),
                                       !.rest = Tail(choice.rest)]
           /\ UNCHANGED <<phase, active, fx, zones, total, winners, result, nextFirst>>
  <2>1. choice \in ChoiceType /\ choice # NoChoice /\ choice.kind = "multi"
    BY IInvFacts, NoChoiceType DEF AnswerMultiPlayer
  <2>2. choice.rest \in Seq(Player) /\ choice.rest # <<>>
    BY <1>1, <2>1 DEF ChoiceType
  <2>3. Head(choice.rest) \in Player /\ Tail(choice.rest) \in Seq(Player)
    BY <2>2
  <2>4. choice' \in ChoiceType /\ choice'.kind = "multi"
    BY <1>1, <2>1, <2>3 DEF ChoiceType
  <2>5. Seated' /\ AskedInJudgment' /\ IdleBeforeStart'
    BY <1>1, <2>4
    DEF Seated, IInv, second, AskedInJudgment, IdleBeforeStart, AnswerMultiPlayer
  <2>6. IInv'
    BY <1>1, <2>1, <2>4, <2>5, IInvFacts, IInvIntro
    DEF AnswerMultiPlayer, IInv, TypeOK
  <2> QED
    BY <1>1, <2>6 DEF Barrier
<1>2. CASE choice.inv \in fx.pending /\ Settle(After(fx, {choice.inv}, zones), NoChoice, zones)
  <2>0. FxOK(fx) /\ {choice.inv} \in SUBSET Invocation
    BY <1>2, IInvFacts DEF FxOK, FxType
  <2>1. FxOK(After(fx, {choice.inv}, zones)) /\ zones \in ZonesType
    BY <2>0, IInvFacts, AfterType
  <2> QED
    BY <1>2, <2>1, SettledInv DEF AnswerMultiPlayer
<1> QED
  BY <1>1, <1>2 DEF AnswerMultiPlayer

LEMMA StartEffectInv ==
  ASSUME IInv, NEW i \in Invocation, StartEffect(i)
  PROVE  IInv' /\ Barrier
<1>1. i \in fx.pending /\ fx.pending # {} /\ FxOK(fx) /\ zones \in ZonesType
  BY BatchFacts, IInvFacts DEF StartEffect, MayResolve
<1>3. EffectActive \in Player \cup {NoPlayer} /\ Opp(EffectActive) \in Player
  BY OppType DEF EffectActive, second, IInv, TypeOK
<1>4. <<Opp(EffectActive)>> \in Seq(Player)
  BY <1>3
<1>5. Owner[i] \in Player /\ Kind[i] \in {"two_step", "inspect", "multi"}
  BY EffectsAssumption DEF StartEffect
<1>6. choice' \in ChoiceType /\ choice'.kind \in {"none", "inspection", "multi"}
  <2>1. CASE Kind[i] = "two_step"
    BY <2>1, NoChoiceType DEF StartEffect
  <2>2. CASE Kind[i] = "inspect"
    BY <1>5, <2>2 DEF StartEffect, ChoiceOf, ChoiceType, ChoiceKinds
  <2>3. CASE Kind[i] = "multi"
    BY <1>3, <1>4, <2>3 DEF StartEffect, ChoiceOf, ChoiceType, ChoiceKinds
  <2> QED
    BY <1>5, <2>1, <2>2, <2>3
<1>7. FxOK(fx') /\ zones' \in ZonesType
  BY <1>1, <1>5 DEF StartEffect, FxOK, FxType, ZonesType
<1>8. Seated' /\ AskedInJudgment' /\ IdleBeforeStart'
  BY <1>6 DEF StartEffect, Seated, IInv, second, AskedInJudgment, IdleBeforeStart
<1>9. IInv'
  BY <1>6, <1>7, <1>8, IInvFacts, IInvIntro DEF StartEffect, IInv, TypeOK
<1> QED
  BY <1>9 DEF Barrier, StartEffect

LEMMA ActivateEffectInv ==
  ASSUME IInv, NEW i \in Invocation, ActivateEffect(i)
  PROVE  IInv' /\ Barrier
<1>1. phase \in TurnPhases /\ phase # "setup_choose_first" /\ phase # "live_judgment"
  BY DEF ActivateEffect, TurnPhases
<1>2. active \in Player
  BY OppType DEF ActivateEffect, IInv, Seated, FirstPhases, SecondPhases, second
<1>3. CASE Settle(After(fx, {i}, zones), choice, zones)
  <2>1. FxOK(After(fx, {i}, zones)) /\ zones \in ZonesType
    BY IInvFacts, AfterType
  <2> QED
    BY <1>1, <1>3, <2>1, SettledInv DEF ActivateEffect
<1>4. CASE /\ fx' \in {Queue(fx, {i}),
                       [fx EXCEPT !.pending = @ \cup {i}, !.started = @ \cup {i}]}
           /\ UNCHANGED <<phase, active, total, winners, result, nextFirst>>
           /\ \/ /\ choice' = ChoiceOf("inspection", active, i, {}, <<>>)
                 /\ zones' = [zones EXCEPT !.inspecting = @ \cup {active}]
              \/ UNCHANGED <<choice, zones>>
  <2>1. FxOK(fx')
    <3>1. FxOK(fx) /\ FxOK(Queue(fx, {i}))
      BY IInvFacts, QueueType
    <3>2. FxOK([fx EXCEPT !.pending = @ \cup {i}, !.started = @ \cup {i}])
      BY <3>1 DEF FxOK, FxType
    <3> QED
      BY <1>4, <3>1, <3>2
  <2>2. zones' \in ZonesType
    BY <1>2, <1>4, IInvFacts DEF ZonesType
  <2>3. choice' \in ChoiceType /\ choice'.kind # "success_live"
    <3>1. CASE choice' = ChoiceOf("inspection", active, i, {}, <<>>)
      BY <1>2, <3>1 DEF ChoiceOf, ChoiceType, ChoiceKinds
    <3>2. CASE choice' = choice
      BY <1>1, <3>2, IInvFacts DEF IInv, AskedInJudgment
    <3> QED
      BY <1>4, <3>1, <3>2
  <2>4. Seated' /\ AskedInJudgment'
    BY <1>4, <2>3 DEF ActivateEffect, Seated, IInv, second, AskedInJudgment
  <2>5. IInv'
    BY <1>1, <1>4, <2>1, <2>2, <2>3, <2>4, IInvFacts, IInvIntro
    DEF ActivateEffect, IInv, TypeOK
  <2> QED
    BY <1>4, <2>5 DEF Barrier
<1> QED
  BY <1>3, <1>4 DEF ActivateEffect

LEMMA PlayMemberInv ==
  ASSUME IInv, NEW T \in SUBSET Invocation, PlayMember(T)
  PROVE  IInv' /\ Barrier
<1>1. PICK g \in AutoRun(Queue(fx, T), choice, zones) : fx' = g
  BY DEF PlayMember
<1>2. FxOK(fx')
  BY <1>1, IInvFacts, QueueType, AutoRunType
<1>3. Seated' /\ AskedInJudgment'
  BY DEF PlayMember, Seated, IInv, second, AskedInJudgment
<1>4. phase' # "setup_choose_first"
  BY DEF PlayMember
<1>5. IInv'
  BY <1>2, <1>3, <1>4, IInvFacts, IInvIntro DEF PlayMember, IInv, TypeOK
<1> QED
  BY <1>5 DEF Barrier, PlayMember

-----------------------------------------------------------------------------
(***************************************************************************)
(* The phases of setup, of a turn and of a live.                           *)
(***************************************************************************)

LEMMA ChooseFirstPlayerInv ==
  ASSUME IInv, NEW p \in Player, ChooseFirstPlayer(p)
  PROVE  IInv' /\ Barrier
<1>1. choice' \in ChoiceType /\ choice'.kind = "mulligan"
  BY DEF ChooseFirstPlayer, ChoiceOf, ChoiceType, ChoiceKinds
<1>2. phase' \in Phases /\ phase' # "setup_choose_first" /\ Seated' /\ AskedInJudgment'
  BY <1>1 DEF ChooseFirstPlayer, Phases, SetupPhases, Seated, AskedInJudgment,
              FirstPhases, SecondPhases
<1>3. IInv'
  BY <1>1, <1>2, IInvFacts, IInvIntro DEF ChooseFirstPlayer, IInv, TypeOK
<1> QED
  BY <1>3 DEF Barrier, ChooseFirstPlayer, QueueEmpty

LEMMA SubmitMulliganInv ==
  ASSUME IInv, SubmitMulligan
  PROVE  IInv' /\ Barrier
<1>1. first \in Player /\ second \in Player
  BY NotBeforeStart, NoChoiceType, OppType DEF SubmitMulligan, second
<1>2. choice' \in ChoiceType /\ choice'.kind \in {"none", "mulligan"}
  <2>1. /\ ChoiceOf("mulligan", second, NoInvocation, {}, <<>>) \in ChoiceType
        /\ ChoiceOf("mulligan", second, NoInvocation, {}, <<>>).kind = "mulligan"
    BY <1>1 DEF ChoiceOf, ChoiceType, ChoiceKinds
  <2> QED
    BY <2>1, NoChoiceType DEF SubmitMulligan
<1>3. phase' \in Phases /\ phase' # "setup_choose_first" /\ Seated' /\ AskedInJudgment'
  BY <1>1, <1>2 DEF SubmitMulligan, Phases, SetupPhases, TurnPhases, Seated,
              AskedInJudgment, FirstPhases, SecondPhases, second
<1>4. IInv'
  BY <1>1, <1>2, <1>3, IInvFacts, IInvIntro DEF SubmitMulligan, IInv, TypeOK
<1> QED
  BY <1>4 DEF Barrier, SubmitMulligan, QueueEmpty

LEMMA AdvancePhaseInv ==
  ASSUME IInv, AdvancePhase
  PROVE  IInv' /\ Barrier
<1>1. phase' \in Phases /\ phase' # "setup_choose_first" /\ Seated' /\ AskedInJudgment'
  BY DEF AdvancePhase, MayAdvance, Transition, Phases, TurnPhases, IInv, Seated,
         AskedInJudgment, FirstPhases, SecondPhases, second
<1>2. IInv'
  BY <1>1, IInvFacts, IInvIntro DEF AdvancePhase, IInv, TypeOK
<1> QED
  BY <1>2 DEF Barrier, AdvancePhase, MayAdvance, QueueEmpty

LEMMA EndMainPhaseInv ==
  ASSUME IInv, EndMainPhase
  PROVE  IInv' /\ Barrier
<1>1. second \in Player
  BY OppType DEF second
<1>2. phase' \in Phases /\ phase' # "setup_choose_first" /\ Seated' /\ AskedInJudgment'
  BY DEF EndMainPhase, Phases, TurnPhases, IInv, Seated, AskedInJudgment,
         FirstPhases, SecondPhases, second
<1>3. IInv'
  BY <1>1, <1>2, IInvFacts, IInvIntro DEF EndMainPhase, IInv, TypeOK
<1> QED
  BY <1>3 DEF Barrier, EndMainPhase, QueueEmpty

LEMMA SetLiveCardsInv ==
  ASSUME IInv, NEW S \in SUBSET Card, SetLiveCards(S)
  PROVE  IInv' /\ Barrier
<1>1. second \in Player
  BY OppType DEF second
<1>2. phase' \in Phases /\ phase' # "setup_choose_first" /\ Seated' /\ AskedInJudgment'
  BY DEF SetLiveCards, Phases, PerformancePhases, IInv, Seated, AskedInJudgment,
         FirstPhases, SecondPhases, second
<1>3. zones' \in ZonesType
  BY IInvFacts DEF SetLiveCards, ZonesType
<1>4. IInv'
  BY <1>1, <1>2, <1>3, IInvFacts, IInvIntro DEF SetLiveCards, IInv, TypeOK
<1> QED
  BY <1>4 DEF Barrier, SetLiveCards, QueueEmpty

LEMMA PerformInv ==
  ASSUME IInv, NEW T \in SUBSET Invocation, Perform(T)
  PROVE  IInv' /\ Barrier
<1>1. PICK g \in AutoRun(Queue(fx, T), choice, [zones EXCEPT !.live[active] = Revealed(active)]) :
          /\ fx' = g
          /\ phase' = IF g.pending # {} THEN phase
                      ELSE IF phase = "performance_first" THEN "yell_first"
                      ELSE "yell_second"
  BY DEF Perform
<1>2. FxOK(fx')
  BY <1>1, IInvFacts, QueueType, AutoRunType
<1>3. /\ phase' \in Phases /\ phase' # "setup_choose_first"
      /\ Seated' /\ AskedInJudgment' /\ Barrier
  BY <1>1 DEF Perform, MayAdvance, Phases, PerformancePhases, YellPhases, IInv, Seated,
         AskedInJudgment, FirstPhases, SecondPhases, second, Barrier
<1>4. zones' \in ZonesType /\ total' \in [Player -> Int]
  BY IInvFacts, ZeroScore DEF Perform, Revealed, ZonesType, IInv, TypeOK
<1>5. IInv'
  BY <1>2, <1>3, <1>4, IInvFacts, IInvIntro DEF Perform, IInv, TypeOK
<1> QED
  BY <1>3, <1>5

\* _apply_live_requirements keeps the areas and the scores what they are.
LEMMA ApplyRequirementsType ==
  ASSUME IInv, NEW p \in Player \cup {NoPlayer}, NEW satisfied \in BOOLEAN,
         ApplyRequirements(p, satisfied)
  PROVE  zones' \in ZonesType /\ total' \in [Player -> Int]
<1> DEFINE score == ScoreOf(zones, fx, p)
<1>1. p \in Player => score \in Int
  BY IInvFacts, ScoreType
<1>2. zones \in ZonesType /\ total \in [Player -> Int]
  BY IInvFacts DEF IInv, TypeOK
<1>3. CASE satisfied
  <2>1. total' = [total EXCEPT ![p] = score] /\ zones' = zones
    BY <1>3 DEF ApplyRequirements
  <2> HIDE DEF score
  <2> QED
    BY <1>1, <1>2, <2>1
<1>4. CASE ~satisfied
  <2>1. total' = [total EXCEPT ![p] = 0] /\ zones' = [zones EXCEPT !.live[p] = {}]
    BY <1>4 DEF ApplyRequirements
  <2>2. total' \in [Player -> Int]
    BY <1>2, <2>1, ZeroScore
  <2>3. zones' \in ZonesType
    BY <1>2, <2>1 DEF ZonesType
  <2> QED
    BY <2>2, <2>3
<1> QED
  BY <1>3, <1>4

\* _continue_after_yell leads to a phase with the right player.
LEMMA AfterYellSeated ==
  ASSUME IInv, first \in Player, UNCHANGED first, AfterYell
  PROVE  /\ phase' \in Phases /\ phase' # "setup_choose_first" /\ Seated'
         /\ active' \in Player \cup {NoPlayer}
  BY OppType DEF AfterYell, Phases, PerformancePhases, Seated, FirstPhases, SecondPhases, second

LEMMA YellAsksInv ==
  ASSUME IInv, YellAsks
  PROVE  IInv' /\ Barrier
<1>1. active \in Player
  BY OppType DEF YellAsks, YellPhases, IInv, Seated, FirstPhases, SecondPhases, second
<1>2. choice' \in ChoiceType /\ choice'.kind = "live_requirements"
  BY <1>1, IInvFacts DEF YellAsks, ChoiceOf, ChoiceType, ChoiceKinds, ZonesType
<1>3. phase' # "setup_choose_first" /\ Seated' /\ AskedInJudgment'
  BY <1>2 DEF YellAsks, YellPhases, IInv, Seated, AskedInJudgment, second
<1>4. total' \in [Player -> Int]
  BY ZeroScore DEF YellAsks, IInv, TypeOK
<1>5. IInv'
  BY <1>2, <1>3, <1>4, IInvFacts, IInvIntro DEF YellAsks, IInv, TypeOK
<1> QED
  BY <1>5 DEF Barrier, YellAsks

LEMMA YellDecidesInv ==
  ASSUME IInv, NEW satisfied \in BOOLEAN, YellDecides(satisfied)
  PROVE  IInv' /\ Barrier
<1>1. /\ first \in Player /\ active \in Player \cup {NoPlayer}
      /\ phase # "setup_choose_first"
  BY DEF YellDecides, YellPhases, IInv, Seated, TypeOK
<1>2. zones' \in ZonesType /\ total' \in [Player -> Int]
  <2>1. CASE UNCHANGED <<total, zones>>
    BY <2>1, IInvFacts DEF IInv, TypeOK
  <2>2. CASE ApplyRequirements(active, satisfied)
    BY <1>1, <2>2, ApplyRequirementsType
  <2> QED
    BY <2>1, <2>2 DEF YellDecides
<1>3. AfterYell \/ UNCHANGED <<phase, active>>
  BY DEF YellDecides
<1>4. /\ phase' \in Phases /\ phase' # "setup_choose_first" /\ Seated'
      /\ active' \in Player \cup {NoPlayer}
  <2>1. CASE AfterYell
    BY <1>1, <2>1, AfterYellSeated DEF YellDecides
  <2>2. CASE UNCHANGED <<phase, active>>
    BY <1>1, <2>2, IInvFacts DEF YellDecides, IInv, Seated, second
  <2> QED
    BY <1>3, <2>1, <2>2
<1>5. AskedInJudgment'
  BY DEF YellDecides, MayAdvance, AskedInJudgment
<1>6. IInv'
  BY <1>2, <1>4, <1>5, IInvFacts, IInvIntro DEF YellDecides, IInv, TypeOK
<1> QED
  BY <1>6 DEF Barrier, YellDecides, MayAdvance, QueueEmpty

LEMMA OrderRequirementsInv ==
  ASSUME IInv, NEW satisfied \in BOOLEAN, OrderRequirements(satisfied)
  PROVE  IInv' /\ Barrier
<1>1. choice.player \in Player \cup {NoPlayer}
  BY IInvFacts DEF ChoiceType
<1>2. first \in Player
  BY NotBeforeStart DEF OrderRequirements
<1>3. zones' \in ZonesType /\ total' \in [Player -> Int]
  BY <1>1, ApplyRequirementsType DEF OrderRequirements
<1>4. /\ phase' \in Phases /\ phase' # "setup_choose_first" /\ Seated'
      /\ active' \in Player \cup {NoPlayer}
  BY <1>2, AfterYellSeated DEF OrderRequirements
<1>5. choice' \in ChoiceType /\ AskedInJudgment'
  BY NoChoiceType DEF OrderRequirements, AskedInJudgment
<1>6. IInv'
  BY <1>3, <1>4, <1>5, IInvFacts, IInvIntro DEF OrderRequirements, IInv, TypeOK
<1> QED
  BY <1>6 DEF Barrier, OrderRequirements, QueueEmpty

LEMMA BeginJudgmentInv ==
  ASSUME IInv, NEW T \in SUBSET Invocation, BeginJudgment(T)
  PROVE  IInv' /\ Barrier
<1> DEFINE z == [zones EXCEPT !.moved = [p \in Player |-> {}]]
           f == [fx EXCEPT !.blocked = FALSE]
<1>1. PICK g \in AutoRun(Queue(f, T), choice, z) :
         IF g.pending # {}
         THEN /\ fx' = g /\ zones' = z
              /\ UNCHANGED <<phase, active, choice, total, winners, result, nextFirst>>
         ELSE Judge(z, g)
  BY DEF BeginJudgment
<1>2. FxOK(f) /\ z \in ZonesType
  BY IInvFacts DEF FxOK, FxType, ZonesType
<1>3. FxOK(g)
  BY <1>2, QueueType, AutoRunType
<1>4. /\ first \in Player /\ result \in Results /\ phase = "live_judgment"
      /\ UNCHANGED <<turn, first>> /\ queued' = TRUE
  BY IInvFacts DEF BeginJudgment, IInv, Seated
<1>5. CASE g.pending = {}
  <2>1. Judge(z, g)
    BY <1>1, <1>5
  <2>2. /\ Completed(g) \/ Asked(g)
        /\ total' \in [Player -> Int] /\ winners' \subseteq Player
    <3> HIDE DEF z
    <3> QED
      BY <1>2, <1>3, <1>4, <2>1, JudgeType
  <2> QED
    BY <1>3, <1>4, <1>5, <2>2, JudgedInv
<1>6. CASE g.pending # {}
  <2>1. /\ fx' = g /\ zones' = z
        /\ UNCHANGED <<phase, active, choice, total, winners, result, nextFirst>>
    BY <1>1, <1>6
  <2>2. Seated' /\ AskedInJudgment'
    BY <1>4, <2>1 DEF IInv, Seated, AskedInJudgment, FirstPhases, SecondPhases
  <2>3. IInv'
    BY <1>2, <1>3, <1>4, <2>1, <2>2, IInvFacts, IInvIntro DEF IInv, TypeOK
  <2> QED
    BY <2>1, <2>3 DEF Barrier
<1> QED
  BY <1>5, <1>6

LEMMA ChooseSuccessLiveInv ==
  ASSUME IInv, NEW c \in Card, ChooseSuccessLive(c)
  PROVE  IInv' /\ Barrier
<1> DEFINE p == choice.player
           z == [zones EXCEPT !.live[p] = @ \ {c}, !.success[p] = @ \cup {c},
                              !.moved[p] = @ \cup {c}]
<1>1. z \in ZonesType /\ choice.rest \in Seq(Player) /\ FxOK(fx)
  BY IInvFacts DEF ZonesType, ChoiceType
<1>2. /\ phase = "live_judgment" /\ first \in Player /\ result \in Results
      /\ UNCHANGED <<turn, first, total, queued, winners>> /\ fx.pending = {}
  BY IInvFacts DEF ChooseSuccessLive, QueueEmpty, IInv, AskedInJudgment, Seated
<1>3. FinishJudgmentChoices(z, choice.rest, fx)
  BY DEF ChooseSuccessLive
<1>4. Completed(fx) \/ Asked(fx)
  <2> HIDE DEF z
  <2> QED
    BY <1>1, <1>2, <1>3, FinishJudgmentType
<1>5. queued' \in BOOLEAN /\ total' \in [Player -> Int] /\ winners' \subseteq Player
  BY <1>2 DEF IInv, TypeOK
<1> QED
  BY <1>1, <1>2, <1>4, <1>5, JudgedInv

LEMMA StartNextTurnInv ==
  ASSUME IInv, StartNextTurn
  PROVE  IInv' /\ Barrier
<1>1. nextFirst \in Player /\ turn \in 1..MaxTurn /\ turn < MaxTurn
  BY DEF StartNextTurn, IInv, Seated, TypeOK
<1>2. turn' \in 1..MaxTurn
  BY <1>1, BoundsAssumption DEF StartNextTurn
<1>3. FxOK(fx') /\ zones' \in ZonesType
  BY IInvFacts, ZeroScore DEF StartNextTurn, NoBonus, FxOK, FxType, ZonesType
<1>4. phase' \in Phases /\ phase' # "setup_choose_first" /\ Seated' /\ AskedInJudgment'
  BY <1>1, NoChoiceType DEF StartNextTurn, Phases, TurnPhases, Seated, AskedInJudgment,
              FirstPhases, SecondPhases
<1>5. /\ first' \in Player /\ active' \in Player /\ nextFirst' = NoPlayer
      /\ choice' \in ChoiceType /\ total' \in [Player -> Int]
      /\ queued' \in BOOLEAN /\ winners' \subseteq Player /\ result' = result
  BY <1>1, NoChoiceType, ZeroScore DEF StartNextTurn
<1>6. IInv'
  BY <1>2, <1>3, <1>4, <1>5, IInvFacts, IInvIntro
<1> QED
  BY <1>6 DEF Barrier, StartNextTurn, QueueEmpty

-----------------------------------------------------------------------------
(***************************************************************************)
(* Manual adjustments without a source.                                    *)
(***************************************************************************)

LEMMA InspectTopCardsInv ==
  ASSUME IInv, NEW p \in Player, NEW i \in Invocation \cup {NoInvocation},
         InspectTopCards(p, i)
  PROVE  IInv' /\ Barrier
<1>1. choice' \in ChoiceType /\ choice'.kind = "manual"
  BY DEF InspectTopCards, ChoiceOf, ChoiceType, ChoiceKinds
<1>2. zones' \in ZonesType
  BY IInvFacts DEF InspectTopCards, ZonesType
<1>3. Seated' /\ AskedInJudgment' /\ IdleBeforeStart'
  BY <1>1 DEF InspectTopCards, IInv, Seated, AskedInJudgment, IdleBeforeStart, second
<1>4. IInv'
  BY <1>1, <1>2, <1>3, IInvFacts, IInvIntro DEF InspectTopCards, IInv, TypeOK
<1> QED
  BY <1>4 DEF Barrier, InspectTopCards

LEMMA AdjustByHandInv ==
  ASSUME IInv, NEW T \in SUBSET Invocation, AdjustByHand(T)
  PROVE  IInv' /\ Barrier
<1>1. FxOK(fx') /\ zones' \in ZonesType
  BY HandFacts, QueueType DEF AdjustByHand
<1>2. Seated' /\ AskedInJudgment' /\ IdleBeforeStart'
  BY DEF AdjustByHand, IInv, Seated, AskedInJudgment, IdleBeforeStart, second
<1>3. IInv'
  BY <1>1, <1>2, IInvFacts, IInvIntro DEF AdjustByHand, IInv, TypeOK
<1> QED
  BY <1>3 DEF Barrier, AdjustByHand

-----------------------------------------------------------------------------
\* Every step of a match keeps the inductive invariant, and leaves no effect
\* behind in the phase it ends.
LEMMA StepInv ==
  ASSUME IInv, [Next]_vars
  PROVE  IInv' /\ Barrier
<1>1. CASE UNCHANGED vars
  <2>1. TypeOK'
    BY <1>1 DEF vars, IInv, TypeOK
  <2>2. Seated' /\ AskedInJudgment' /\ IdleBeforeStart'
    BY <1>1 DEF vars, IInv, Seated, AskedInJudgment, IdleBeforeStart, second
  <2> QED
    BY <1>1, <2>1, <2>2 DEF vars, IInv, Barrier
<1>2. CASE SetupStep
  BY <1>2, ChooseFirstPlayerInv, SubmitMulliganInv DEF SetupStep
<1>3. CASE TurnStep
  BY <1>3, AdvancePhaseInv, EndMainPhaseInv, StartNextTurnInv, PlayMemberInv,
     ActivateEffectInv DEF TurnStep
<1>4. CASE LiveStep
  BY <1>4, SetLiveCardsInv, PerformInv, BeginJudgmentInv, YellAsksInv, YellDecidesInv,
     OrderRequirementsInv, ChooseSuccessLiveInv DEF LiveStep
<1>5. CASE EffectStep
  BY <1>5, DeclineEffectInv, StartEffectInv, ExecuteEffectInv, SkipEffectInv,
     ResolveInspectionInv, AnswerMultiPlayerInv, ResolveManualInspectionInv DEF EffectStep
<1>6. CASE Adjust
  BY <1>6, AdjustForEffectInv, InspectTopCardsInv, AdjustByHandInv DEF Adjust
<1> QED
  BY <1>1, <1>2, <1>3, <1>4, <1>5, <1>6 DEF Next, GameStep

LEMMA Inductive == Spec => []IInv
<1>1. Init => IInv
  BY InitInv
<1>2. IInv /\ [Next]_vars => IInv'
  BY StepInv
<1> QED
  BY <1>1, <1>2, PTL DEF Spec

\* The state of a match stays well-formed: phases, players, choices and queue
\* range over what the handlers of engine.py assume of them.
THEOREM TypeCorrect == Spec => []TypeOK
<1>1. IInv => TypeOK
  BY DEF IInv
<1> QED
  BY <1>1, Inductive, PTL

\* The player whose requests the engine accepts is the player of the phase, a
\* finished turn names the first player of the next: no continuation of a queue
\* or a choice leaves the wrong active_player_id behind.
THEOREM SeatedCorrect == Spec => []Seated
<1>1. IInv => Seated
  BY DEF IInv
<1> QED
  BY <1>1, Inductive, PTL

\* No effect, waiting or half-resolved, crosses the end of a phase, whatever
\* is adjusted by hand and whichever requests are sent.
THEOREM PhaseBarrierHolds == Spec => PhaseBarrier
<1>1. IInv /\ IInv' /\ [Next]_vars =>
         [phase' # phase => fx'.pending = {} /\ fx'.started = {}]_vars
  <2> SUFFICES ASSUME IInv, IInv', [Next]_vars, phase' # phase
               PROVE  fx'.pending = {} /\ fx'.started = {}
    OBVIOUS
  <2>1. fx'.pending = {}
    BY StepInv DEF Barrier
  <2>2. fx'.started \subseteq fx'.pending
    BY DEF IInv
  <2> QED
    BY <2>1, <2>2
<1> QED
  BY <1>1, Inductive, PTL DEF Spec, PhaseBarrier

-----------------------------------------------------------------------------
(***************************************************************************)
(* The effect queue: one effect is resolved at a time, the turn player's   *)
(* first, and an inspection ends with its choice.  These hold for every    *)
(* catalogue of effects and every number of turns; what a theorem asks of  *)
(* the senders and of the manual adjustments is its hypothesis.            *)
(***************************************************************************)

\* Nothing in the queue was executed before, and one effect at most is
\* half-resolved.
Sound(f) ==
    /\ FxOK(f) /\ f.pending \cap f.done = {}
    /\ \A i, j \in f.started : i = j

\* What an open choice says about the effect it belongs to.
ChoiceSound(f, ch) ==
    /\ ch.kind = "none" => ch = NoChoice
    /\ ch.kind \in {"inspection", "multi"} => f.started = {ch.inv}
    /\ ch.kind = "inspection" => Kind[ch.inv] = "inspect" /\ ch.player = Owner[ch.inv]
    /\ ch.kind = "multi" => Kind[ch.inv] = "multi"
    /\ ch.kind = "manual" =>
          ch.inv \in {NoInvocation} \cup {i \in Invocation : Kind[i] = "manual"}
    /\ ch.kind \notin {"inspection", "multi", "manual"} => ch.inv = NoInvocation

QInv == Sound(fx) /\ ChoiceSound(fx, choice)

Own(f) == {i \in f.pending : Owner[i] = EffectActive}

-----------------------------------------------------------------------------
(***************************************************************************)
(* The queue operators.                                                    *)
(***************************************************************************)

LEMMA AfterSound ==
  ASSUME NEW f, Sound(f), NEW D \in SUBSET Invocation, NEW z
  PROVE  /\ Sound(After(f, D, z))
         /\ After(f, D, z).started = f.started \ D
         /\ f.blocked => After(f, D, z).blocked
         /\ f.pending \ After(f, D, z).pending \subseteq D \cap After(f, D, z).done
         /\ D \cap After(f, D, z).pending = {}
<1>1. FxOK(After(f, D, z))
  BY AfterType DEF Sound
<1> QED
  BY <1>1, AfterFields DEF Sound

LEMMA DropSound ==
  ASSUME NEW f, Sound(f), NEW i \in Invocation
  PROVE  /\ Sound(Drop(f, i))
         /\ Drop(f, i).started = f.started \ {i}
         /\ Drop(f, i).blocked = f.blocked
         /\ f.pending \ Drop(f, i).pending \subseteq {i} \cap Drop(f, i).done
<1>1. FxOK(Drop(f, i))
  BY DropType DEF Sound
<1> QED
  BY <1>1 DEF Drop, Sound, FxOK, FxType

LEMMA QueueSound ==
  ASSUME NEW f, Sound(f), NEW T \in SUBSET Invocation, T \cap f.done = {}
  PROVE  /\ Sound(Queue(f, T))
         /\ Queue(f, T).started = f.started /\ Queue(f, T).blocked = f.blocked
         /\ Queue(f, T).pending = f.pending \cup T
<1>1. FxOK(Queue(f, T))
  BY QueueType DEF Sound
<1> QED
  BY <1>1 DEF Queue, Sound, FxOK, FxType

\* The loop of _resolve_automatic_effects does nothing while a choice is open,
\* and executes an effect of the other player only after every waiting effect
\* of the turn player.
LEMMA AutoRunFacts ==
  ASSUME NEW f, Sound(f), NEW ch, NEW z, NEW g \in AutoRun(f, ch, z)
  PROVE  \E D \in SUBSET Invocation :
            /\ g = After(f, D, z)
            /\ ch # NoChoice => D = {}
            /\ \A i \in D : Owner[i] = EffectActive \/ Own(f) \subseteq D
<1>1. PICK s \in AutoOrders : IsAutoRun(f, ch, z, s) /\ g = After(f, Range(s), z)
  BY DEF AutoRun
<1> DEFINE before(k) == {s[j] : j \in {m \in DOMAIN s : m < k}}
           h(k) == After(f, before(k), z)
<1>2. \A k \in DOMAIN s : NextAuto(h(k), ch) = {s[k]}
  BY <1>1 DEF IsAutoRun
<1>3. \A k \in DOMAIN s :
         /\ ch = NoChoice /\ s[k] \in Automatic
         /\ Lock(h(k), ch) = {} /\ s[k] \in Batch(h(k), ch)
  <2> SUFFICES ASSUME NEW k \in DOMAIN s
               PROVE  /\ ch = NoChoice /\ s[k] \in Automatic
                      /\ Lock(h(k), ch) = {} /\ s[k] \in Batch(h(k), ch)
    OBVIOUS
  <2>1. s[k] \in NextAuto(h(k), ch)
    BY <1>2
  <2> HIDE DEF h
  <2> QED
    BY <2>1 DEF NextAuto
<1>4. Range(s) \in SUBSET Invocation
  BY <1>3 DEF Range, Automatic
<1>5. ch # NoChoice => Range(s) = {}
  BY <1>3 DEF Range
<1>6. ASSUME NEW i \in Range(s), Owner[i] # EffectActive
      PROVE  Own(f) \subseteq Range(s)
  <2>1. PICK k \in DOMAIN s : i = s[k]
    BY DEF Range
  <2>2. Own(h(k)) = {}
    <3> HIDE DEF h
    <3> QED
      BY <1>3, <1>6, <2>1 DEF Batch, Own
  <2>3. before(k) \subseteq Range(s)
    BY DEF Range
  <2>4. Own(f) \subseteq before(k)
    <3>1. f.pending \ before(k) \subseteq h(k).pending
      <4> HIDE DEF before
      <4> QED
        BY AfterFields DEF Sound
    <3> HIDE DEF h, before
    <3> QED
      BY <2>2, <3>1 DEF Own
  <2> QED
    BY <2>3, <2>4
<1> QED
  BY <1>1, <1>4, <1>5, <1>6

LEMMA AutoRunSound ==
  ASSUME NEW f, Sound(f), NEW ch, ChoiceSound(f, ch), NEW z,
         NEW g \in AutoRun(f, ch, z)
  PROVE  /\ Sound(g) /\ ChoiceSound(g, ch)
         /\ f.blocked => g.blocked
         /\ ch # NoChoice => g.started = f.started /\ f.pending \subseteq g.pending
<1>1. PICK D \in SUBSET Invocation : g = After(f, D, z) /\ (ch # NoChoice => D = {})
  BY AutoRunFacts
<1>2. Sound(g) /\ g.started = f.started \ D /\ (f.blocked => g.blocked)
      /\ f.pending \ g.pending \subseteq D
  BY <1>1, AfterSound
<1>3. CASE ch = NoChoice
  BY <1>2, <1>3, NoChoiceType DEF ChoiceSound
<1>4. CASE ch # NoChoice
  BY <1>1, <1>2, <1>4 DEF ChoiceSound
<1> QED
  BY <1>2, <1>3, <1>4

\* The locked effect is the only one of the batch, and otherwise the batch is
\* the turn player's share of the queue, if there is one.
LEMMA BatchCases ==
  ASSUME IInv, QInv, NEW i \in Batch(fx, choice)
  PROVE  /\ i \in fx.pending /\ i \in Invocation
         /\ \/ i \in Lock(fx, choice)
            \/ Owner[i] = EffectActive
            \/ Own(fx) = {}
         /\ fx.started \subseteq {i} \/ choice.inv # NoInvocation
         /\ choice.kind \in {"inspection", "multi"} => i = choice.inv /\ fx.started = {i}
<1>1. i \in fx.pending /\ i \in Invocation
  BY BatchFacts
<1>2. NoInvocation \notin fx.pending
  BY IInvFacts, EffectsAssumption DEF FxOK, FxType
<1> QED
  BY <1>1, <1>2 DEF Batch, Lock, Own, QInv, Sound, ChoiceSound, FxOK

-----------------------------------------------------------------------------
(***************************************************************************)
(* The handlers that work on the queue end in Settle.                      *)
(***************************************************************************)

\* The judgment leaves the queue as it is, and either closes the choice and
\* puts inspected cards away, or asks a winner for a card.
Judged(z, f) ==
    /\ fx' \in {f, [f EXCEPT !.bonus = NoBonus]}
    /\ \/ choice' = NoChoice /\ zones'.inspecting = {}
       \/ /\ choice'.kind = "success_live" /\ choice'.inv = NoInvocation
          /\ zones'.inspecting = z.inspecting

\* The areas once the players of S have each placed their single live card.
Placed(z, S) ==
    [z EXCEPT !.live    = [p \in Player |-> IF p \in S THEN {} ELSE @[p]],
              !.success = [p \in Player |-> IF p \in S THEN @[p] \cup z.live[p] ELSE @[p]],
              !.moved   = [p \in Player |-> IF p \in S THEN @[p] \cup z.live[p] ELSE @[p]]]
Several(z, p) == Cardinality(z.live[p]) > 1
Before(remaining, k) == {remaining[j] : j \in {m \in DOMAIN remaining : m < k}}

\* Who is asked by _finish_judgment_choices: the first winner with a choice.
AskedAt(z, remaining, f, k) ==
    /\ Several(z, remaining[k])
    /\ \A j \in DOMAIN remaining : Several(z, remaining[j]) => k <= j
    /\ zones' = Placed(z, Before(remaining, k))
    /\ choice' = ChoiceOf("success_live", remaining[k], NoInvocation,
                          z.live[remaining[k]], ChooseNext(remaining, k))
    /\ active' = remaining[k]
    /\ fx' = f
    /\ UNCHANGED <<phase, result, nextFirst>>

LEMMA FinishCases ==
  ASSUME NEW z, NEW f, NEW remaining, FinishJudgmentChoices(z, remaining, f)
  PROVE  \/ \E k \in DOMAIN remaining : AskedAt(z, remaining, f, k)
         \/ /\ \A k \in DOMAIN remaining : ~Several(z, remaining[k])
            /\ CompleteJudgment(Placed(z, Range(remaining)), f)
<1> DEFINE askers == {k \in DOMAIN remaining : Cardinality(z.live[remaining[k]]) > 1}
<1>1. CASE \E k \in askers :
              /\ \A j \in askers : k <= j
              /\ zones' = Placed(z, Before(remaining, k))
              /\ choice' = ChoiceOf("success_live", remaining[k], NoInvocation,
                                    z.live[remaining[k]], ChooseNext(remaining, k))
              /\ active' = remaining[k]
              /\ fx' = f
              /\ UNCHANGED <<phase, result, nextFirst>>
  BY <1>1 DEF AskedAt, Several
<1>2. CASE askers = {} /\ CompleteJudgment(Placed(z, Range(remaining)), f)
  BY <1>2 DEF Several
<1> QED
  BY <1>1, <1>2 DEF FinishJudgmentChoices, Placed, Before

LEMMA PlacedType ==
  ASSUME NEW z \in ZonesType, NEW S
  PROVE  /\ Placed(z, S) \in ZonesType
         /\ Placed(z, S).inspecting = z.inspecting
  BY DEF ZonesType, Placed

LEMMA FinishJudgmentQueue ==
  ASSUME NEW z \in ZonesType, NEW f, NEW remaining,
         FinishJudgmentChoices(z, remaining, f)
  PROVE  Judged(z, f)
<1>1. \A y, g : CompleteJudgment(y, g) /\ y \in ZonesType =>
         /\ choice' = NoChoice /\ zones'.inspecting = {}
         /\ fx' \in {g, [g EXCEPT !.bonus = NoBonus]}
  BY DEF CompleteJudgment, Cleared, ZonesType
<1>2. CASE \E k \in DOMAIN remaining : AskedAt(z, remaining, f, k)
  BY <1>2, PlacedType DEF AskedAt, Judged, ChoiceOf
<1>3. CASE CompleteJudgment(Placed(z, Range(remaining)), f)
  BY <1>1, <1>3, PlacedType DEF Judged
<1> QED
  BY <1>2, <1>3, FinishCases

LEMMA JudgeQueue ==
  ASSUME NEW z \in ZonesType, NEW f, Judge(z, f)
  PROVE  Judged(z, f)
  BY FinishJudgmentQueue DEF Judge

LEMMA JudgedSound ==
  ASSUME NEW z, NEW f, Sound(f), Judged(z, f)
  PROVE  QInv' /\ fx'.pending = f.pending /\ fx'.blocked = f.blocked
<1>1. Sound(fx') /\ fx'.pending = f.pending /\ fx'.blocked = f.blocked
  BY DEF Sound, Judged, NoBonus, FxOK, FxType
<1>2. ChoiceSound(fx', choice')
  BY NoChoiceType DEF Judged, ChoiceSound, NoChoice, ChoiceOf
<1> QED
  BY <1>1, <1>2 DEF QInv

\* A step that executes, drops or adds effects and then settles: what it has
\* done before the automatic effects run.  Such a handler runs only if an
\* effect waits, a choice made by hand is open, or in a main phase.
WorkedOn(f, ch, z) ==
    /\ Settle(f, ch, z) /\ UNCHANGED <<turn, first, queued>>
    /\ Sound(f) /\ ChoiceSound(f, ch) /\ ch \in {choice, NoChoice}
    /\ fx.blocked => f.blocked
    /\ fx.pending \ f.pending \subseteq Batch(fx, choice) \cap f.done
    /\ z \in ZonesType
    /\ z.moved = zones.moved
    /\ z.live = zones.live \/ "live_move" \in Adjustments
    /\ z.success = zones.success \/ "success_move" \in Adjustments
    /\ \/ fx.pending # {}
       \/ choice.kind = "manual" /\ choice.inv = NoInvocation
       \/ phase \in {"first_main", "second_main"}
    /\ choice.kind = "success_live" => fx.pending # {}
    /\ OfferedOnly => ch.kind # "manual"
    /\ OfferedOnly /\ NoStrandedInspection =>
          z.inspecting = {} /\ ch.kind \notin {"manual", "inspection"}

Worked == \E f, ch, z : WorkedOn(f, ch, z)

\* The adjustments by hand that put something on the table, and a step that
\* puts nothing there.
Littering == {"inspect", "stage_departure", "live_move", "resolution_move", "score"}
TableKept ==
    /\ choice' = choice /\ fx'.pending = fx.pending /\ fx'.bonus = fx.bonus
    /\ zones'.live = zones.live
    /\ zones'.inspecting = zones.inspecting /\ zones'.strays = zones.strays

\* Any other step of an effect, or by hand: it starts one, or adds some, opens or passes on
\* a choice, and leaves the phase and the judgment alone.
Quiet ==
    /\ UNCHANGED <<phase, turn, first, active, total, queued, winners, result, nextFirst>>
    /\ zones' \in ZonesType
    /\ zones'.moved = zones.moved
    /\ zones'.live = zones.live \/ "live_move" \in Adjustments
    /\ zones'.success = zones.success \/ "success_move" \in Adjustments
    /\ fx.pending \subseteq fx'.pending /\ (fx.blocked => fx'.blocked)
    /\ fx.pending = {} /\ phase \notin {"first_main", "second_main"} =>
          \/ fx'.pending = {}
          \/ "stage_departure" \in Adjustments /\ phase \notin SetupPhases
    /\ \/ choice' = choice
       \/ choice.kind \in {"none", "multi"} /\ choice'.kind \in {"none", "inspection", "multi"}
       \/ /\ choice = NoChoice /\ choice'.kind = "manual"
          /\ \/ choice'.inv \in fx'.pending
             \/ choice'.inv = NoInvocation /\ "inspect" \in Adjustments
    /\ phase = "turn_complete" /\ fx.pending = {} /\ choice = NoChoice =>
          TableKept \/ (~OfferedOnly /\ Adjustments \cap Littering # {})
    /\ OfferedOnly /\ choice' = choice => choice.kind # "manual"
    /\ OfferedOnly /\ NoStrandedInspection => NoStrandedInspection'

-----------------------------------------------------------------------------
(***************************************************************************)
(* Which steps are which.                                                  *)
(***************************************************************************)

\* generate_legal_actions offers nothing beside an open manual inspection.
LEMMA NotBesideManual ==
  ASSUME NEW a, Sent(a), a # "resolve_manual_inspection", OfferedOnly
  PROVE  choice.kind # "manual"
  BY DEF Sent, Offered

LEMMA NoChoiceSound == \A f : ChoiceSound(f, NoChoice)
  BY DEF ChoiceSound, NoChoice, ChoiceOf

LEMMA QFacts ==
  ASSUME IInv, QInv
  PROVE  /\ Sound(fx) /\ ChoiceSound(fx, choice) /\ zones \in ZonesType
         /\ choice \in ChoiceType /\ NoInvocation \notin fx.pending
         /\ choice.kind \in {"inspection", "multi"} => fx.pending # {}
  BY IInvFacts, EffectsAssumption DEF QInv, FxOK, FxType, ChoiceSound

\* With no choice open, the handlers that execute or drop an effect of the batch.
LEMMA WorkedIdle ==
  ASSUME IInv, QInv, choice = NoChoice, NEW i \in Batch(fx, choice),
         NEW f \in {Drop(fx, i), After(fx, {i}, zones)}, Settle(f, choice, zones),
         UNCHANGED <<turn, first, queued>>
  PROVE  Worked
<1>1. i \in fx.pending /\ i \in Invocation
  BY BatchCases
<1>2. /\ Sound(f) /\ (fx.blocked => f.blocked)
      /\ fx.pending \ f.pending \subseteq {i} \cap f.done
  <2>1. CASE f = Drop(fx, i)
    BY <1>1, <2>1, QFacts, DropSound
  <2>2. CASE f = After(fx, {i}, zones)
    <3>1. {i} \in SUBSET Invocation
      BY <1>1
    <3> QED
      BY <2>2, <3>1, QFacts, AfterSound
  <2> QED
    BY <2>1, <2>2
<1>3. WorkedOn(f, choice, zones)
  BY <1>1, <1>2, QFacts, NoChoiceSound, NoChoiceType DEF WorkedOn, NoStrandedInspection
<1> QED
  BY <1>3 DEF Worked

LEMMA DeclineEffectWorks ==
  ASSUME IInv, QInv, NEW i \in Invocation, DeclineEffect(i)
  PROVE  Worked
  BY WorkedIdle DEF DeclineEffect, MayResolve

LEMMA ExecuteEffectWorks ==
  ASSUME IInv, QInv, NEW i \in Invocation, ExecuteEffect(i)
  PROVE  Worked
  BY WorkedIdle DEF ExecuteEffect, MayResolve

LEMMA SkipEffectWorks ==
  ASSUME IInv, QInv, NEW i \in Invocation, SkipEffect(i)
  PROVE  Worked
<1> DEFINE f == Drop(fx, i)
           ch == IF ClosedBySkip(i) THEN NoChoice ELSE choice
           z == IF ClosedBySkip(i) /\ choice.kind = "inspection"
                THEN [zones EXCEPT !.inspecting = @ \ {Owner[i]}] ELSE zones
<1>1. i \in Batch(fx, choice) /\ i \in fx.pending
  BY BatchCases DEF SkipEffect
<1>2. /\ Sound(f) /\ (fx.blocked => f.blocked)
      /\ fx.pending \ f.pending \subseteq {i} \cap f.done
  BY QFacts, DropSound
<1>3. choice.kind \in {"inspection", "multi"} => i = choice.inv
  BY <1>1, BatchCases
<1>4. ChoiceSound(f, ch)
  BY <1>3, QFacts, NoChoiceSound DEF ClosedBySkip, ChoiceSound
<1>5. /\ z \in ZonesType
      /\ z.live = zones.live /\ z.success = zones.success /\ z.moved = zones.moved
  BY QFacts DEF ZonesType
<1>6. OfferedOnly => choice.kind # "manual" /\ ch.kind # "manual"
  BY NotBesideManual, NoChoiceType DEF SkipEffect
<1>7. ASSUME OfferedOnly, NoStrandedInspection
      PROVE  z.inspecting = {} /\ ch.kind # "inspection"
  <2>1. CASE choice.kind = "inspection"
    BY <1>3, <1>7, <2>1, QFacts, NoChoiceType
    DEF ClosedBySkip, NoStrandedInspection, ChoiceSound, ZonesType
  <2>2. CASE choice.kind # "inspection"
    BY <1>6, <1>7, <2>2, NoChoiceType DEF NoStrandedInspection
  <2> QED
    BY <2>1, <2>2
<1>8. Settle(f, ch, z) /\ UNCHANGED <<turn, first, queued>>
  BY DEF SkipEffect
<1>9. WorkedOn(f, ch, z)
  <2> HIDE DEF f, z
  <2> QED
    BY <1>1, <1>2, <1>4, <1>5, <1>6, <1>7, <1>8 DEF WorkedOn
<1> QED
  BY <1>9 DEF Worked

LEMMA AdjustForEffectWorks ==
  ASSUME IInv, QInv, NEW i \in Invocation, NEW T \in SUBSET Invocation,
         AdjustForEffect(i, T)
  PROVE  Worked
<1>1. i \in Batch(fx, choice) /\ i \in fx.pending /\ Kind[i] = "manual"
  BY BatchCases DEF AdjustForEffect
<1>2. T \cap fx.done = {}
  BY DEF AdjustForEffect, Departures, Triggered, Fresh
<1>3. PICK z \in HandZones, h \in HandFx : Settle(After(Queue(h, T), {i}, z), choice, z)
  BY DEF AdjustForEffect
<1>4. /\ Sound(h) /\ h.done = fx.done /\ h.started = fx.started
      /\ h.pending = fx.pending /\ h.blocked = fx.blocked
  BY HandFacts, QFacts DEF Sound
<1> DEFINE f == After(Queue(h, T), {i}, z)
<1>5. /\ Sound(f) /\ (fx.blocked => f.blocked)
      /\ fx.pending \ f.pending \subseteq {i} \cap f.done
  <2>1. /\ Sound(Queue(h, T)) /\ Queue(h, T).blocked = fx.blocked
        /\ fx.pending \subseteq Queue(h, T).pending
    BY <1>2, <1>4, QueueSound
  <2>2. {i} \in SUBSET Invocation
    OBVIOUS
  <2> QED
    BY <2>1, <2>2, AfterSound
<1>6. choice.kind \notin {"inspection", "multi"}
  BY <1>1, BatchCases, QFacts DEF AdjustForEffect, MayAdjust, ChoiceSound
<1>7. ChoiceSound(f, choice)
  BY <1>6, QFacts DEF ChoiceSound
<1>8. OfferedOnly => choice.kind # "manual"
  BY NotBesideManual DEF AdjustForEffect, MayAdjust
<1>9. OfferedOnly /\ NoStrandedInspection => z.inspecting = {}
  BY <1>6, <1>8, HandFacts DEF NoStrandedInspection
<1>10. WorkedOn(f, choice, z)
  <2> HIDE DEF f
  <2>1. Settle(f, choice, z) /\ UNCHANGED <<turn, first, queued>>
    BY <1>3 DEF AdjustForEffect, f
  <2> QED
    BY <1>1, <1>5, <1>6, <1>7, <1>8, <1>9, <2>1, HandFacts DEF WorkedOn
<1> QED
  BY <1>10 DEF Worked

\* The handlers that execute the effect whose choice they close.
LEMMA WorkedOnChoice ==
  ASSUME IInv, QInv, NEW z \in ZonesType,
         choice.inv \in Batch(fx, choice), choice.kind # "success_live",
         z.live = zones.live, z.success = zones.success, z.moved = zones.moved,
         OfferedOnly /\ NoStrandedInspection => z.inspecting = {},
         Settle(After(fx, {choice.inv}, zones), NoChoice, z), UNCHANGED <<turn, first, queued>>
  PROVE  Worked
<1> DEFINE f == After(fx, {choice.inv}, zones)
<1>1. choice.inv \in fx.pending /\ choice.inv \in Invocation
  BY BatchCases
<1>2. /\ Sound(f) /\ (fx.blocked => f.blocked)
      /\ fx.pending \ f.pending \subseteq {choice.inv} \cap f.done
  BY <1>1, QFacts, AfterSound
<1>3. WorkedOn(f, NoChoice, z)
  <2> HIDE DEF f
  <2> QED
    BY <1>1, <1>2, NoChoiceSound, NoChoiceType DEF WorkedOn, f
<1> QED
  BY <1>3 DEF Worked

LEMMA LockedBatch ==
  ASSUME choice.inv \in fx.pending
  PROVE  choice.inv \in Batch(fx, choice)
  BY DEF Batch, Lock

LEMMA ResolveInspectionWorks ==
  ASSUME IInv, QInv, ResolveInspection
  PROVE  Worked
<1> DEFINE z == [zones EXCEPT !.inspecting = @ \ {choice.player}]
<1>1. z \in ZonesType /\ z.live = zones.live /\ z.success = zones.success
      /\ z.moved = zones.moved /\ z.inspecting = zones.inspecting \ {choice.player}
  BY QFacts DEF ZonesType
<1>2. NoStrandedInspection => z.inspecting = {}
  BY <1>1 DEF NoStrandedInspection, ResolveInspection
<1> QED
  BY <1>1, <1>2, LockedBatch, WorkedOnChoice DEF ResolveInspection

LEMMA ResolveManualInspectionWorks ==
  ASSUME IInv, QInv, ResolveManualInspection
  PROVE  Worked
<1> DEFINE z == [zones EXCEPT !.inspecting = @ \ {choice.player}]
<1>1. z \in ZonesType /\ z.live = zones.live /\ z.success = zones.success
      /\ z.moved = zones.moved /\ z.inspecting = zones.inspecting \ {choice.player}
  BY QFacts DEF ZonesType
<1>2. NoStrandedInspection => z.inspecting = {}
  BY <1>1 DEF NoStrandedInspection, ResolveManualInspection
<1>3. CASE choice.inv # NoInvocation
  BY <1>1, <1>2, <1>3, WorkedOnChoice DEF ResolveManualInspection
<1>4. CASE choice.inv = NoInvocation
  <2>1. WorkedOn(fx, NoChoice, z)
    <3> HIDE DEF z
    <3>1. Settle(fx, NoChoice, z) /\ UNCHANGED <<turn, first, queued>>
      BY <1>4 DEF ResolveManualInspection, z
    <3>2. choice.kind = "manual"
      BY DEF ResolveManualInspection
    <3> QED
      BY <1>1, <1>2, <1>4, <3>1, <3>2, QFacts, NoChoiceSound, NoChoiceType DEF WorkedOn
  <2> QED
    BY <2>1 DEF Worked
<1> QED
  BY <1>3, <1>4

\* A simple activated effect, used with an empty queue.
LEMMA ActivateSimpleWorks ==
  ASSUME IInv, QInv, NEW i \in Invocation, ActivateEffect(i),
         Settle(After(fx, {i}, zones), choice, zones)
  PROVE  Worked
<1> DEFINE f == After(fx, {i}, zones)
<1>1. fx.pending = {} /\ phase \in {"first_main", "second_main"}
  BY DEF ActivateEffect, QueueEmpty
<1>2. Sound(f) /\ (fx.blocked => f.blocked)
  BY QFacts, AfterSound
<1>3. choice.kind \notin {"inspection", "multi", "success_live"}
  BY <1>1, QFacts DEF IInv, AskedInJudgment
<1>4. ChoiceSound(f, choice)
  BY <1>3, QFacts DEF ChoiceSound
<1>5. OfferedOnly => choice.kind # "manual"
  BY NotBesideManual DEF ActivateEffect
<1>6. WorkedOn(f, choice, zones)
  <2> HIDE DEF f
  <2>1. Settle(f, choice, zones) /\ UNCHANGED <<turn, first, queued>>
    BY DEF ActivateEffect, f
  <2> QED
    BY <1>1, <1>2, <1>3, <1>4, <1>5, <2>1, QFacts DEF WorkedOn, NoStrandedInspection
<1> QED
  BY <1>6 DEF Worked

LEMMA AnswerMultiPlayerKind ==
  ASSUME IInv, QInv, AnswerMultiPlayer
  PROVE  Worked \/ (Quiet /\ QInv')
<1>1. CASE /\ choice.rest # <<>>
           /\ choice' = [choice EXCEPT !.player = Head(choice.rest),
                                       !.rest = Tail(choice.rest)]
           /\ UNCHANGED <<phase, active, fx, zones, total, winners, result, nextFirst>>
  <2>1. choice.kind = "multi" /\ choice'.kind = "multi" /\ choice'.inv = choice.inv
    BY <1>1, QFacts DEF AnswerMultiPlayer, ChoiceType
  <2>2. QInv'
    BY <1>1, <2>1, QFacts DEF QInv, ChoiceSound, Sound
  <2>3. choice # NoChoice
    BY <2>1, NoChoiceType
  <2>4. NoStrandedInspection => NoStrandedInspection'
    BY <1>1, <2>1 DEF NoStrandedInspection
  <2>5. Quiet
    BY <1>1, <2>1, <2>3, <2>4, QFacts DEF Quiet, AnswerMultiPlayer
  <2> QED
    BY <2>2, <2>5
<1>2. CASE choice.inv \in fx.pending /\ Settle(After(fx, {choice.inv}, zones), NoChoice, zones)
  <2>1. choice.inv \in Batch(fx, choice) /\ choice.kind = "multi"
    BY <1>2, LockedBatch DEF AnswerMultiPlayer
  <2>2. NoStrandedInspection => zones.inspecting = {}
    BY <2>1 DEF NoStrandedInspection
  <2> QED
    BY <1>2, <2>1, <2>2, QFacts, WorkedOnChoice DEF AnswerMultiPlayer
<1> QED
  BY <1>1, <1>2 DEF AnswerMultiPlayer

LEMMA StartEffectQuiet ==
  ASSUME IInv, QInv, NEW i \in Invocation, StartEffect(i)
  PROVE  Quiet /\ QInv'
<1>1. /\ choice = NoChoice /\ i \in fx.pending /\ fx.started = {}
      /\ Kind[i] \in {"two_step", "inspect", "multi"} /\ Owner[i] \in Player
  <2>1. choice = NoChoice /\ choice.inv = NoInvocation /\ i \in Batch(fx, choice)
    BY DEF StartEffect, MayResolve, NoChoice, ChoiceOf
  <2>2. i \notin fx.started /\ Kind[i] \in {"two_step", "inspect", "multi"}
    BY DEF StartEffect
  <2>3. i \in fx.pending /\ fx.started \subseteq {i}
    BY <2>1, BatchCases
  <2> QED
    BY <2>1, <2>2, <2>3, EffectsAssumption
<1>2. Sound(fx') /\ fx'.started = {i} /\ fx'.pending = fx.pending /\ fx'.blocked = fx.blocked
  BY <1>1, QFacts DEF StartEffect, Sound, FxOK, FxType
<1>3. CASE Kind[i] = "two_step"
  <2>1. choice' = choice /\ zones' = zones
    BY <1>1, <1>3 DEF StartEffect
  <2>2. QInv'
    BY <1>1, <1>2, <2>1, NoChoiceSound DEF QInv
  <2>3. Quiet
    BY <1>1, <1>2, <2>1, QFacts, NoChoiceType DEF Quiet, StartEffect, NoStrandedInspection
  <2> QED
    BY <2>2, <2>3
<1>4. CASE Kind[i] = "inspect"
  <2>1. /\ choice' = ChoiceOf("inspection", Owner[i], i, {}, <<>>)
        /\ zones' = [zones EXCEPT !.inspecting = @ \cup {Owner[i]}]
    BY <1>4 DEF StartEffect
  <2>2. /\ choice'.kind = "inspection" /\ choice'.inv = i /\ choice'.player = Owner[i]
        /\ zones' \in ZonesType /\ zones'.inspecting = zones.inspecting \cup {Owner[i]}
        /\ zones'.live = zones.live /\ zones'.success = zones.success
        /\ zones'.moved = zones.moved
    BY <1>1, <2>1, QFacts DEF ChoiceOf, ZonesType
  <2>3. QInv'
    BY <1>2, <1>4, <2>2 DEF QInv, ChoiceSound
  <2>4. NoStrandedInspection => NoStrandedInspection'
    BY <1>1, <2>2, NoChoiceType DEF NoStrandedInspection
  <2>5. Quiet
    BY <1>1, <1>2, <2>2, <2>4, NoChoiceType DEF Quiet, StartEffect
  <2> QED
    BY <2>3, <2>5
<1>5. CASE Kind[i] = "multi"
  <2>1. choice' = ChoiceOf("multi", EffectActive, i, {}, <<Opp(EffectActive)>>)
        /\ zones' = zones
    BY <1>5 DEF StartEffect
  <2>2. choice'.kind = "multi" /\ choice'.inv = i
    BY <2>1 DEF ChoiceOf
  <2>3. QInv'
    BY <1>2, <1>5, <2>2 DEF QInv, ChoiceSound
  <2>4. Quiet
    BY <1>1, <1>2, <2>1, <2>2, QFacts, NoChoiceType
    DEF Quiet, StartEffect, NoStrandedInspection
  <2> QED
    BY <2>3, <2>4
<1> QED
  BY <1>1, <1>3, <1>4, <1>5

LEMMA ActivateEffectKind ==
  ASSUME IInv, QInv, NEW i \in Invocation, ActivateEffect(i)
  PROVE  Worked \/ (Quiet /\ QInv')
<1>1. /\ fx.pending = {} /\ phase \in {"first_main", "second_main"}
      /\ i \notin fx.done /\ Owner[i] = active /\ active \in Player
  BY EffectsAssumption DEF ActivateEffect, QueueEmpty, Triggered, Fresh
<1>2. choice.kind \notin {"inspection", "multi"} /\ fx.started = {}
  BY <1>1, QFacts DEF Sound, FxOK
<1>3. OfferedOnly => choice.kind # "manual"
  BY NotBesideManual DEF ActivateEffect
<1>4. CASE Kind[i] = "simple" /\ Settle(After(fx, {i}, zones), choice, zones)
  BY <1>4, ActivateSimpleWorks
<1> DEFINE Waits ==
      /\ fx' = [fx EXCEPT !.pending = @ \cup {i}, !.started = @ \cup {i}]
      /\ UNCHANGED <<phase, active, total, winners, result, nextFirst>>
<1>5. ASSUME Waits
      PROVE  /\ Sound(fx') /\ fx'.started = {i} /\ i \in fx'.pending
             /\ fx'.blocked = fx.blocked
  BY <1>1, <1>2, <1>5, QFacts DEF Sound, FxOK, FxType
<1>6. CASE /\ Kind[i] = "inspect" /\ choice = NoChoice /\ Waits
           /\ choice' = ChoiceOf("inspection", active, i, {}, <<>>)
           /\ zones' = [zones EXCEPT !.inspecting = @ \cup {active}]
  <2>1. /\ choice'.kind = "inspection" /\ choice'.inv = i /\ choice'.player = active
        /\ zones' \in ZonesType /\ zones'.inspecting = zones.inspecting \cup {active}
        /\ zones'.live = zones.live /\ zones'.success = zones.success
        /\ zones'.moved = zones.moved
    BY <1>1, <1>6, QFacts DEF ChoiceOf, ZonesType
  <2>2. QInv'
    BY <1>1, <1>5, <1>6, <2>1 DEF QInv, ChoiceSound
  <2>3. NoStrandedInspection => NoStrandedInspection'
    BY <1>6, <2>1, NoChoiceType DEF NoStrandedInspection
  <2>4. Quiet
    BY <1>1, <1>5, <1>6, <2>1, <2>3, NoChoiceType DEF Quiet, ActivateEffect
  <2> QED
    BY <2>2, <2>4
<1>7. CASE Waits /\ UNCHANGED <<choice, zones>>
  <2>1. QInv'
    BY <1>2, <1>5, <1>7, QFacts DEF QInv, ChoiceSound
  <2>2. Quiet
    BY <1>1, <1>3, <1>5, <1>7, QFacts DEF Quiet, ActivateEffect, NoStrandedInspection
  <2> QED
    BY <2>1, <2>2
<1>8. CASE /\ fx' = Queue(fx, {i})
           /\ UNCHANGED <<phase, active, choice, zones, total, winners, result, nextFirst>>
  <2>1. Sound(fx') /\ fx'.started = fx.started /\ fx'.blocked = fx.blocked
        /\ fx'.pending = fx.pending \cup {i}
    BY <1>1, <1>8, QFacts, QueueSound
  <2>2. QInv'
    BY <1>2, <1>8, <2>1, QFacts DEF QInv, ChoiceSound
  <2>3. Quiet
    BY <1>1, <1>3, <1>8, <2>1, QFacts DEF Quiet, ActivateEffect, NoStrandedInspection
  <2> QED
    BY <2>2, <2>3
<1> QED
  BY <1>4, <1>6, <1>7, <1>8 DEF ActivateEffect

LEMMA PlayMemberQuiet ==
  ASSUME IInv, QInv, NEW T \in SUBSET Invocation, PlayMember(T)
  PROVE  Quiet /\ QInv'
<1>1. /\ fx.pending = {} /\ phase \in {"first_main", "second_main"}
      /\ T \cap fx.done = {} /\ choice' = choice /\ zones' = zones
  BY DEF PlayMember, QueueEmpty, Triggered, Fresh
<1>2. PICK g \in AutoRun(Queue(fx, T), choice, zones) : fx' = g
  BY DEF PlayMember
<1>3. /\ Sound(Queue(fx, T)) /\ Queue(fx, T).started = fx.started
      /\ Queue(fx, T).blocked = fx.blocked
  BY <1>1, QFacts, QueueSound
<1>4. ChoiceSound(Queue(fx, T), choice)
  BY <1>3, QFacts DEF ChoiceSound
<1>5. Sound(fx') /\ ChoiceSound(fx', choice) /\ (fx.blocked => fx'.blocked)
  BY <1>2, <1>3, <1>4, AutoRunSound
<1>6. OfferedOnly => choice.kind # "manual"
  BY NotBesideManual DEF PlayMember
<1>7. Quiet
  BY <1>1, <1>5, <1>6, QFacts DEF Quiet, PlayMember, NoStrandedInspection
<1> QED
  BY <1>1, <1>5, <1>7 DEF QInv

LEMMA InspectTopCardsQuiet ==
  ASSUME IInv, QInv, NEW p \in Player, NEW i \in Invocation \cup {NoInvocation},
         InspectTopCards(p, i)
  PROVE  Quiet /\ QInv'
<1>1. /\ choice = NoChoice /\ fx' = fx
      /\ \/ i = NoInvocation /\ fx.pending = {} /\ "inspect" \in Adjustments
         \/ i \in fx.pending /\ i \in Invocation /\ Kind[i] = "manual"
  BY BatchCases DEF InspectTopCards, MayInspect, QueueEmpty
<1>2. /\ choice'.kind = "manual" /\ choice'.inv = i /\ choice'.player = p
      /\ zones' \in ZonesType /\ zones'.inspecting = zones.inspecting \cup {p}
      /\ zones'.live = zones.live /\ zones'.success = zones.success
      /\ zones'.moved = zones.moved
  BY QFacts DEF InspectTopCards, ChoiceOf, ZonesType
<1>3. QInv'
  BY <1>1, <1>2, QFacts DEF QInv, ChoiceSound
<1>4. NoStrandedInspection => NoStrandedInspection'
  BY <1>1, <1>2, NoChoiceType DEF NoStrandedInspection
<1>5. ASSUME phase = "turn_complete", fx.pending = {}
      PROVE  ~OfferedOnly /\ "inspect" \in Adjustments
  BY <1>1, <1>5, NoChoiceType
  DEF InspectTopCards, Sent, Offered, OfferedOutsideInspection
<1>6. Quiet
  BY <1>1, <1>2, <1>4, <1>5, NoChoiceType DEF Quiet, Littering, InspectTopCards
<1> QED
  BY <1>3, <1>6

LEMMA AdjustByHandQuiet ==
  ASSUME IInv, QInv, NEW T \in SUBSET Invocation, AdjustByHand(T)
  PROVE  Quiet /\ QInv'
<1>1. fx.pending = {} /\ T \cap fx.done = {} /\ choice' = choice /\ zones' \in HandZones
  BY DEF AdjustByHand, Departures, QueueEmpty, Triggered, Fresh
<1>2. T = {} \/ ("stage_departure" \in Adjustments /\ phase \notin SetupPhases)
  BY DEF AdjustByHand, Departures
<1>3. PICK f \in HandFx : fx' = Queue(f, T)
  BY DEF AdjustByHand
<1>4. /\ Sound(f) /\ f.done = fx.done /\ f.started = fx.started /\ f.pending = {}
      /\ f.blocked = fx.blocked /\ (f.bonus = fx.bonus \/ "score" \in Adjustments)
  BY <1>1, HandFacts, QFacts DEF Sound
<1>5. /\ Sound(fx') /\ fx'.started = fx.started /\ fx'.blocked = fx.blocked
      /\ fx'.pending = T /\ fx'.bonus = f.bonus
  <2>1. fx'.bonus = f.bonus
    BY <1>3, <1>4 DEF Queue, Sound, FxOK, FxType
  <2>2. /\ Sound(Queue(f, T)) /\ Queue(f, T).started = f.started
        /\ Queue(f, T).blocked = f.blocked /\ Queue(f, T).pending = T
    <3>1. T \cap f.done = {}
      BY <1>1, <1>4
    <3> QED
      BY <1>4, <3>1, QueueSound
  <2> QED
    BY <1>3, <1>4, <2>1, <2>2
<1>6. QInv'
  BY <1>1, <1>5, QFacts DEF QInv, ChoiceSound
<1>7. OfferedOnly => choice.kind \notin {"manual", "inspection"}
  BY NotBesideManual DEF AdjustByHand, MayAdjust
<1>8. OfferedOnly /\ NoStrandedInspection => NoStrandedInspection'
  BY <1>1, <1>7, HandFacts DEF NoStrandedInspection
<1>9. ASSUME phase = "turn_complete", choice = NoChoice
      PROVE  TableKept \/ (~OfferedOnly /\ Adjustments \cap Littering # {})
  <2>1. ~OfferedOnly
    BY <1>1, <1>9, NoChoiceType
    DEF AdjustByHand, MayAdjust, Sent, Offered, OfferedOutsideInspection
  <2>2. CASE Adjustments \cap Littering = {}
    BY <1>1, <1>2, <1>4, <1>5, <2>2, HandFacts DEF Littering, TableKept
  <2> QED
    BY <2>1, <2>2
<1>10. Quiet
  BY <1>1, <1>2, <1>5, <1>7, <1>8, <1>9, HandFacts DEF Quiet, AdjustByHand
<1> QED
  BY <1>6, <1>10

\* The requests of setup, turn and live: they are refused while an effect waits.
PhaseStep ==
    \/ SetupStep \/ LiveStep
    \/ AdvancePhase \/ EndMainPhase \/ StartNextTurn

LEMMA StepKinds ==
  ASSUME IInv, QInv, Next
  PROVE  Worked \/ (Quiet /\ QInv') \/ PhaseStep
<1>1. CASE SetupStep \/ LiveStep
  BY <1>1 DEF PhaseStep
<1>2. CASE TurnStep
  BY <1>2, PlayMemberQuiet, ActivateEffectKind DEF TurnStep, PhaseStep
<1>3. CASE EffectStep
  BY <1>3, DeclineEffectWorks, StartEffectQuiet, ExecuteEffectWorks, SkipEffectWorks,
     ResolveInspectionWorks, AnswerMultiPlayerKind, ResolveManualInspectionWorks
  DEF EffectStep
<1>4. CASE Adjust
  BY <1>4, AdjustForEffectWorks, InspectTopCardsQuiet, AdjustByHandQuiet DEF Adjust
<1> QED
  BY <1>1, <1>2, <1>3, <1>4 DEF Next, GameStep

-----------------------------------------------------------------------------
(***************************************************************************)
(* The invariant of the queue and of the choice that belongs to it.        *)
(***************************************************************************)

LEMMA WorkedSound ==
  ASSUME IInv, QInv, Worked
  PROVE  /\ QInv' /\ (fx.blocked => fx'.blocked)
         /\ choice'.kind = "manual" => ~OfferedOnly
         /\ OfferedOnly /\ NoStrandedInspection => NoStrandedInspection'
<1>1. PICK f, ch, z : WorkedOn(f, ch, z)
  BY DEF Worked
<1>2. Sound(f) /\ ChoiceSound(f, ch) /\ Settle(f, ch, z) /\ z \in ZonesType
  BY <1>1 DEF WorkedOn
<1>3. PICK g \in AutoRun(f, ch, z) :
       \/ fx' = g /\ choice' = ch /\ zones' = z
       \/ Judge(z, g)
  BY <1>2 DEF Settle
<1>4. Sound(g) /\ ChoiceSound(g, ch) /\ (fx.blocked => g.blocked)
  BY <1>1, <1>2, AutoRunSound DEF WorkedOn
<1>5. CASE fx' = g /\ choice' = ch /\ zones' = z
  BY <1>1, <1>4, <1>5 DEF QInv, WorkedOn, NoStrandedInspection
<1>6. CASE Judge(z, g)
  <2>1. Judged(z, g)
    BY <1>2, <1>6, JudgeQueue
  <2>2. QInv' /\ fx'.blocked = g.blocked
    BY <1>4, <2>1, JudgedSound
  <2>3. choice'.kind \notin {"manual", "inspection"}
        /\ zones'.inspecting \in {z.inspecting, {}}
    BY <2>1, NoChoiceType DEF Judged
  <2> QED
    BY <1>1, <1>4, <2>2, <2>3 DEF WorkedOn, NoStrandedInspection
<1> QED
  BY <1>3, <1>5, <1>6

\* What the other requests do with an open choice and inspected cards.
Plain ==
    /\ fx.pending = {} /\ QInv'
    /\ choice' = choice \/ choice'.kind \notin {"inspection", "multi", "manual"}
    /\ OfferedOnly => choice.kind # "manual"
    /\ zones'.inspecting \in {zones.inspecting, {}}

\* They hand over a queue in which nothing waits.
LEMMA PlainIntro ==
  ASSUME IInv, QInv, fx.pending = {}, Sound(fx'), fx'.started = {},
         \/ choice' = choice
         \/ choice' = NoChoice
         \/ \E k \in {"mulligan", "live_requirements"} : \E p, c, r :
               choice' = ChoiceOf(k, p, NoInvocation, c, r),
         zones'.inspecting \in {zones.inspecting, {}},
         OfferedOnly => choice.kind # "manual"
  PROVE  Plain
<1>1. choice.kind \notin {"inspection", "multi"}
  BY QFacts
<1>2. CASE choice' = choice
  BY <1>1, <1>2, QFacts DEF Plain, QInv, ChoiceSound
<1>3. CASE choice' = NoChoice
  BY <1>3, NoChoiceSound, NoChoiceType DEF Plain, QInv
<1>4. CASE \E k \in {"mulligan", "live_requirements"} : \E p, c, r :
              choice' = ChoiceOf(k, p, NoInvocation, c, r)
  BY <1>4 DEF Plain, QInv, ChoiceSound, ChoiceOf
<1> QED
  BY <1>2, <1>3, <1>4

\* The judgment, begun or resumed.
LEMMA PlainJudged ==
  ASSUME fx.pending = {}, OfferedOnly => choice.kind # "manual",
         NEW z \in ZonesType, z.inspecting = zones.inspecting,
         NEW f, Sound(f), Judged(z, f)
  PROVE  Plain
  BY JudgedSound, NoChoiceType DEF Plain, Judged

LEMMA NothingStarted ==
  ASSUME IInv, QInv, fx.pending = {}
  PROVE  fx.started = {}
  BY QFacts DEF Sound, FxOK

LEMMA SetupPlain ==
  ASSUME IInv, QInv, SetupStep
  PROVE  Plain
<1>1. ASSUME NEW p \in Player, ChooseFirstPlayer(p) PROVE Plain
  <2>1. fx.pending = {} /\ fx' = fx /\ zones' = zones
    BY <1>1 DEF ChooseFirstPlayer, QueueEmpty
  <2>2. OfferedOnly => choice.kind # "manual"
    BY <1>1, NotBesideManual DEF ChooseFirstPlayer
  <2> QED
    BY <1>1, <2>1, <2>2, QFacts, NothingStarted, PlainIntro DEF ChooseFirstPlayer
<1>2. ASSUME SubmitMulligan PROVE Plain
  <2>1. fx.pending = {} /\ fx' = fx /\ zones' = zones
    BY <1>2 DEF SubmitMulligan, QueueEmpty
  <2>2. choice' = NoChoice
        \/ choice' = ChoiceOf("mulligan", second, NoInvocation, {}, <<>>)
    BY <1>2 DEF SubmitMulligan
  <2>3. choice.kind = "mulligan"
    BY <1>2 DEF SubmitMulligan
  <2> QED
    BY <2>1, <2>2, <2>3, QFacts, NothingStarted, PlainIntro
<1> QED
  BY <1>1, <1>2 DEF SetupStep

LEMMA TurnPlain ==
  ASSUME IInv, QInv, AdvancePhase \/ EndMainPhase \/ StartNextTurn
  PROVE  Plain
<1>1. ASSUME AdvancePhase \/ EndMainPhase PROVE Plain
  <2>1. fx.pending = {} /\ fx' = fx /\ zones' = zones /\ choice' = choice
    BY <1>1 DEF AdvancePhase, MayAdvance, EndMainPhase, QueueEmpty
  <2>2. OfferedOnly => choice.kind # "manual"
    BY <1>1, NotBesideManual DEF AdvancePhase, MayAdvance, EndMainPhase
  <2> QED
    BY <2>1, <2>2, QFacts, NothingStarted, PlainIntro
<1>2. ASSUME StartNextTurn PROVE Plain
  <2>1. fx.pending = {} /\ choice' = NoChoice
    BY <1>2 DEF StartNextTurn, QueueEmpty
  <2>2. Sound(fx') /\ fx'.started = {}
    BY <1>2, <2>1, QFacts, NothingStarted, ZeroScore
    DEF StartNextTurn, NoBonus, Sound, FxOK, FxType
  <2>3. zones'.inspecting = zones.inspecting
    BY <1>2, QFacts DEF StartNextTurn, ZonesType
  <2>4. OfferedOnly => choice.kind # "manual"
    BY <1>2, NotBesideManual DEF StartNextTurn
  <2> QED
    BY <2>1, <2>2, <2>3, <2>4, PlainIntro
<1> QED
  BY <1>1, <1>2

LEMMA PerformPlain ==
  ASSUME IInv, QInv, NEW T \in SUBSET Invocation, Perform(T)
  PROVE  Plain
<1>1. PICK g \in AutoRun(Queue(fx, T), choice,
                          [zones EXCEPT !.live[active] = Revealed(active)]) : fx' = g
  BY DEF Perform
<1>2. fx.pending = {} /\ T \cap fx.done = {} /\ choice' = choice
  BY DEF Perform, MayAdvance, QueueEmpty, Triggered, Fresh
<1>3. Sound(Queue(fx, T)) /\ Queue(fx, T).started = {}
  BY <1>2, QFacts, NothingStarted, QueueSound
<1>4. ChoiceSound(Queue(fx, T), choice)
  BY <1>2, <1>3, QFacts, NothingStarted DEF ChoiceSound
<1>5. QInv'
  BY <1>1, <1>2, <1>3, <1>4, AutoRunSound DEF QInv
<1>6. zones'.inspecting = zones.inspecting
  BY QFacts DEF Perform, ZonesType
<1>7. OfferedOnly => choice.kind # "manual"
  BY NotBesideManual DEF Perform, MayAdvance
<1> QED
  BY <1>2, <1>5, <1>6, <1>7 DEF Plain

LEMMA BeginJudgmentPlain ==
  ASSUME IInv, QInv, NEW T \in SUBSET Invocation, BeginJudgment(T)
  PROVE  Plain
<1> DEFINE z == [zones EXCEPT !.moved = [p \in Player |-> {}]]
           f == [fx EXCEPT !.blocked = FALSE]
<1>1. PICK g \in AutoRun(Queue(f, T), choice, z) :
         IF g.pending # {}
         THEN /\ fx' = g /\ zones' = z
              /\ UNCHANGED <<phase, active, choice, total, winners, result, nextFirst>>
         ELSE Judge(z, g)
  BY DEF BeginJudgment
<1>2. fx.pending = {} /\ T \cap f.done = {}
  BY QFacts DEF BeginJudgment, MayAdvance, QueueEmpty, Triggered, Fresh, Sound, FxOK, FxType
<1>3. Sound(f) /\ f.started = {} /\ z \in ZonesType /\ z.inspecting = zones.inspecting
  BY <1>2, QFacts, NothingStarted DEF Sound, FxOK, FxType, ZonesType
<1>4. Sound(Queue(f, T)) /\ Queue(f, T).started = {}
  <2> HIDE DEF f
  <2> QED
    BY <1>2, <1>3, QueueSound
<1>5. ChoiceSound(Queue(f, T), choice)
  BY <1>2, <1>4, QFacts, NothingStarted DEF ChoiceSound
<1>6. Sound(g) /\ ChoiceSound(g, choice)
  <2> HIDE DEF f
  <2> QED
    BY <1>4, <1>5, AutoRunSound
<1>7. OfferedOnly => choice.kind # "manual"
  BY NotBesideManual DEF BeginJudgment, MayAdvance
<1>8. CASE g.pending # {}
  BY <1>1, <1>2, <1>3, <1>6, <1>7, <1>8 DEF Plain, QInv
<1>9. CASE g.pending = {}
  <2>1. Judge(z, g)
    BY <1>1, <1>9
  <2> HIDE DEF z
  <2>2. Judged(z, g)
    BY <1>3, <2>1, JudgeQueue
  <2> QED
    BY <1>2, <1>3, <1>6, <1>7, <2>2, PlainJudged
<1> QED
  BY <1>8, <1>9

LEMMA ChooseSuccessLivePlain ==
  ASSUME IInv, QInv, NEW c \in Card, ChooseSuccessLive(c)
  PROVE  Plain
<1> DEFINE p == choice.player
           z == [zones EXCEPT !.live[p] = @ \ {c}, !.success[p] = @ \cup {c},
                              !.moved[p] = @ \cup {c}]
<1>1. fx.pending = {} /\ choice.kind = "success_live"
  BY DEF ChooseSuccessLive, QueueEmpty
<1>2. z \in ZonesType /\ z.inspecting = zones.inspecting
  BY QFacts DEF ZonesType
<1>3. FinishJudgmentChoices(z, choice.rest, fx)
  BY DEF ChooseSuccessLive
<1>4. Judged(z, fx)
  <2> HIDE DEF z
  <2> QED
    BY <1>2, <1>3, FinishJudgmentQueue
<1> QED
  BY <1>1, <1>2, <1>4, QFacts, PlainJudged

\* _apply_live_requirements
LEMMA RequirementsZones ==
  ASSUME NEW p, NEW satisfied, ApplyRequirements(p, satisfied), zones \in ZonesType
  PROVE  zones'.inspecting = zones.inspecting
  BY DEF ApplyRequirements, ZonesType

LEMMA YellPlain ==
  ASSUME IInv, QInv, NEW ok \in BOOLEAN,
         YellAsks \/ YellDecides(ok) \/ OrderRequirements(ok)
  PROVE  Plain
<1>1. fx.pending = {} /\ fx' = fx
  BY DEF YellAsks, YellDecides, OrderRequirements, MayAdvance, QueueEmpty
<1>2. OfferedOnly => choice.kind # "manual"
  BY NotBesideManual DEF YellAsks, YellDecides, OrderRequirements, MayAdvance
<1>3. zones'.inspecting = zones.inspecting
  BY QFacts, RequirementsZones DEF YellAsks, YellDecides, OrderRequirements
<1>4. \/ choice' = choice
      \/ choice' = NoChoice
      \/ choice' = ChoiceOf("live_requirements", active, NoInvocation,
                            zones.live[active], <<>>)
  BY DEF YellAsks, YellDecides, OrderRequirements
<1> QED
  BY <1>1, <1>2, <1>3, <1>4, QFacts, NothingStarted, PlainIntro

LEMMA SetLiveCardsPlain ==
  ASSUME IInv, QInv, NEW S \in SUBSET Card, SetLiveCards(S)
  PROVE  Plain
<1>1. /\ fx.pending = {} /\ fx' = fx /\ choice' = choice
      /\ zones'.inspecting = zones.inspecting
  BY QFacts DEF SetLiveCards, QueueEmpty, ZonesType
<1>2. OfferedOnly => choice.kind # "manual"
  BY NotBesideManual DEF SetLiveCards
<1> QED
  BY <1>1, <1>2, QFacts, NothingStarted, PlainIntro

LEMMA PhaseStepPlain ==
  ASSUME IInv, QInv, PhaseStep
  PROVE  Plain
  BY SetupPlain, TurnPlain, SetLiveCardsPlain, PerformPlain,
     BeginJudgmentPlain, YellPlain, ChooseSuccessLivePlain DEF PhaseStep, LiveStep

LEMMA QueueStep ==
  ASSUME IInv, QInv, [Next]_vars
  PROVE  QInv'
<1>1. CASE UNCHANGED vars
  BY <1>1 DEF vars, QInv, Sound, ChoiceSound
<1>2. CASE Next
  BY <1>2, StepKinds, WorkedSound, PhaseStepPlain DEF Plain
<1> QED
  BY <1>1, <1>2

LEMMA QueueInductive == Spec => []QInv
<1>1. Init => QInv
  <2> SUFFICES ASSUME Init PROVE QInv
    OBVIOUS
  <2>1. IInv
    BY InitInv
  <2> QED
    BY <2>1, IInvFacts, NoChoiceSound DEF Init, QInv, Sound, NoFx
<1>2. IInv /\ QInv /\ [Next]_vars => QInv'
  BY QueueStep
<1> QED
  BY <1>1, <1>2, Inductive, PTL DEF Spec

-----------------------------------------------------------------------------
(***************************************************************************)
(* The turn player's effects first.                                        *)
(***************************************************************************)

\* What leaves the queue, and what it waited for.
InTurn ==
    \A i \in fx.pending \ fx'.pending :
       \/ Owner[i] = EffectActive \/ i \in Lock(fx, choice)
       \/ Own(fx) \cap fx'.pending = {}

\* An effect is gone from the queue because the handler resolved or dropped it,
\* or because the automatic resolution executed it.
LEMMA WorkedInTurn ==
  ASSUME IInv, QInv, Worked
  PROVE  InTurn
<1>1. PICK f, ch, z : WorkedOn(f, ch, z)
  BY DEF Worked
<1>2. /\ Sound(f) /\ ChoiceSound(f, ch) /\ Settle(f, ch, z) /\ z \in ZonesType
      /\ fx.pending \ f.pending \subseteq Batch(fx, choice) \cap f.done
  BY <1>1 DEF WorkedOn
<1>3. PICK g \in AutoRun(f, ch, z) : fx' = g \/ Judge(z, g)
  BY <1>2 DEF Settle
<1>4. PICK D \in SUBSET Invocation :
         /\ g = After(f, D, z)
         /\ \A i \in D : Owner[i] = EffectActive \/ Own(f) \subseteq D
  BY <1>2, AutoRunFacts
<1>5. /\ Sound(g) /\ D \cap g.pending = {}
      /\ f.pending \ g.pending \subseteq D /\ f.done \subseteq g.done
  <2>1. After(f, D, z).done = f.done \cup D
    BY <1>2, AfterFields DEF Sound
  <2> QED
    BY <1>2, <1>4, <2>1, AfterSound
<1>6. fx'.pending = g.pending
  BY <1>2, <1>3, <1>5, JudgeQueue, JudgedSound
<1> SUFFICES ASSUME NEW i \in fx.pending, i \notin g.pending,
                    Owner[i] # EffectActive, i \notin Lock(fx, choice)
             PROVE  Own(fx) \cap g.pending = {}
  BY <1>6 DEF InTurn
<1>7. CASE i \notin f.pending
  <2>1. i \in Batch(fx, choice)
    BY <1>2, <1>7
  <2>2. Own(fx) = {}
    BY <2>1, BatchCases
  <2> QED
    BY <2>2
<1>8. CASE i \in f.pending
  <2>1. Own(f) \subseteq D
    BY <1>4, <1>5, <1>8
  <2>2. ASSUME NEW j \in Own(fx), j \in g.pending PROVE FALSE
    <3>1. j \notin f.done
      BY <1>5, <2>2 DEF Sound
    <3>2. j \in Own(f)
      BY <1>2, <2>2, <3>1 DEF Own
    <3> QED
      BY <1>5, <2>1, <2>2, <3>2
  <2> QED
    BY <2>2
<1> QED
  BY <1>7, <1>8

\* The player to move resolves everything of theirs before an effect of the
\* opponent is resolved, by hand or by the loop of _resolve_automatic_effects
\* (rules 7.2.1 and 9.5.3), whatever triggers what in between and whichever
\* requests are sent.
THEOREM TurnPlayerFirstHolds == Spec => TurnPlayerFirst
<1>1. IInv /\ QInv /\ [Next]_vars =>
         [\A i \in fx.pending \ fx'.pending :
             \/ Owner[i] = EffectActive \/ i \in Lock(fx, choice)
             \/ {j \in fx.pending : Owner[j] = EffectActive} \cap fx'.pending = {}]_vars
  <2> SUFFICES ASSUME IInv, QInv, Next PROVE InTurn
    BY DEF InTurn, Own
  <2>1. CASE Worked
    BY <2>1, WorkedInTurn
  <2>2. CASE Quiet
    BY <2>2 DEF Quiet, InTurn
  <2>3. CASE PhaseStep
    BY <2>3, PhaseStepPlain DEF Plain, InTurn
  <2> QED
    BY <2>1, <2>2, <2>3, StepKinds
<1> QED
  BY <1>1, Inductive, QueueInductive, PTL DEF Spec, TurnPlayerFirst

-----------------------------------------------------------------------------
(***************************************************************************)
(* The lock on a half-resolved effect.                                     *)
(***************************************************************************)

\* The part of ResolutionLock that the senders can break: an inspection made by
\* hand for an effect that is skipped meanwhile stays open.  It is safe if only
\* offered actions are sent, or if no effect is resolved by hand.
SourceWaits == choice.inv # NoInvocation => choice.inv \in fx.pending

LEMMA SourceWaitsStep ==
  ASSUME OfferedOnly \/ \A i \in Invocation : Kind[i] # "manual",
         IInv, QInv, SourceWaits, [Next]_vars
  PROVE  SourceWaits'
<1>1. CASE UNCHANGED vars
  BY <1>1 DEF vars, SourceWaits
<1>2. CASE Next
  <2>1. QInv' /\ IInv'
    BY <1>2, QueueStep, StepInv
  <2>2. /\ ChoiceSound(fx', choice') /\ fx'.started \subseteq fx'.pending
    BY <2>1 DEF QInv, Sound, FxOK
  <2>3. choice'.inv # NoInvocation /\ choice'.kind # "manual" => choice'.inv \in fx'.pending
    BY <2>2 DEF ChoiceSound
  <2>4. CASE ~OfferedOnly
    BY <2>2, <2>3, <2>4 DEF SourceWaits, ChoiceSound
  <2>5. CASE OfferedOnly
    <3>1. CASE Worked
      BY <2>3, <2>5, <3>1, WorkedSound DEF SourceWaits
    <3>2. CASE Quiet
      BY <2>3, <2>5, <3>2 DEF Quiet, SourceWaits
    <3>3. CASE PhaseStep
      BY <2>3, <2>5, <3>3, PhaseStepPlain DEF Plain, SourceWaits
    <3> QED
      BY <1>2, <3>1, <3>2, <3>3, StepKinds
  <2> QED
    BY <2>4, <2>5
<1> QED
  BY <1>1, <1>2

\* At most one effect is half-resolved, and what an open choice or inspection
\* is about is in the queue: no handler that opens, answers, skips or forgets a
\* choice separates the two.
THEOREM ResolutionLockHolds ==
  ASSUME OfferedOnly \/ \A i \in Invocation : Kind[i] # "manual"
  PROVE  Spec => []ResolutionLock
<1>1. Init => SourceWaits
  BY DEF Init, SourceWaits, NoChoice, ChoiceOf
<1>2. IInv /\ QInv /\ SourceWaits /\ [Next]_vars => SourceWaits'
  BY SourceWaitsStep
<1>3. IInv /\ QInv /\ SourceWaits => ResolutionLock
  BY DEF ResolutionLock, SourceWaits, IInv, QInv, Sound, ChoiceSound
<1> QED
  BY <1>1, <1>2, <1>3, Inductive, QueueInductive, PTL DEF Spec

\* An inspection ends with its choice, if only offered actions are sent: no
\* step closes, replaces or forgets the choice and leaves the inspected cards
\* in a resolution area.
THEOREM InspectionNotStranded ==
  ASSUME OfferedOnly
  PROVE  Spec => []NoStrandedInspection
<1>1. Init => NoStrandedInspection
  BY DEF Init, NoStrandedInspection, NoZones, NoChoice, ChoiceOf
<1>2. ASSUME IInv, QInv, NoStrandedInspection, [Next]_vars
      PROVE  NoStrandedInspection'
  <2>1. CASE UNCHANGED vars
    BY <1>2, <2>1 DEF vars, NoStrandedInspection
  <2>2. CASE Worked
    BY <1>2, <2>2, WorkedSound
  <2>3. CASE Quiet
    BY <1>2, <2>3 DEF Quiet
  <2>4. CASE PhaseStep
    <3>1. Plain /\ choice.kind \notin {"inspection", "manual"}
      BY <1>2, <2>4, PhaseStepPlain, QFacts DEF Plain
    <3> QED
      BY <1>2, <3>1 DEF Plain, NoStrandedInspection
  <2> QED
    BY <1>2, <2>1, <2>2, <2>3, <2>4, StepKinds
<1> QED
  BY <1>1, <1>2, Inductive, QueueInductive, PTL DEF Spec

-----------------------------------------------------------------------------
(***************************************************************************)
(* The end of a turn.                                                      *)
(***************************************************************************)

LEMMA FinishClean ==
  ASSUME NEW z \in ZonesType, NEW f, FxOK(f), f.pending = {}, NEW remaining,
         phase # "turn_complete", FinishJudgmentChoices(z, remaining, f)
  PROVE  CleanTable'
<1>1. CASE \E k \in DOMAIN remaining : AskedAt(z, remaining, f, k)
  BY <1>1 DEF AskedAt, CleanTable
<1>2. CASE CompleteJudgment(Placed(z, Range(remaining)), f)
  <2> DEFINE y == Placed(z, Range(remaining))
  <2>1. y \in ZonesType
    BY PlacedType
  <2> HIDE DEF y
  <2>2. zones' = Cleared(y) /\ choice' = NoChoice
    BY <1>2 DEF CompleteJudgment, y
  <2>3. /\ phase' = "turn_complete" => fx' = [f EXCEPT !.bonus = NoBonus]
    BY <1>2 DEF CompleteJudgment
  <2> QED
    BY <2>1, <2>2, <2>3 DEF CleanTable, Cleared, NoBonus, ZonesType, FxOK, FxType
<1> QED
  BY <1>1, <1>2, FinishCases

LEMMA WorkedClean ==
  ASSUME IInv, QInv, CleanTable, Worked
  PROVE  CleanTable'
<1>1. PICK f, ch, z : WorkedOn(f, ch, z)
  BY DEF Worked
<1>2. PICK g \in AutoRun(f, ch, z) :
       \/ /\ phase \in PerformancePhases
          /\ phase' = IF phase = "performance_first" THEN "yell_first" ELSE "yell_second"
       \/ g.pending = {} /\ phase = "live_judgment" /\ Judge(z, g)
       \/ phase' = phase
  BY <1>1 DEF WorkedOn, Settle
<1>3. phase # "turn_complete"
  BY <1>1, NoChoiceType DEF WorkedOn, CleanTable
<1>4. CASE g.pending = {} /\ phase = "live_judgment" /\ Judge(z, g)
  <2>1. z \in ZonesType /\ FxOK(g)
    BY <1>1, AutoRunSound DEF WorkedOn, Sound
  <2>2. \E S : FinishJudgmentChoices(z, InTurnOrder(S), g)
    BY <1>4 DEF Judge
  <2> QED
    BY <1>3, <1>4, <2>1, <2>2, FinishClean
<1> QED
  BY <1>2, <1>3, <1>4 DEF CleanTable

LEMMA BeginJudgmentClean ==
  ASSUME IInv, QInv, NEW T \in SUBSET Invocation, BeginJudgment(T)
  PROVE  CleanTable'
<1> DEFINE z == [zones EXCEPT !.moved = [p \in Player |-> {}]]
           f == [fx EXCEPT !.blocked = FALSE]
<1>1. phase = "live_judgment"
  BY DEF BeginJudgment
<1>2. PICK g \in AutoRun(Queue(f, T), choice, z) :
         \/ phase' = phase
         \/ g.pending = {} /\ Judge(z, g)
  BY DEF BeginJudgment
<1>3. FxOK(g) /\ z \in ZonesType
  <2>1. FxOK(f) /\ z \in ZonesType
    BY IInvFacts DEF FxOK, FxType, ZonesType
  <2> HIDE DEF f
  <2> QED
    BY <2>1, QueueType, AutoRunType
<1>4. CASE phase' = phase
  BY <1>1, <1>4 DEF CleanTable
<1>5. CASE g.pending = {} /\ Judge(z, g)
  <2>1. \E S : FinishJudgmentChoices(z, InTurnOrder(S), g)
    BY <1>5 DEF Judge
  <2> HIDE DEF z
  <2> QED
    BY <1>1, <1>3, <1>5, <2>1, FinishClean
<1> QED
  BY <1>2, <1>4, <1>5

LEMMA ChooseSuccessLiveClean ==
  ASSUME IInv, QInv, NEW c \in Card, ChooseSuccessLive(c)
  PROVE  CleanTable'
<1> DEFINE p == choice.player
           z == [zones EXCEPT !.live[p] = @ \ {c}, !.success[p] = @ \cup {c},
                              !.moved[p] = @ \cup {c}]
<1>1. phase = "live_judgment" /\ FxOK(fx) /\ fx.pending = {}
  BY QFacts DEF ChooseSuccessLive, QueueEmpty, IInv, AskedInJudgment, Sound
<1>2. z \in ZonesType
  BY QFacts DEF ZonesType
<1>3. FinishJudgmentChoices(z, choice.rest, fx)
  BY DEF ChooseSuccessLive
<1> HIDE DEF z
<1> QED
  BY <1>1, <1>2, <1>3, FinishClean

LEMMA PhaseStepClean ==
  ASSUME IInv, QInv, CleanTable, PhaseStep
  PROVE  CleanTable'
<1>1. CASE SetupStep
  BY <1>1, NoChoiceType
  DEF SetupStep, ChooseFirstPlayer, SubmitMulligan, CleanTable
<1>2. CASE AdvancePhase \/ EndMainPhase \/ StartNextTurn
  BY <1>2 DEF AdvancePhase, EndMainPhase, StartNextTurn, Transition, CleanTable
<1>3. CASE LiveStep
  <2>1. ASSUME NEW S \in SUBSET Card, SetLiveCards(S) PROVE CleanTable'
    BY <2>1 DEF SetLiveCards, CleanTable
  <2>2. ASSUME NEW T \in SUBSET Invocation, Perform(T) PROVE CleanTable'
    BY <2>2 DEF Perform, PerformancePhases, CleanTable
  <2>3. ASSUME NEW ok \in BOOLEAN, YellAsks \/ YellDecides(ok) \/ OrderRequirements(ok)
        PROVE  CleanTable'
    BY <2>3, NoChoiceType
    DEF YellAsks, YellDecides, OrderRequirements, AfterYell, YellPhases, CleanTable
  <2> QED
    BY <1>3, <2>1, <2>2, <2>3, BeginJudgmentClean, ChooseSuccessLiveClean DEF LiveStep
<1> QED
  BY <1>1, <1>2, <1>3 DEF PhaseStep

\* A finished turn leaves an empty table, whichever effects resolve and in
\* whichever order, if the senders keep to the offered actions, or put nothing
\* on the table by hand (the engine accepts adjustments between two turns).
THEOREM CleanTableHolds ==
  ASSUME OfferedOnly \/ Adjustments \cap Littering = {}
  PROVE  Spec => []CleanTable
<1>1. Init => CleanTable
  BY DEF Init, CleanTable
<1>2. ASSUME IInv, QInv, CleanTable, [Next]_vars
      PROVE  CleanTable'
  <2>1. CASE UNCHANGED vars
    BY <1>2, <2>1 DEF vars, CleanTable
  <2>2. CASE Worked
    BY <1>2, <2>2, WorkedClean
  <2>3. CASE Quiet
    BY <1>2, <2>3 DEF Quiet, TableKept, CleanTable
  <2>4. CASE PhaseStep
    BY <1>2, <2>4, PhaseStepClean
  <2> QED
    BY <1>2, <2>1, <2>2, <2>3, <2>4, StepKinds
<1> QED
  BY <1>1, <1>2, Inductive, QueueInductive, PTL DEF Spec

-----------------------------------------------------------------------------
(***************************************************************************)
(* The loop of _resolve_automatic_effects ends.  Every effect it executes  *)
(* is out of the queue for the rest of the turn, so a run never executes   *)
(* one twice and cannot be longer than the catalogue; what it executes     *)
(* next is determined by what it has executed, so there is one run.        *)
(***************************************************************************)

\* Induction over the numbers, for a set of them.
LEMMA NatSetInduction ==
  ASSUME NEW T \in SUBSET Nat, 0 \in T, \A n \in T : n + 1 \in T
  PROVE  T = Nat
<1>1. SUFFICES ASSUME Nat \ T # {} PROVE FALSE
  OBVIOUS
<1> DEFINE R == OpToRel(<, Nat)
<1>2. IsWellFoundedOn(R, Nat)
  BY NatLessThanWellFounded
<1>3. PICK x \in Nat \ T : \A y \in Nat \ T : ~(<<y, x>> \in R)
  <2>1. Nat \ T \subseteq Nat
    OBVIOUS
  <2> HIDE DEF R
  <2> QED
    BY <1>1, <1>2, <2>1, WFMin
<1>4. \A y \in Nat \ T : ~ (y < x)
  BY <1>3 DEF OpToRel
<1>5. x # 0 /\ x - 1 \in Nat /\ x - 1 < x /\ (x - 1) + 1 = x
  OBVIOUS
<1>6. x - 1 \in T
  BY <1>4, <1>5
<1> QED
  BY <1>5, <1>6

\* What the loop has executed before its k-th effect, and a run of n effects
\* that may not have come to its end.
Until(s, k) == {s[j] : j \in {m \in DOMAIN s : m < k}}
IsPartRun(f, ch, z, s, n) ==
    /\ s \in [1..n -> Automatic]
    /\ \A i, j \in 1..n : i # j => s[i] # s[j]
    /\ \A k \in 1..n : NextAuto(After(f, Until(s, k), z), ch) = {s[k]}

LEMMA NextOne ==
  ASSUME NEW f, FxOK(f), NEW ch, NextAuto(f, ch) # {}
  PROVE  \E i \in Automatic : NextAuto(f, ch) = {i} /\ i \in f.pending
<1>1. Lock(f, ch) = {} /\ ~(Cardinality(Batch(f, ch)) > 1)
  BY DEF NextAuto
<1>2. NextAuto(f, ch) = Batch(f, ch) \cap Automatic
  BY DEF NextAuto
<1>3. Batch(f, ch) \subseteq f.pending
  BY <1>1 DEF Batch
<1>4. Batch(f, ch) \in SUBSET Invocation
  BY <1>3 DEF FxOK, FxType
<1>5. PICK B \in SUBSET Invocation : B = Batch(f, ch)
  BY <1>4
<1>6. IsFiniteSet(B) /\ Cardinality(B) \in Nat /\ B # {}
  BY <1>2, <1>5, EffectsAssumption, FS_Subset, FS_CardinalityType
<1>7. PICK i \in B : i \in Automatic
  BY <1>2, <1>5
<1>8. B = {i}
  <2>1. SUFFICES ASSUME NEW j \in B, j # i PROVE FALSE
    BY <1>7
  <2>2. PICK C \in SUBSET B : C = B \ {j}
    OBVIOUS
  <2>3. IsFiniteSet(C) /\ Cardinality(C) \in Nat /\ Cardinality(C) # 0
    BY <1>6, <1>7, <2>1, <2>2, FS_Subset, FS_CardinalityType, FS_EmptySet
  <2>4. Cardinality(C) = Cardinality(B) - 1
    BY <1>6, <2>1, <2>2, FS_RemoveElement
  <2> QED
    BY <1>1, <1>5, <1>6, <2>3, <2>4
<1> QED
  BY <1>2, <1>3, <1>5, <1>7, <1>8

\* A run that is not at its end goes on with an effect it has not executed.
LEMMA RunGoesOn ==
  ASSUME NEW f, FxOK(f), NEW ch, NEW z, NEW n \in Nat, NEW s, IsPartRun(f, ch, z, s, n),
         NextAuto(After(f, Range(s), z), ch) # {}
  PROVE  \E t : IsPartRun(f, ch, z, t, n + 1)
<1>1. DOMAIN s = 1..n /\ Range(s) \in SUBSET Invocation
  BY DEF IsPartRun, Range, Automatic
<1>2. FxOK(After(f, Range(s), z))
  BY <1>1, AfterType
<1>3. PICK i \in Automatic : /\ NextAuto(After(f, Range(s), z), ch) = {i}
                             /\ i \in After(f, Range(s), z).pending
  BY <1>2, NextOne
<1>4. i \notin Range(s)
  <2>1. After(f, Range(s), z).pending \cap Range(s) = {}
    BY AfterFields
  <2> QED
    BY <1>3, <2>1
<1> DEFINE t == [k \in 1..(n + 1) |-> IF k = n + 1 THEN i ELSE s[k]]
<1>5. /\ \A k \in 1..n : k \in 1..(n + 1) /\ k # n + 1 /\ k < n + 1
      /\ \A k \in 1..(n + 1) : k = n + 1 \/ k \in 1..n
      /\ n + 1 \in 1..(n + 1)
  OBVIOUS
<1>6. /\ DOMAIN t = 1..(n + 1) /\ t[n + 1] = i
      /\ \A k \in 1..n : t[k] = s[k]
  BY <1>5
<1>7. t \in [1..(n + 1) -> Automatic]
  BY <1>5 DEF IsPartRun
<1> HIDE DEF t
<1>8. \A k \in 1..n : s[k] \in Range(s)
  BY <1>1 DEF Range
<1>9. ASSUME NEW k \in 1..(n + 1), NEW j \in 1..(n + 1), k # j
      PROVE  t[k] # t[j]
  <2>1. CASE k = n + 1
    <3>1. j \in 1..n
      BY <1>5, <1>9, <2>1
    <3> QED
      BY <1>4, <1>6, <1>8, <2>1, <3>1
  <2>2. CASE j = n + 1
    <3>1. k \in 1..n
      BY <1>5, <1>9, <2>2
    <3> QED
      BY <1>4, <1>6, <1>8, <2>2, <3>1
  <2>3. CASE k \in 1..n /\ j \in 1..n
    BY <1>6, <1>9, <2>3 DEF IsPartRun
  <2> QED
    BY <1>5, <2>1, <2>2, <2>3
<1>10. ASSUME NEW k \in 1..n
       PROVE  Until(t, k) = Until(s, k)
  <2>1. {m \in DOMAIN t : m < k} = {m \in DOMAIN s : m < k}
    BY <1>1, <1>5, <1>6
  <2>2. \A m \in {m \in DOMAIN s : m < k} : t[m] = s[m]
    BY <1>1, <1>6
  <2> QED
    BY <2>1, <2>2 DEF Until
<1>11. Until(t, n + 1) = Range(s)
  <2>1. {m \in DOMAIN t : m < n + 1} = DOMAIN s
    BY <1>1, <1>5, <1>6
  <2>2. \A m \in DOMAIN s : t[m] = s[m]
    BY <1>1, <1>6
  <2> QED
    BY <2>1, <2>2 DEF Until, Range
<1>12. ASSUME NEW k \in 1..(n + 1)
       PROVE  NextAuto(After(f, Until(t, k), z), ch) = {t[k]}
  <2>1. CASE k = n + 1
    BY <1>3, <1>6, <1>11, <2>1
  <2>2. CASE k \in 1..n
    <3>1. NextAuto(After(f, Until(s, k), z), ch) = {s[k]}
      BY <2>2 DEF IsPartRun
    <3> QED
      BY <1>6, <1>10, <2>2, <3>1
  <2> QED
    BY <1>5, <2>1, <2>2
<1> QED
  BY <1>7, <1>9, <1>12 DEF IsPartRun

\* A run at its end is one the queue operator knows.
LEMMA RunAtEnd ==
  ASSUME NEW f, NEW ch, NEW z, NEW n \in Nat, NEW s, IsPartRun(f, ch, z, s, n),
         NextAuto(After(f, Range(s), z), ch) = {}
  PROVE  AutoRun(f, ch, z) # {}
<1>1. DOMAIN s = 1..n /\ Range(s) \in SUBSET Automatic
  BY DEF IsPartRun, Range
<1>2. Cardinality(Range(s)) = n
  <2>1. s \in Bijection(1..n, Range(s))
    BY <1>1 DEF IsPartRun, Bijection, Injection, Surjection, Range, IsInjective
  <2>2. IsFiniteSet(1..n) /\ Cardinality(1..n) = n
    BY FS_Interval
  <2> QED
    BY <2>1, <2>2, FS_Bijection DEF ExistsBijection
<1>3. s \in SetToSeqs(Range(s))
  <2>1. s \in [1..n -> Range(s)]
    BY <1>1 DEF IsPartRun, Range
  <2>2. \A i, j \in 1..n : i # j => s[i] # s[j]
    BY DEF IsPartRun
  <2> QED
    BY <1>2, <2>1, <2>2 DEF SetToSeqs
<1>4. s \in AutoOrders
  BY <1>1, <1>3 DEF AutoOrders, SetToAllKPermutations
<1>5. IsAutoRun(f, ch, z, s)
  <2>1. ASSUME NEW k \in DOMAIN s
        PROVE  NextAuto(After(f, {s[j] : j \in {m \in DOMAIN s : m < k}}, z), ch) = {s[k]}
    BY <1>1 DEF IsPartRun, Until
  <2> QED
    BY <2>1 DEF IsAutoRun
<1> QED
  BY <1>4, <1>5 DEF AutoRun

LEMMA LoopEnds ==
  ASSUME NEW f, FxOK(f), NEW ch, NEW z
  PROVE  AutoRun(f, ch, z) # {}
<1> SUFFICES ASSUME AutoRun(f, ch, z) = {} PROVE FALSE
  OBVIOUS
<1> DEFINE N == {n \in Nat : \E s : IsPartRun(f, ch, z, s, n)}
<1>1. 0 \in N
  <2>1. IsPartRun(f, ch, z, [k \in 1..0 |-> k], 0)
    BY DEF IsPartRun
  <2> QED
    BY <2>1
<1>2. ASSUME NEW n \in Nat, n \in N
      PROVE  n + 1 \in N
  <2>1. PICK s : IsPartRun(f, ch, z, s, n)
    BY <1>2
  <2>2. NextAuto(After(f, Range(s), z), ch) # {}
    BY <2>1, RunAtEnd
  <2>3. \E t : IsPartRun(f, ch, z, t, n + 1)
    BY <2>1, <2>2, RunGoesOn
  <2> QED
    BY <2>3
<1>3. N \in SUBSET Nat
  OBVIOUS
<1>4. N = Nat
  <2> HIDE DEF N
  <2>1. \A n \in N : n + 1 \in N
    BY <1>2, <1>3
  <2> QED
    BY <1>1, <1>3, <2>1, NatSetInduction
<1>5. IsFiniteSet(Automatic) /\ Cardinality(Automatic) \in Nat
  BY EffectsAssumption, FS_Subset, FS_CardinalityType DEF Automatic
<1>6. PICK m \in Nat : m = Cardinality(Automatic) + 1
  BY <1>5
<1>7. PICK s : IsPartRun(f, ch, z, s, m)
  BY <1>4
<1>8. s \in [1..m -> Automatic] /\ \A i, j \in 1..m : i # j => s[i] # s[j]
  BY <1>7 DEF IsPartRun
<1>9. IsFiniteSet(1..m) /\ Cardinality(1..m) = m
  BY FS_Interval
<1>10. \E x, y \in 1..m : x # y /\ s[x] = s[y]
  BY <1>5, <1>6, <1>8, <1>9, FS_PigeonHole
<1> QED
  BY <1>8, <1>10

\* Two runs never part.
LEMMA RunsAgree ==
  ASSUME NEW f, NEW ch, NEW z,
         NEW s, NEW n \in Nat, DOMAIN s = 1..n, IsAutoRun(f, ch, z, s),
         NEW o, NEW m \in Nat, DOMAIN o = 1..m, IsAutoRun(f, ch, z, o)
  PROVE  n <= m /\ \A k \in 1..n : s[k] = o[k]
<1> DEFINE N == {i \in Nat : i <= n => i <= m /\ \A k \in 1..i : s[k] = o[k]}
<1>1. 0 \in N
  OBVIOUS
<1>2. ASSUME NEW i \in Nat, i \in N
      PROVE  i + 1 \in N
  <2>1. SUFFICES ASSUME i + 1 <= n
                 PROVE  i + 1 <= m /\ \A k \in 1..(i + 1) : s[k] = o[k]
    OBVIOUS
  <2>2. i <= m /\ \A k \in 1..i : s[k] = o[k]
    BY <1>2, <2>1
  <2>3. i + 1 \in DOMAIN s
    BY <2>1
  <2>4. {k \in DOMAIN s : k < i + 1} = 1..i
    BY <2>1
  <2>5. {k \in DOMAIN o : k < i + 1} = 1..i
    BY <2>2
  <2>6. {s[j] : j \in {k \in DOMAIN s : k < i + 1}} = {o[j] : j \in {k \in DOMAIN o : k < i + 1}}
    BY <2>2, <2>4, <2>5
  <2>7. NextAuto(After(f, {s[j] : j \in {k \in DOMAIN s : k < i + 1}}, z), ch) = {s[i + 1]}
    BY <2>3 DEF IsAutoRun
  <2>8. NextAuto(After(f, {o[j] : j \in {k \in DOMAIN o : k < i + 1}}, z), ch) = {s[i + 1]}
    BY <2>6, <2>7
  <2>9. i # m
    <3>1. SUFFICES ASSUME i = m PROVE FALSE
      OBVIOUS
    <3>2. {o[j] : j \in {k \in DOMAIN o : k < i + 1}} = Range(o)
      BY <2>5, <3>1 DEF Range
    <3>3. NextAuto(After(f, Range(o), z), ch) = {}
      BY DEF IsAutoRun
    <3> QED
      BY <2>8, <3>2, <3>3
  <2>10. i + 1 <= m /\ i + 1 \in DOMAIN o
    BY <2>2, <2>9
  <2>11. NextAuto(After(f, {o[j] : j \in {k \in DOMAIN o : k < i + 1}}, z), ch) = {o[i + 1]}
    BY <2>10 DEF IsAutoRun
  <2>12. s[i + 1] = o[i + 1]
    BY <2>8, <2>11
  <2>13. \A k \in 1..(i + 1) : k \in 1..i \/ k = i + 1
    OBVIOUS
  <2> QED
    BY <2>2, <2>10, <2>12, <2>13
<1>3. N \in SUBSET Nat
  OBVIOUS
<1>4. N = Nat
  <2> HIDE DEF N
  <2>1. \A i \in N : i + 1 \in N
    BY <1>2, <1>3
  <2> QED
    BY <1>1, <1>3, <2>1, NatSetInduction
<1>5. n \in N
  <2> HIDE DEF N
  <2> QED
    BY <1>4
<1> QED
  BY <1>5

\* The automatic resolution of effects always comes to an end, and its outcome
\* is determined: for every catalogue of effects, every queue and every choice
\* there is exactly one queue that _resolve_automatic_effects leaves behind,
\* although what it executes may trigger further effects.
THEOREM AutomaticLoopEnds ==
  ASSUME NEW f, FxOK(f), NEW ch, NEW z
  PROVE  \E g : AutoRun(f, ch, z) = {g}
<1>1. PICK g \in AutoRun(f, ch, z) : TRUE
  BY LoopEnds
<1>2. ASSUME NEW h \in AutoRun(f, ch, z)
      PROVE  h = g
  <2>1. PICK s \in AutoOrders : IsAutoRun(f, ch, z, s) /\ g = After(f, Range(s), z)
    BY <1>1 DEF AutoRun
  <2>2. PICK o \in AutoOrders : IsAutoRun(f, ch, z, o) /\ h = After(f, Range(o), z)
    BY <1>2 DEF AutoRun
  <2>3. \A q \in AutoOrders : \E n \in Nat : DOMAIN q = 1..n
    <3>1. SUFFICES ASSUME NEW q \in AutoOrders PROVE \E n \in Nat : DOMAIN q = 1..n
      OBVIOUS
    <3>2. PICK S \in SUBSET Automatic : q \in SetToSeqs(S)
      BY DEF AutoOrders, SetToAllKPermutations
    <3>3. Cardinality(S) \in Nat
      BY EffectsAssumption, FS_Subset, FS_CardinalityType DEF Automatic
    <3>4. DOMAIN q = 1..Cardinality(S)
      BY <3>2 DEF SetToSeqs
    <3> QED
      BY <3>3, <3>4
  <2>4. PICK n \in Nat : DOMAIN s = 1..n
    BY <2>3
  <2>5. PICK m \in Nat : DOMAIN o = 1..m
    BY <2>3
  <2>6. n <= m /\ \A k \in 1..n : s[k] = o[k]
    BY <2>1, <2>2, <2>4, <2>5, RunsAgree
  <2>7. m <= n
    BY <2>1, <2>2, <2>4, <2>5, RunsAgree
  <2>8. Range(s) = Range(o)
    <3>1. n = m
      BY <2>6, <2>7
    <3> QED
      BY <2>4, <2>5, <2>6, <3>1 DEF Range
  <2> QED
    BY <2>1, <2>2, <2>8
<1> QED
  BY <1>1, <1>2

-----------------------------------------------------------------------------
(***************************************************************************)
(* The match goes on.  Of the requests generate_legal_actions lists one is *)
(* accepted: this needs that the setup waits for a mulligan and for        *)
(* nothing else, and that a winner who is asked for a card is offered      *)
(* cards that are still in the live area.                                  *)
(***************************************************************************)
MulliganPhases == {"setup_mulligan_first", "setup_mulligan_second"}
SetupIdle == phase \in MulliganPhases => fx.pending = {} /\ choice.kind = "mulligan"
OfferStands == choice.kind = "success_live" =>
    choice.cards # {} /\ choice.cards \subseteq zones.live[choice.player]
OInv == SetupIdle /\ OfferStands

\* A winner who is asked has all cards of the area that had several.
LEMMA FinishOffers ==
  ASSUME phase \notin MulliganPhases, NEW z \in ZonesType, NEW f,
         NEW remaining \in Seq(Player), FinishJudgmentChoices(z, remaining, f)
  PROVE  OInv'
<1>1. CASE \E k \in DOMAIN remaining : AskedAt(z, remaining, f, k)
  <2>1. PICK k \in DOMAIN remaining : AskedAt(z, remaining, f, k)
    BY <1>1
  <2>2. PICK p \in Player : p = remaining[k]
    OBVIOUS
  <2>3. p \notin Before(remaining, k)
    <3>1. SUFFICES ASSUME NEW j \in DOMAIN remaining, j < k, remaining[j] = p PROVE FALSE
      BY DEF Before
    <3>2. k <= j
      BY <2>1, <2>2, <3>1 DEF AskedAt
    <3> QED
      BY <3>1, <3>2
  <2>4. zones'.live[p] = z.live[p]
    <3>1. zones' = Placed(z, Before(remaining, k))
      BY <2>1 DEF AskedAt
    <3> QED
      BY <2>3, <3>1 DEF Placed, ZonesType
  <2>5. z.live[p] # {}
    <3>1. Cardinality(z.live[p]) > 1
      BY <2>1, <2>2 DEF AskedAt, Several
    <3>2. PICK C \in SUBSET Card : C = z.live[p]
      BY DEF ZonesType
    <3>3. IsFiniteSet(C)
      BY CardsAssumption, FS_Subset
    <3>4. Cardinality(C) # 0
      BY <3>1, <3>2
    <3> QED
      BY <3>2, <3>3, <3>4, FS_EmptySet
  <2>6. choice'.player = p /\ choice'.cards = z.live[p] /\ phase' = phase
    BY <2>1, <2>2 DEF AskedAt, ChoiceOf
  <2> QED
    BY <2>4, <2>5, <2>6 DEF OInv, SetupIdle, OfferStands
<1>2. CASE CompleteJudgment(Placed(z, Range(remaining)), f)
  <2>1. choice' = NoChoice /\ phase' \in {"turn_complete", "complete"}
    BY <1>2 DEF CompleteJudgment
  <2> QED
    BY <2>1, NoChoiceType DEF OInv, SetupIdle, OfferStands, MulliganPhases
<1> QED
  BY <1>1, <1>2, FinishCases

LEMMA JudgeOffers ==
  ASSUME phase \notin MulliganPhases, first \in Player, NEW z \in ZonesType, NEW f, Judge(z, f)
  PROVE  OInv'
<1>1. PICK S : FinishJudgmentChoices(z, InTurnOrder(S), f)
  BY DEF Judge
<1>2. InTurnOrder(S) \in Seq(Player)
  BY OppType DEF InTurnOrder, second
<1>3. PICK r \in Seq(Player) : r = InTurnOrder(S)
  BY <1>2
<1> QED
  BY <1>1, <1>3, FinishOffers

\* Without a success choice afterwards, nothing is to be shown but the setup.
LEMMA UnaskedOffers ==
  ASSUME phase' \notin MulliganPhases, choice'.kind # "success_live"
  PROVE  OInv'
  BY DEF OInv, SetupIdle, OfferStands

LEMMA SameOffers ==
  ASSUME OInv, phase' \notin MulliganPhases, choice' \in {choice, NoChoice},
         zones'.live = zones.live
  PROVE  OInv'
<1>1. CASE choice' = choice
  BY <1>1 DEF OInv, SetupIdle, OfferStands
<1>2. CASE choice' = NoChoice
  BY <1>2, NoChoiceType, UnaskedOffers
<1> QED
  BY <1>1, <1>2

LEMMA WorkedOffers ==
  ASSUME "live_move" \notin Adjustments, IInv, QInv, OInv, Worked
  PROVE  OInv'
<1>1. PICK f, ch, z : WorkedOn(f, ch, z)
  BY DEF Worked
<1>2. Settle(f, ch, z) /\ z \in ZonesType /\ z.live = zones.live /\ ch \in {choice, NoChoice}
  BY <1>1 DEF WorkedOn
<1>3. phase \notin MulliganPhases
  BY <1>1 DEF WorkedOn, OInv, SetupIdle, MulliganPhases
<1>4. CASE phase = "live_judgment" /\ \E g : Judge(z, g)
  <2>1. first \in Player
    BY <1>4 DEF IInv, Seated
  <2> QED
    BY <1>2, <1>3, <1>4, <2>1, JudgeOffers
<1>5. CASE choice' = ch /\ zones' = z /\ phase' \in YellPhases \cup {phase}
  <2>1. phase' \notin MulliganPhases
    BY <1>3, <1>5 DEF YellPhases, MulliganPhases
  <2> QED
    BY <1>2, <1>5, <2>1, SameOffers
<1> QED
  BY <1>2, <1>4, <1>5 DEF Settle, YellPhases

LEMMA QuietOffers ==
  ASSUME "live_move" \notin Adjustments, QInv, OInv, Quiet
  PROVE  OInv'
<1>1. CASE choice' = choice
  <2>1. zones'.live = zones.live /\ phase' = phase
    BY DEF Quiet
  <2>2. phase \in MulliganPhases => fx'.pending = {}
    BY DEF Quiet, OInv, SetupIdle, MulliganPhases, SetupPhases
  <2> QED
    BY <1>1, <2>1, <2>2 DEF OInv, SetupIdle, OfferStands
<1>2. CASE choice' # choice
  <2>1. choice.kind # "mulligan" /\ choice'.kind # "success_live" /\ phase' = phase
    BY <1>2, NoChoiceType DEF Quiet
  <2> QED
    BY <2>1, UnaskedOffers DEF OInv, SetupIdle
<1> QED
  BY <1>1, <1>2

LEMMA PhaseStepOffers ==
  ASSUME IInv, QInv, OInv, PhaseStep
  PROVE  OInv'
<1>1. CASE SetupStep
  <2>1. ASSUME NEW p \in Player, ChooseFirstPlayer(p) PROVE OInv'
    BY <2>1 DEF ChooseFirstPlayer, ChoiceOf, QueueEmpty, OInv, SetupIdle, OfferStands
  <2>2. ASSUME SubmitMulligan PROVE OInv'
    BY <2>2, NoChoiceType
    DEF SubmitMulligan, ChoiceOf, QueueEmpty, OInv, SetupIdle, OfferStands, MulliganPhases
  <2> QED
    BY <1>1, <2>1, <2>2 DEF SetupStep
<1>2. CASE AdvancePhase \/ EndMainPhase \/ StartNextTurn
  <2>1. /\ phase' \in TurnPhases \cup {"live_set_first"}
        /\ choice' \in {choice, NoChoice} /\ zones'.live = zones.live
    BY <1>2, IInvFacts
    DEF AdvancePhase, EndMainPhase, StartNextTurn, Transition, TurnPhases, ZonesType
  <2>2. phase' \notin MulliganPhases
    BY <2>1 DEF TurnPhases, MulliganPhases
  <2> QED
    BY <2>1, <2>2, SameOffers
<1>3. CASE LiveStep
  <2>1. ASSUME NEW S \in SUBSET Card, SetLiveCards(S) PROVE OInv'
    <3>1. choice' = choice /\ phase' \in {"live_set_second", "performance_first"}
          /\ choice.kind # "success_live"
      BY <2>1 DEF SetLiveCards, IInv, AskedInJudgment
    <3> QED
      BY <3>1, UnaskedOffers DEF MulliganPhases
  <2>2. ASSUME NEW T \in SUBSET Invocation, Perform(T) PROVE OInv'
    <3>1. /\ choice' = choice /\ choice.kind # "success_live"
          /\ phase' \in PerformancePhases \cup YellPhases
      BY <2>2 DEF Perform, MayAdvance, PerformancePhases, YellPhases
    <3> QED
      BY <3>1, UnaskedOffers DEF PerformancePhases, YellPhases, MulliganPhases
  <2>3. ASSUME NEW ok \in BOOLEAN, YellAsks \/ YellDecides(ok) PROVE OInv'
    <3>1. /\ phase' \in YellPhases \cup {"performance_second", "live_judgment"}
          /\ choice'.kind # "success_live"
      BY <2>3 DEF YellAsks, YellDecides, MayAdvance, AfterYell, ChoiceOf
    <3> QED
      BY <3>1, UnaskedOffers DEF YellPhases, MulliganPhases
  <2>4. ASSUME NEW ok \in BOOLEAN, OrderRequirements(ok) PROVE OInv'
    <3>1. phase' \in {"performance_second", "live_judgment"} /\ choice' = NoChoice
      BY <2>4 DEF OrderRequirements, AfterYell
    <3> QED
      BY <3>1, NoChoiceType, UnaskedOffers DEF MulliganPhases
  <2>5. ASSUME NEW T \in SUBSET Invocation, BeginJudgment(T) PROVE OInv'
    <3>1. phase = "live_judgment" /\ choice.kind # "success_live" /\ first \in Player
      BY <2>5 DEF BeginJudgment, MayAdvance, IInv, Seated
    <3>2. phase \notin MulliganPhases
      BY <3>1 DEF MulliganPhases
    <3> DEFINE z == [zones EXCEPT !.moved = [p \in Player |-> {}]]
    <3>3. z \in ZonesType
      BY IInvFacts DEF ZonesType
    <3> HIDE DEF z
    <3>4. (UNCHANGED <<phase, choice>>) \/ \E g : Judge(z, g)
      BY <2>5 DEF BeginJudgment, z
    <3>5. CASE UNCHANGED <<phase, choice>>
      BY <3>1, <3>2, <3>5, UnaskedOffers
    <3> QED
      BY <3>1, <3>2, <3>3, <3>4, <3>5, JudgeOffers
  <2>6. ASSUME NEW c \in Card, ChooseSuccessLive(c) PROVE OInv'
    <3>1. phase = "live_judgment" /\ choice.player \in Player \cup {NoPlayer}
          /\ choice.rest \in Seq(Player)
      BY <2>6, IInvFacts DEF ChooseSuccessLive, IInv, AskedInJudgment, ChoiceType
    <3> DEFINE p == choice.player
               z == [zones EXCEPT !.live[p] = @ \ {c}, !.success[p] = @ \cup {c},
                                  !.moved[p] = @ \cup {c}]
    <3>2. z \in ZonesType
      BY <3>1, IInvFacts DEF ZonesType
    <3>3. FinishJudgmentChoices(z, choice.rest, fx)
      BY <2>6 DEF ChooseSuccessLive
    <3>4. phase \notin MulliganPhases
      BY <3>1 DEF MulliganPhases
    <3> HIDE DEF z
    <3> QED
      BY <3>1, <3>2, <3>3, <3>4, FinishOffers
  <2> QED
    BY <1>3, <2>1, <2>2, <2>3, <2>4, <2>5, <2>6 DEF LiveStep
<1> QED
  BY <1>1, <1>2, <1>3 DEF PhaseStep

LEMMA OffersInductive ==
  ASSUME "live_move" \notin Adjustments
  PROVE  Spec => []OInv
<1>1. Init => OInv
  BY NoChoiceType DEF Init, OInv, SetupIdle, OfferStands, MulliganPhases
<1>2. ASSUME IInv, QInv, OInv, [Next]_vars PROVE OInv'
  <2>1. CASE UNCHANGED vars
    BY <1>2, <2>1 DEF vars, OInv, SetupIdle, OfferStands
  <2> QED
    BY <1>2, <2>1, StepKinds, WorkedOffers, QuietOffers, PhaseStepOffers
<1> QED
  BY <1>1, <1>2, Inductive, QueueInductive, PTL DEF Spec

\* While an effect waits there is a batch, of effects that wait.
LEMMA BatchNotEmpty ==
  ASSUME IInv, fx.pending # {}
  PROVE  \E i \in Batch(fx, choice) : i \in Invocation
<1>1. FxOK(fx)
  BY IInvFacts
<1> QED
  BY <1>1 DEF Batch, Lock, FxOK, FxType

LEMMA AnswerAccepted ==
  ASSUME OfferedOnly, IInv, QInv, OInv, ResolutionLock, NoStrandedInspection
  PROVE  NoDeadEnd
<1>1. SUFFICES ASSUME phase # "complete", ~(phase = "turn_complete" /\ turn = MaxTurn)
               PROVE  NoDeadEnd
  BY DEF NoDeadEnd
<1>2. FxOK(fx) /\ choice \in ChoiceType /\ phase \in Phases /\ turn \in 1..MaxTurn
  BY IInvFacts DEF IInv, TypeOK
<1>3. CASE choice.kind = "manual"
  <2>1. "resolve_manual_inspection" \in Offered
    BY <1>1, <1>3 DEF Offered
  <2>2. choice.player \in zones.inspecting
    BY <1>3 DEF NoStrandedInspection
  <2>3. choice.inv = NoInvocation \/ choice.inv \in Batch(fx, choice)
    BY DEF ResolutionLock, Batch, Lock
  <2>4. choice.inv \in Invocation => FxOK(After(fx, {choice.inv}, zones))
    BY <1>2, AfterType
  <2>5. FxOK(IF choice.inv = NoInvocation THEN fx ELSE After(fx, {choice.inv}, zones))
    BY <1>2, <2>4 DEF ChoiceType
  <2>6. AutoRun(IF choice.inv = NoInvocation THEN fx ELSE After(fx, {choice.inv}, zones),
                NoChoice, zones) # {}
    BY <2>5, LoopEnds
  <2> QED
    BY <1>3, <2>1, <2>2, <2>3, <2>6 DEF NoDeadEnd
<1>4. CASE choice.kind \in {"inspection", "multi"}
  <2>1. "resolve_effect_choice" \in Offered
    BY <1>1, <1>4 DEF Offered, OfferedOutsideInspection
  <2>2. choice.inv \in fx.pending
    BY <1>2, <1>4 DEF QInv, ChoiceSound, FxOK
  <2>3. FxOK(After(fx, {choice.inv}, zones))
    <3>1. FxOK(fx) /\ {choice.inv} \in SUBSET Invocation
      BY <1>2, <2>2 DEF FxOK, FxType
    <3> QED
      BY <3>1, AfterType
  <2>4. AutoRun(After(fx, {choice.inv}, zones), NoChoice, zones) # {}
    BY <2>3, LoopEnds
  <2> QED
    BY <1>4, <2>1, <2>2, <2>4 DEF NoDeadEnd
<1>5. CASE choice.kind \notin {"manual", "inspection", "multi"} /\ fx.pending # {}
  <2>1. "skip_effect" \in Offered
    BY <1>1, <1>5 DEF Offered, OfferedOutsideInspection
  <2>2. PICK i \in Batch(fx, choice) : i \in Invocation
    BY <1>5, BatchNotEmpty
  <2>3. FxOK(Drop(fx, i))
    BY <1>2, <2>2, DropType
  <2>4. AutoRun(Drop(fx, i), IF ClosedBySkip(i) THEN NoChoice ELSE choice, zones) # {}
    BY <2>3, LoopEnds
  <2> QED
    BY <2>1, <2>2, <2>4 DEF NoDeadEnd
<1>6. CASE choice.kind \notin {"manual", "inspection", "multi"} /\ fx.pending = {}
           /\ phase = "turn_complete"
  <2>1. "start_next_turn" \in Offered
    BY <1>1, <1>6 DEF Offered, OfferedOutsideInspection
  <2>2. turn < MaxTurn
    BY <1>1, <1>2, <1>6, BoundsAssumption
  <2> QED
    BY <1>6, <2>1, <2>2 DEF NoDeadEnd, QueueEmpty
<1>7. CASE choice.kind \notin {"manual", "inspection", "multi"} /\ fx.pending = {}
           /\ phase # "turn_complete"
  <2>1. OfferedInPhase \subseteq Offered /\ QueueEmpty
    BY <1>1, <1>7 DEF Offered, OfferedOutsideInspection, QueueEmpty
  <2>2. CASE phase = "setup_choose_first"
    <3>1. choice.kind \notin {"mulligan", "live_requirements", "success_live"}
      BY <2>2 DEF IInv, IdleBeforeStart
    <3>2. "choose_first_player" \in OfferedInPhase
      BY <2>2, <3>1 DEF OfferedInPhase
    <3> QED
      BY <2>1, <2>2, <3>2 DEF NoDeadEnd
  <2>3. CASE phase # "setup_choose_first" /\ choice.kind = "mulligan"
    <3>1. "submit_mulligan" \in OfferedInPhase
      BY <2>3, NoChoiceType DEF OfferedInPhase
    <3> QED
      BY <2>1, <2>3, <3>1 DEF NoDeadEnd
  <2>4. CASE phase # "setup_choose_first" /\ choice.kind \in {"live_requirements", "success_live"}
    <3>1. "resolve_live_requirements" \in OfferedInPhase
      BY <2>4, NoChoiceType DEF OfferedInPhase
    <3>2. choice.kind = "success_live" => choice.cards \cap zones.live[choice.player] # {}
      BY DEF OInv, OfferStands
    <3> QED
      BY <2>1, <2>4, <3>1, <3>2 DEF NoDeadEnd
  <2>5. CASE phase \in {"first_main", "second_main"} /\ choice = NoChoice
    <3>1. "end_main_phase" \in OfferedInPhase
      BY <2>5, NoChoiceType DEF OfferedInPhase
    <3> QED
      BY <2>1, <2>5, <3>1 DEF NoDeadEnd
  <2>6. CASE phase \in {"live_set_first", "live_set_second"} /\ choice = NoChoice
    <3>1. "set_live_cards" \in OfferedInPhase
      BY <2>6, NoChoiceType DEF OfferedInPhase
    <3> QED
      BY <2>1, <2>6, <3>1 DEF NoDeadEnd
  <2>7. CASE /\ choice = NoChoice
             /\ phase \notin {"setup_choose_first", "first_main", "second_main",
                              "live_set_first", "live_set_second"}
    <3>1. "advance_phase" \in OfferedInPhase
      BY <2>7, NoChoiceType DEF OfferedInPhase
    <3>2. MayAdvance
      BY <2>1, <2>7, <3>1, NoChoiceType DEF MayAdvance, Sent
    <3>3. phase \notin MulliganPhases
      BY <2>7, NoChoiceType DEF OInv, SetupIdle
    <3>4. \/ phase \in DOMAIN Transition \cup YellPhases
          \/ phase \in PerformancePhases \/ phase = "live_judgment"
      BY <1>1, <1>2, <1>7, <2>7, <3>3
      DEF Phases, SetupPhases, TurnPhases, MulliganPhases, Transition
    <3>5. FxOK([fx EXCEPT !.blocked = FALSE])
      BY <1>2 DEF FxOK, FxType
    <3>6. /\ AutoRun(fx, choice, zones) # {}
          /\ AutoRun([fx EXCEPT !.blocked = FALSE], choice, zones) # {}
      BY <1>2, <3>5, LoopEnds
    <3> QED
      BY <2>1, <3>1, <3>2, <3>4, <3>6 DEF NoDeadEnd
  <2>8. choice.kind = "none" => choice = NoChoice
    BY DEF QInv, ChoiceSound
  <2>9. choice.kind \in {"none", "mulligan", "live_requirements", "success_live"}
    BY <1>2, <1>7 DEF ChoiceType, ChoiceKinds
  <2> QED
    BY <2>2, <2>3, <2>4, <2>5, <2>6, <2>7, <2>8, <2>9
<1> QED
  BY <1>3, <1>4, <1>5, <1>6, <1>7

\* A match never gets stuck: until it is over one of the requests that
\* generate_legal_actions lists is accepted, whatever effects wait, whichever
\* choices were opened, answered or skipped, and whatever was adjusted by hand
\* outside the live areas.  Live cards moved by hand can leave a winner who was
\* asked already without any card to give.
THEOREM NeverStuck ==
  ASSUME OfferedOnly, "live_move" \notin Adjustments
  PROVE  Spec => []NoDeadEnd
<1>1. Spec => []OInv
  BY OffersInductive
<1>2. Spec => []ResolutionLock
  BY ResolutionLockHolds
<1>3. Spec => []NoStrandedInspection
  BY InspectionNotStranded
<1>4. IInv /\ QInv /\ OInv /\ ResolutionLock /\ NoStrandedInspection => NoDeadEnd
  BY AnswerAccepted
<1> QED
  BY <1>1, <1>2, <1>3, <1>4, Inductive, QueueInductive, PTL
=============================================================================
