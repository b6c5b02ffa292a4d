------------------------- MODULE MatchJudgment_proofs -------------------------
(***************************************************************************)
(* Theorems about the live judgment of MatchFlow: who places a card in a   *)
(* success area, how many, that nobody is forgotten between two requests,  *)
(* that no match is drawn, and that bluffs are never scored.  They hold    *)
(* for every set of cards, scoring, catalogue of effects and number of     *)
(* turns.  Each theorem names in its hypothesis the kinds of adjustments by  *)
(* hand it has to do without: those can put a card where the rules put none. *)
(***************************************************************************)
EXTENDS MatchFlow_proofs

-----------------------------------------------------------------------------
(***************************************************************************)
(* Cards and players.                                                      *)
(***************************************************************************)

LEMMA CardSets ==
  ASSUME NEW S \in SUBSET Card
  PROVE  IsFiniteSet(S) /\ Cardinality(S) \in Nat
  BY CardsAssumption, FS_Subset, FS_CardinalityType

\* An area with a card but not several has one, and placing it adds one at most.
LEMMA SingleCard ==
  ASSUME NEW S \in SUBSET Card, NEW T \in SUBSET Card, ~(Cardinality(T) > 1)
  PROVE  /\ T # {} => Cardinality(T) = 1
         /\ Cardinality(S \cup T) <= Cardinality(S) + 1
<1>1. /\ IsFiniteSet(S) /\ IsFiniteSet(T) /\ Cardinality(S) \in Nat
      /\ Cardinality(T) \in Nat /\ Cardinality(S \cap T) \in Nat
  BY CardSets
<1>2. T # {} => Cardinality(T) # 0
  BY <1>1, FS_EmptySet
<1>3. Cardinality(S \cup T) = Cardinality(S) + Cardinality(T) - Cardinality(S \cap T)
  BY <1>1, FS_Union
<1> QED
  BY <1>1, <1>2, <1>3

LEMMA ChosenCard ==
  ASSUME NEW S \in SUBSET Card, NEW c \in Card
  PROVE  Cardinality(S \cup {c}) <= Cardinality(S) + 1 /\ Cardinality({c}) = 1
<1>1. {c} \in SUBSET Card /\ Cardinality({c}) = 1
  BY FS_Singleton
<1> QED
  BY <1>1, SingleCard

LEMMA ShortSequences ==
  /\ << >> \in Seq(Player) /\ Range(<< >>) = {} /\ IsInjective(<< >>)
  /\ \A a, b \in Player : a # b =>
        <<a, b>> \in Seq(Player) /\ Range(<<a, b>>) = {a, b} /\ IsInjective(<<a, b>>)
<1>1. << >> \in Seq(Player) /\ Range(<< >>) = {} /\ IsInjective(<< >>)
  <2>1. DOMAIN << >> = {}
    OBVIOUS
  <2> QED
    BY <2>1 DEF Range, IsInjective
<1>2. ASSUME NEW a \in Player, NEW b \in Player, a # b
      PROVE  <<a, b>> \in Seq(Player) /\ Range(<<a, b>>) = {a, b} /\ IsInjective(<<a, b>>)
  <2> DEFINE s == <<a, b>>
  <2>1. s \in Seq(Player) /\ DOMAIN s = {1, 2} /\ s[1] = a /\ s[2] = b
    OBVIOUS
  <2> HIDE DEF s
  <2>2. Range(s) = {a, b} /\ IsInjective(s)
    BY <1>2, <2>1 DEF Range, IsInjective
  <2> QED
    BY <2>1, <2>2 DEF s
<1> QED
  BY <1>1, <1>2

\* The winners are asked in turn order, each once.
LEMMA TurnOrder ==
  ASSUME first \in Player, NEW S \in SUBSET Player
  PROVE  /\ InTurnOrder(S) \in Seq(Player) /\ Range(InTurnOrder(S)) = S
         /\ IsInjective(InTurnOrder(S))
<1>1. second \in Player /\ second # first /\ Player = {first, second}
  BY PlayersAssumption DEF second, Opp, Player
<1>2. CASE S = Player
  <2>1. InTurnOrder(S) = <<first, second>>
    BY <1>2 DEF InTurnOrder
  <2> QED
    BY <1>1, <1>2, <2>1, ShortSequences
<1>3. CASE S # Player /\ first \in S
  <2>1. InTurnOrder(S) = <<first>> /\ S = {first}
    BY <1>1, <1>3 DEF InTurnOrder
  <2> QED
    BY <1>1, <2>1 DEF Range, IsInjective
<1>4. CASE first \notin S /\ second \in S
  <2>1. InTurnOrder(S) = <<second>> /\ S = {second}
    BY <1>1, <1>4 DEF InTurnOrder
  <2> QED
    BY <1>1, <2>1 DEF Range, IsInjective
<1>5. CASE S = {}
  <2>1. InTurnOrder(S) = << >>
    BY <1>1, <1>5 DEF InTurnOrder
  <2> QED
    BY <1>5, <2>1, ShortSequences
<1> QED
  BY <1>1, <1>2, <1>3, <1>4, <1>5

\* Those after the one who is asked are the others, each once, and none of
\* them has been served.
LEMMA ChooseNextFacts ==
  ASSUME NEW remaining \in Seq(Player), IsInjective(remaining), NEW k \in DOMAIN remaining
  PROVE  LET rest == ChooseNext(remaining, k) IN
         /\ rest \in Seq(Player) /\ IsInjective(rest) /\ remaining[k] \notin Range(rest)
         /\ Range(remaining) = Before(remaining, k) \cup {remaining[k]} \cup Range(rest)
         /\ ({remaining[k]} \cup Range(rest)) \cap Before(remaining, k) = {}
<1> DEFINE rest == ChooseNext(remaining, k)
<1>1. k \in 1..Len(remaining) /\ DOMAIN remaining = 1..Len(remaining)
  OBVIOUS
<1>2. /\ rest \in Seq(Player) /\ Len(rest) = Len(remaining) - k
      /\ \A j \in 1..(Len(remaining) - k) : rest[j] = remaining[k + j]
  BY <1>1 DEF ChooseNext
<1>3. DOMAIN rest = 1..(Len(remaining) - k)
  BY <1>2
<1> HIDE DEF rest
<1>4. \A i, j \in 1..Len(remaining) : remaining[i] = remaining[j] => i = j
  BY <1>1 DEF IsInjective
<1>5. IsInjective(rest)
  <2>1. \A j \in DOMAIN rest :
           j \in Int /\ k + j \in 1..Len(remaining) /\ rest[j] = remaining[k + j]
    BY <1>1, <1>2, <1>3
  <2> QED
    BY <1>1, <1>4, <2>1 DEF IsInjective
<1>6. Range(rest) = {remaining[m] : m \in {n \in DOMAIN remaining : n > k}}
  <2>1. ASSUME NEW m \in DOMAIN remaining, m > k
        PROVE  m - k \in DOMAIN rest /\ rest[m - k] = remaining[m]
    <3>1. m - k \in 1..(Len(remaining) - k) /\ k + (m - k) = m
      BY <1>1, <2>1
    <3> QED
      BY <1>2, <1>3, <3>1
  <2>2. \A j \in DOMAIN rest :
           k + j \in DOMAIN remaining /\ k + j > k /\ rest[j] = remaining[k + j]
    BY <1>1, <1>2, <1>3
  <2> QED
    BY <2>1, <2>2 DEF Range
<1>7. Range(remaining) = Before(remaining, k) \cup {remaining[k]} \cup Range(rest)
  <2>1. \A m \in DOMAIN remaining : m < k \/ m = k \/ m > k
    BY <1>1
  <2> QED
    BY <1>6, <2>1 DEF Range, Before
<1>8. remaining[k] \notin Range(rest)
      /\ ({remaining[k]} \cup Range(rest)) \cap Before(remaining, k) = {}
  BY <1>1, <1>4, <1>6 DEF Before
<1> QED
  BY <1>2, <1>5, <1>7, <1>8 DEF rest

-----------------------------------------------------------------------------
(***************************************************************************)
(* The inductive invariant.  That only winners place a card does not       *)
(* follow from itself: between two requests of one judgment the players    *)
(* who are still to be asked must be winners who have placed nothing, each *)
(* asked once, and below match point if both won; before a judgment nobody *)
(* may have placed a card; and a turn that did not end the match leaves    *)
(* two success lives at most.                                              *)
(***************************************************************************)

\* The areas z after some of the winners W have placed a card.
Lawful(z, W) ==
    \A p \in Player :
       /\ z.moved[p] # {} =>
             /\ p \in W
             /\ Cardinality(z.moved[p]) = 1 /\ z.moved[p] \subseteq z.success[p]
             /\ W = Player => Cardinality(z.success[p]) <= 2
       /\ z.moved[p] = {} => Cardinality(z.success[p]) <= 2

\* p is a winner who may still place a card.
MayPlace(z, W, p) ==
    /\ p \in W /\ z.moved[p] = {}
    /\ W = Player => Cardinality(z.success[p]) <= 1

\* The winners still to be asked.
Waiting == {choice.player} \cup Range(choice.rest)

Unplaced == \A p \in Player : zones.moved[p] = {}

UnplacedBefore ==
    \/ phase \in {"turn_complete", "complete"}
    \/ phase = "live_judgment" /\ choice.kind = "success_live"
    \/ Unplaced
AskedOnlyOnce == choice.kind = "success_live" =>
    /\ fx.pending = {}
    /\ choice.player \in Player /\ choice.player \notin Range(choice.rest)
    /\ IsInjective(choice.rest)
    /\ \A p \in Waiting : MayPlace(zones, winners, p)
BelowThree == phase = "turn_complete" =>
    \A p \in Player : Cardinality(zones.success[p]) <= 2
ChoicePhase ==
    /\ choice.kind = "mulligan" => phase \in {"setup_mulligan_first", "setup_mulligan_second"}
    /\ choice.kind = "live_requirements" => phase \in YellPhases

JInv ==
    /\ UnplacedBefore /\ AskedOnlyOnce /\ BelowThree /\ ChoicePhase
    /\ Lawful(zones, winners)

\* A judgment starts lawful.
LEMMA UnplacedLawful ==
  ASSUME NEW z, NEW V, Lawful(z, V), \A p \in Player : z.moved[p] = {}
  PROVE  \A W : Lawful(z, W)
  BY DEF Lawful

LEMMA PlacedAreas ==
  ASSUME NEW z \in ZonesType, NEW S, NEW p \in Player
  PROVE  /\ p \notin S => /\ Placed(z, S).live[p] = z.live[p]
                          /\ Placed(z, S).success[p] = z.success[p]
                          /\ Placed(z, S).moved[p] = z.moved[p]
         /\ p \in S => /\ Placed(z, S).live[p] = {}
                       /\ Placed(z, S).success[p] = z.success[p] \cup z.live[p]
                       /\ Placed(z, S).moved[p] = z.moved[p] \cup z.live[p]
  BY DEF Placed, ZonesType

\* Winners who may place a card place their only one.
LEMMA PlacedLawful ==
  ASSUME NEW z \in ZonesType, NEW W, Lawful(z, W), NEW S,
         \A p \in S : MayPlace(z, W, p) /\ ~Several(z, p)
  PROVE  Lawful(Placed(z, S), W)
<1> SUFFICES ASSUME NEW p \in Player
             PROVE  LET y == Placed(z, S) IN
                    /\ y.moved[p] # {} =>
                          /\ p \in W
                          /\ Cardinality(y.moved[p]) = 1 /\ y.moved[p] \subseteq y.success[p]
                          /\ W = Player => Cardinality(y.success[p]) <= 2
                    /\ y.moved[p] = {} => Cardinality(y.success[p]) <= 2
  BY DEF Lawful
<1> DEFINE y == Placed(z, S)
<1>1. CASE p \notin S
  BY <1>1, PlacedAreas DEF Lawful
<1>2. CASE p \in S
  <2>1. y.moved[p] = z.live[p] /\ y.success[p] = z.success[p] \cup z.live[p]
    <3>1. y.moved[p] = z.moved[p] \cup z.live[p] /\ y.success[p] = z.success[p] \cup z.live[p]
      BY <1>2, PlacedAreas
    <3>2. z.moved[p] = {}
      BY <1>2 DEF MayPlace
    <3> QED
      BY <3>1, <3>2
  <2>2. /\ z.live[p] \in SUBSET Card /\ z.success[p] \in SUBSET Card
        /\ ~(Cardinality(z.live[p]) > 1) /\ Cardinality(z.success[p]) \in Nat
    BY <1>2, CardSets DEF ZonesType, Several
  <2>3. /\ z.live[p] # {} => Cardinality(z.live[p]) = 1
        /\ Cardinality(z.success[p] \cup z.live[p]) <= Cardinality(z.success[p]) + 1
    BY <2>2, SingleCard
  <2>4. Cardinality(z.success[p] \cup z.live[p]) \in Nat
    BY <2>2, CardSets
  <2>5. p \in W /\ (W = Player => Cardinality(z.success[p]) <= 1)
        /\ Cardinality(z.success[p]) <= 2
    BY <1>2 DEF MayPlace, Lawful
  <2>6. z.live[p] = {} => y.success[p] = z.success[p]
    BY <2>1
  <2> HIDE DEF y
  <2>7. y.moved[p] # {} =>
           /\ Cardinality(y.moved[p]) = 1 /\ y.moved[p] \subseteq y.success[p]
           /\ W = Player => Cardinality(y.success[p]) <= 2
    BY <2>1, <2>2, <2>3, <2>4, <2>5
  <2>8. y.moved[p] = {} => Cardinality(y.success[p]) <= 2
    BY <2>1, <2>5, <2>6
  <2> QED
    BY <2>5, <2>7, <2>8 DEF y
<1> QED
  BY <1>1, <1>2

-----------------------------------------------------------------------------
(***************************************************************************)
(* The judgment itself.                                                    *)
(***************************************************************************)

\* When the last winner has placed a card, or nobody may.
LEMMA CompleteLawful ==
  ASSUME NEW y \in ZonesType, NEW f, winners' \subseteq Player, Lawful(y, winners'),
         CompleteJudgment(y, f)
  PROVE  JInv'
<1> DEFINE reached == {p \in Player : Cardinality(y.success[p]) >= 3}
<1>1. /\ zones'.success = y.success /\ zones'.moved = y.moved
      /\ choice'.kind = "none" /\ phase' \in {"turn_complete", "complete"}
  BY NoChoiceType DEF CompleteJudgment, Cleared, ZonesType
<1>2. Lawful(zones', winners')
  BY <1>1 DEF Lawful
<1>3. \A p \in Player : Cardinality(y.success[p]) \in Nat
  BY CardSets DEF ZonesType
<1>4. BelowThree'
  <2>1. phase' = "turn_complete" => reached = {}
    BY DEF CompleteJudgment
  <2> QED
    BY <1>1, <1>3, <2>1 DEF BelowThree
<1>5. UnplacedBefore' /\ AskedOnlyOnce' /\ ChoicePhase'
  BY <1>1 DEF UnplacedBefore, AskedOnlyOnce, ChoicePhase
<1> QED
  BY <1>2, <1>4, <1>5 DEF JInv

\* _finish_judgment_choices, called with winners who may all place a card.
LEMMA FinishLawful ==
  ASSUME phase = "live_judgment", winners' \subseteq Player,
         NEW z \in ZonesType, Lawful(z, winners'), NEW f, f.pending = {},
         NEW remaining \in Seq(Player), IsInjective(remaining),
         \A p \in Range(remaining) : MayPlace(z, winners', p),
         FinishJudgmentChoices(z, remaining, f)
  PROVE  JInv'
<1>1. CASE \E k \in DOMAIN remaining : AskedAt(z, remaining, f, k)
  <2>1. PICK k \in DOMAIN remaining : AskedAt(z, remaining, f, k)
    BY <1>1
  <2> DEFINE rest == ChooseNext(remaining, k)
             S == Before(remaining, k)
  <2>2. /\ IsInjective(rest) /\ remaining[k] \notin Range(rest) /\ remaining[k] \in Player
        /\ Range(remaining) = S \cup {remaining[k]} \cup Range(rest)
        /\ ({remaining[k]} \cup Range(rest)) \cap S = {}
    BY ChooseNextFacts
  <2>3. /\ choice'.kind = "success_live" /\ choice'.player = remaining[k]
        /\ choice'.rest = rest
        /\ zones' = Placed(z, S) /\ fx' = f /\ phase' = phase /\ result' = result
    BY <2>1 DEF AskedAt, ChoiceOf
  <2>4. \A j \in DOMAIN remaining : j < k => ~Several(z, remaining[j])
    BY <2>1 DEF AskedAt
  <2> HIDE DEF rest
  <2>5. \A p \in S : MayPlace(z, winners', p) /\ ~Several(z, p)
    BY <2>2, <2>4 DEF Before
  <2>6. Range(remaining) \subseteq Player
    BY DEF Range
  <2> HIDE DEF S
  <2>7. Lawful(zones', winners')
    BY <2>3, <2>5, PlacedLawful
  <2>8. \A p \in {remaining[k]} \cup Range(rest) : MayPlace(zones', winners', p)
    BY <2>2, <2>3, <2>6, PlacedAreas DEF MayPlace
  <2>9. AskedOnlyOnce'
    BY <2>2, <2>3, <2>8 DEF AskedOnlyOnce, Waiting
  <2> QED
    BY <2>3, <2>7, <2>9 DEF JInv, UnplacedBefore, BelowThree, ChoicePhase
<1>2. CASE /\ \A k \in DOMAIN remaining : ~Several(z, remaining[k])
           /\ CompleteJudgment(Placed(z, Range(remaining)), f)
  <2>1. \A p \in Range(remaining) : MayPlace(z, winners', p) /\ ~Several(z, p)
    BY <1>2 DEF Range
  <2>2. Lawful(Placed(z, Range(remaining)), winners')
    BY <2>1, PlacedLawful
  <2> QED
    BY <1>2, <2>2, PlacedType, CompleteLawful
<1> QED
  BY <1>1, <1>2, FinishCases

\* Who is asked at the start of a judgment.
LEMMA EligibleMayPlace ==
  ASSUME NEW z \in ZonesType, \A p \in Player : z.moved[p] = {}, NEW f,
         NEW W \in SUBSET Player
  PROVE  /\ Eligible(z, f, W) \in SUBSET Player
         /\ \A p \in Eligible(z, f, W) : MayPlace(z, W, p)
<1>1. \A p \in Player : Cardinality(z.success[p]) \in Nat
  BY CardSets DEF ZonesType
<1> QED
  BY <1>1 DEF Eligible, MayPlace

LEMMA JudgeLawful ==
  ASSUME phase = "live_judgment", first \in Player,
         NEW z \in ZonesType, \A p \in Player : z.moved[p] = {}, NEW V, Lawful(z, V),
         NEW f, f.pending = {}, Judge(z, f)
  PROVE  JInv'
<1>1. winners' \subseteq Player /\ Lawful(z, winners')
  BY UnplacedLawful DEF Judge
<1> DEFINE S == Eligible(z, f, winners')
           remaining == InTurnOrder(S)
<1>2. S \in SUBSET Player /\ \A p \in S : MayPlace(z, winners', p)
  BY <1>1, EligibleMayPlace
<1>3. FinishJudgmentChoices(z, remaining, f)
  BY DEF Judge
<1> HIDE DEF S
<1>4. remaining \in Seq(Player) /\ Range(remaining) = S /\ IsInjective(remaining)
  BY <1>2, TurnOrder
<1> HIDE DEF remaining
<1> QED
  BY <1>1, <1>2, <1>3, <1>4, FinishLawful

-----------------------------------------------------------------------------
(***************************************************************************)
(* Every step keeps the invariant.                                         *)
(***************************************************************************)

\* Steps outside the judgment: nobody has placed a card, or the match goes on
\* only with the next turn.
LEMMA OutsideJudgment ==
  ASSUME JInv, zones'.success = zones.success, zones'.moved = zones.moved,
         winners' = winners,
         phase' = phase \/ (phase' \notin {"turn_complete", "complete"} /\ Unplaced),
         phase \in {"turn_complete", "complete"} \/ Unplaced,
         choice'.kind # "success_live", ChoicePhase'
  PROVE  JInv'
<1>1. Lawful(zones', winners')
  BY DEF JInv, Lawful
<1>2. UnplacedBefore' /\ BelowThree' /\ AskedOnlyOnce'
  BY DEF JInv, UnplacedBefore, Unplaced, BelowThree, AskedOnlyOnce
<1> QED
  BY <1>1, <1>2 DEF JInv

LEMMA WorkedLawful ==
  ASSUME "success_move" \notin Adjustments, IInv, QInv, JInv, Worked
  PROVE  JInv'
<1>1. PICK f, ch, z : WorkedOn(f, ch, z)
  BY DEF Worked
<1>2. /\ Sound(f) /\ ChoiceSound(f, ch) /\ Settle(f, ch, z) /\ z \in ZonesType
      /\ ch \in {choice, NoChoice} /\ z.success = zones.success /\ z.moved = zones.moved
  BY <1>1 DEF WorkedOn
<1>3. choice.kind # "success_live"
  BY <1>1 DEF WorkedOn, JInv, AskedOnlyOnce
<1>4. ch.kind # "success_live" /\ ch.kind \in {choice.kind, "none"}
  BY <1>2, <1>3, NoChoiceType
<1>5. phase \in {"turn_complete", "complete"} \/ Unplaced
  BY <1>3 DEF JInv, UnplacedBefore
<1>6. PICK g \in AutoRun(f, ch, z) :
       \/ /\ phase \in PerformancePhases
          /\ phase' = IF phase = "performance_first" THEN "yell_first" ELSE "yell_second"
          /\ choice' = ch /\ zones' = z /\ UNCHANGED <<winners, result>>
       \/ g.pending = {} /\ phase = "live_judgment" /\ Judge(z, g)
       \/ choice' = ch /\ zones' = z /\ UNCHANGED <<phase, winners, result>>
  BY <1>2 DEF Settle
<1>7. CASE /\ phase \in PerformancePhases
           /\ phase' = IF phase = "performance_first" THEN "yell_first" ELSE "yell_second"
           /\ choice' = ch /\ zones' = z /\ UNCHANGED <<winners, result>>
  <2>1. ChoicePhase'
    BY <1>4, <1>7 DEF JInv, ChoicePhase, PerformancePhases, YellPhases
  <2> QED
    BY <1>2, <1>4, <1>5, <1>7, <2>1, OutsideJudgment DEF PerformancePhases
<1>8. CASE g.pending = {} /\ phase = "live_judgment" /\ Judge(z, g)
  <2>1. \A p \in Player : z.moved[p] = {}
    BY <1>2, <1>5, <1>8 DEF Unplaced
  <2>2. Lawful(z, winners) /\ first \in Player
    BY <1>2, <1>8 DEF JInv, Lawful, IInv, Seated
  <2> QED
    BY <1>2, <1>8, <2>1, <2>2, JudgeLawful
<1>9. CASE choice' = ch /\ zones' = z /\ UNCHANGED <<phase, winners, result>>
  <2>1. ChoicePhase'
    BY <1>4, <1>9 DEF JInv, ChoicePhase, YellPhases
  <2> QED
    BY <1>2, <1>4, <1>5, <1>9, <2>1, OutsideJudgment
<1> QED
  BY <1>6, <1>7, <1>8, <1>9

LEMMA QuietLawful ==
  ASSUME Adjustments \cap {"stage_departure", "success_move"} = {}, IInv, QInv, JInv, Quiet
  PROVE  JInv'
<1>1. CASE choice.kind = "success_live"
  <2>1. fx.pending = {} /\ phase = "live_judgment"
    BY <1>1 DEF JInv, AskedOnlyOnce, IInv, AskedInJudgment
  <2>2. fx'.pending = {} /\ choice' = choice /\ phase' = phase
    BY <1>1, <2>1, NoChoiceType DEF Quiet
  <2>3. Lawful(zones', winners')
    BY DEF JInv, Lawful, Quiet
  <2>4. AskedOnlyOnce'
    BY <1>1, <2>2 DEF Quiet, JInv, AskedOnlyOnce, Waiting, MayPlace
  <2> QED
    BY <1>1, <2>1, <2>2, <2>3, <2>4
    DEF JInv, UnplacedBefore, BelowThree, ChoicePhase
<1>2. CASE choice.kind # "success_live"
  <2>1. phase \in {"turn_complete", "complete"} \/ Unplaced
    BY <1>2 DEF JInv, UnplacedBefore
  <2>2. choice'.kind # "success_live" /\ ChoicePhase'
    BY <1>2 DEF Quiet, JInv, ChoicePhase
  <2> QED
    BY <2>1, <2>2, OutsideJudgment DEF Quiet
<1> QED
  BY <1>1, <1>2

\* A request that leaves the success areas alone and is refused while a winner
\* is asked for a card.
Aside ==
    /\ choice.kind # "success_live" /\ choice'.kind # "success_live"
    /\ zones'.success = zones.success /\ zones'.moved = zones.moved
    /\ winners' = winners /\ result' = result
    /\ phase' = phase \/ {phase, phase'} \cap {"turn_complete", "complete"} = {}
    /\ ChoicePhase'

LEMMA AsideLawful ==
  ASSUME JInv, Aside
  PROVE  JInv'
<1>1. phase \in {"turn_complete", "complete"} \/ Unplaced
  BY DEF JInv, UnplacedBefore, Aside
<1> QED
  BY <1>1, OutsideJudgment DEF Aside

LEMMA SetupAside ==
  ASSUME IInv, QInv, ChoicePhase, SetupStep
  PROVE  Aside
<1>1. ASSUME NEW p \in Player, ChooseFirstPlayer(p) PROVE Aside
  <2>1. /\ choice.kind # "success_live" /\ choice'.kind = "mulligan"
        /\ phase = "setup_choose_first" /\ phase' = "setup_mulligan_first"
        /\ UNCHANGED <<zones, winners, result>>
    BY <1>1 DEF ChooseFirstPlayer, ChoiceOf, IInv, IdleBeforeStart
  <2>2. ChoicePhase' /\ choice'.kind # "success_live"
    BY <2>1 DEF ChoicePhase
  <2> QED
    BY <2>1, <2>2 DEF Aside
<1>2. ASSUME SubmitMulligan PROVE Aside
  <2>1. /\ choice.kind = "mulligan" /\ phase \in {"setup_mulligan_first", "setup_mulligan_second"}
        /\ UNCHANGED <<zones, winners, result>>
    BY <1>2 DEF SubmitMulligan, ChoicePhase
  <2>2. \/ phase' = "setup_mulligan_second" /\ choice'.kind = "mulligan"
        \/ phase' = "first_active" /\ choice'.kind = "none"
    BY <1>2, NoChoiceType DEF SubmitMulligan, ChoiceOf
  <2>3. ChoicePhase'
    BY <2>2 DEF ChoicePhase
  <2>4. choice.kind # "success_live" /\ choice'.kind # "success_live"
    BY <2>1, <2>2
  <2> QED
    BY <2>1, <2>2, <2>3, <2>4 DEF Aside
<1> QED
  BY <1>1, <1>2 DEF SetupStep

LEMMA TurnAside ==
  ASSUME IInv, QInv, ChoicePhase, AdvancePhase \/ EndMainPhase
  PROVE  Aside
<1>1. /\ phase \in TurnPhases
      /\ phase' \in TurnPhases \cup {"live_set_first"}
      /\ UNCHANGED <<choice, zones, winners, result>>
  BY DEF AdvancePhase, EndMainPhase, Transition, TurnPhases
<1>2. choice.kind \notin {"success_live", "mulligan", "live_requirements"}
  BY <1>1 DEF IInv, AskedInJudgment, ChoicePhase, TurnPhases, YellPhases
<1>3. ChoicePhase' /\ choice'.kind # "success_live"
  BY <1>1, <1>2 DEF ChoicePhase
<1>4. {phase, phase'} \cap {"turn_complete", "complete"} = {}
  BY <1>1 DEF TurnPhases
<1> QED
  BY <1>1, <1>2, <1>3, <1>4 DEF Aside

LEMMA StartNextTurnLawful ==
  ASSUME IInv, QInv, JInv, StartNextTurn
  PROVE  JInv'
<1>1. /\ choice' = NoChoice /\ phase' = "first_active" /\ winners' = {} /\ result' = result
      /\ zones'.success = zones.success /\ \A p \in Player : zones'.moved[p] = {}
  BY QFacts DEF StartNextTurn, ZonesType
<1>2. \A p \in Player : Cardinality(zones.success[p]) <= 2
  BY DEF StartNextTurn, JInv, BelowThree
<1>3. Lawful(zones', winners')
  BY <1>1, <1>2 DEF Lawful
<1> QED
  BY <1>1, <1>3, NoChoiceType
  DEF JInv, UnplacedBefore, Unplaced, AskedOnlyOnce, BelowThree, ChoicePhase

LEMMA YellAside ==
  ASSUME IInv, QInv, ChoicePhase, NEW ok \in BOOLEAN,
         YellAsks \/ YellDecides(ok) \/ OrderRequirements(ok)
  PROVE  Aside
<1>1. phase \in YellPhases
  BY DEF YellAsks, YellDecides, OrderRequirements, ChoicePhase
<1>2. choice.kind \notin {"success_live", "mulligan"}
  BY <1>1 DEF IInv, AskedInJudgment, ChoicePhase, YellPhases
<1>3. \A p : ApplyRequirements(p, ok) =>
         zones'.success = zones.success /\ zones'.moved = zones.moved
  BY QFacts DEF ApplyRequirements, ZonesType
<1>4. /\ zones'.success = zones.success /\ zones'.moved = zones.moved
      /\ winners' = winners /\ result' = result
  BY <1>3 DEF YellAsks, YellDecides, OrderRequirements
<1>5. /\ phase' = phase \/ phase' \in {"performance_second", "live_judgment"}
      /\ choice'.kind \in {choice.kind, "none", "live_requirements"}
      /\ choice'.kind = "live_requirements" => phase' \in YellPhases
  <2>1. CASE YellAsks
    BY <1>1, <2>1 DEF YellAsks, ChoiceOf
  <2>2. CASE YellDecides(ok)
    BY <2>2, <1>1 DEF YellDecides, MayAdvance, AfterYell
  <2>3. CASE OrderRequirements(ok)
    BY <2>3, NoChoiceType DEF OrderRequirements, AfterYell
  <2> QED
    BY <2>1, <2>2, <2>3
<1>6. ChoicePhase' /\ choice'.kind # "success_live"
  BY <1>2, <1>5 DEF ChoicePhase
<1> QED
  BY <1>1, <1>2, <1>4, <1>5, <1>6 DEF Aside, YellPhases

LEMMA SetAndPerformAside ==
  ASSUME IInv, QInv, ChoicePhase,
         \/ \E S \in SUBSET Card : SetLiveCards(S)
         \/ \E T \in SUBSET Invocation : Perform(T)
  PROVE  Aside
<1>1. /\ phase \in {"live_set_first", "live_set_second"} \cup PerformancePhases
      /\ phase' \in {"live_set_second"} \cup PerformancePhases \cup YellPhases
      /\ UNCHANGED <<choice, winners, result>>
  BY DEF SetLiveCards, Perform, PerformancePhases, YellPhases
<1>2. zones'.success = zones.success /\ zones'.moved = zones.moved
  BY QFacts DEF SetLiveCards, Perform, ZonesType
<1>3. choice.kind \notin {"success_live", "mulligan", "live_requirements"}
  BY <1>1 DEF IInv, AskedInJudgment, ChoicePhase, YellPhases, PerformancePhases
<1> QED
  BY <1>1, <1>2, <1>3 DEF Aside, ChoicePhase, PerformancePhases, YellPhases

LEMMA BeginJudgmentLawful ==
  ASSUME IInv, QInv, JInv, NEW T \in SUBSET Invocation, BeginJudgment(T)
  PROVE  JInv'
<1> DEFINE z == [zones EXCEPT !.moved = [p \in Player |-> {}]]
           f == [fx EXCEPT !.blocked = FALSE]
<1>1. PICK g \in AutoRun(Queue(f, T), choice, z) :
         IF g.pending # {}
         THEN zones' = z /\ UNCHANGED <<phase, choice, winners, result>>
         ELSE Judge(z, g)
  BY DEF BeginJudgment
<1>2. /\ phase = "live_judgment" /\ first \in Player
      /\ choice.kind \notin {"success_live", "live_requirements", "mulligan"}
  BY DEF BeginJudgment, MayAdvance, IInv, Seated, JInv, ChoicePhase
<1>3. Unplaced
  BY <1>2 DEF JInv, UnplacedBefore
<1>4. /\ z \in ZonesType /\ z.success = zones.success
      /\ \A p \in Player : z.moved[p] = {} /\ z.moved[p] = zones.moved[p]
  BY <1>3, QFacts DEF ZonesType, Unplaced
<1> HIDE DEF z
<1>5. Lawful(z, winners)
  BY <1>4 DEF JInv, Lawful
<1>6. CASE g.pending = {}
  BY <1>1, <1>2, <1>4, <1>5, <1>6, JudgeLawful DEF JInv
<1>7. CASE g.pending # {}
  BY <1>1, <1>2, <1>4, <1>5, <1>7
  DEF JInv, UnplacedBefore, Unplaced, AskedOnlyOnce, BelowThree, ChoicePhase, Lawful
<1> QED
  BY <1>6, <1>7

\* The winner who was asked places the chosen card, the others are asked next.
LEMMA ChooseSuccessLiveLawful ==
  ASSUME IInv, QInv, JInv, NEW c \in Card, ChooseSuccessLive(c)
  PROVE  JInv'
<1> DEFINE p == choice.player
           z == [zones EXCEPT !.live[p] = @ \ {c}, !.success[p] = @ \cup {c},
                              !.moved[p] = @ \cup {c}]
<1>1. /\ choice.kind = "success_live" /\ fx.pending = {} /\ phase = "live_judgment"
      /\ winners' = winners
  BY DEF ChooseSuccessLive, QueueEmpty, IInv, AskedInJudgment
<1>2. /\ p \in Player /\ p \notin Range(choice.rest) /\ IsInjective(choice.rest)
      /\ MayPlace(zones, winners, p)
      /\ \A q \in Range(choice.rest) : MayPlace(zones, winners, q)
  BY <1>1 DEF JInv, AskedOnlyOnce, Waiting
<1>3. choice.rest \in Seq(Player) /\ winners' \subseteq Player
  BY <1>1, QFacts DEF ChoiceType, IInv, TypeOK
<1>4. FinishJudgmentChoices(z, choice.rest, fx)
  BY DEF ChooseSuccessLive
<1>5. /\ z \in ZonesType
      /\ z.success[p] = zones.success[p] \cup {c} /\ z.moved[p] = zones.moved[p] \cup {c}
      /\ \A q \in Player \ {p} :
            z.success[q] = zones.success[q] /\ z.moved[q] = zones.moved[q]
  BY <1>2, QFacts DEF ZonesType
<1> HIDE DEF z
<1>6. z.moved[p] = {c}
  BY <1>2, <1>5 DEF MayPlace
<1>7. /\ Cardinality(z.moved[p]) = 1
      /\ winners = Player => Cardinality(z.success[p]) <= 2
  <2>1. zones.success[p] \in SUBSET Card
    BY <1>2, QFacts DEF ZonesType
  <2>2. /\ Cardinality(zones.success[p]) \in Nat
        /\ Cardinality(zones.success[p] \cup {c}) \in Nat
        /\ Cardinality(zones.success[p] \cup {c}) <= Cardinality(zones.success[p]) + 1
        /\ Cardinality({c}) = 1
    BY <2>1, CardSets, ChosenCard
  <2> QED
    BY <1>2, <1>5, <1>6, <2>2 DEF MayPlace
<1>8. Lawful(z, winners')
  <2>1. ASSUME NEW q \in Player \ {p}
        PROVE  /\ z.moved[q] # {} =>
                     /\ q \in winners
                     /\ Cardinality(z.moved[q]) = 1 /\ z.moved[q] \subseteq z.success[q]
                     /\ winners = Player => Cardinality(z.success[q]) <= 2
               /\ z.moved[q] = {} => Cardinality(z.success[q]) <= 2
    BY <1>5 DEF JInv, Lawful
  <2>2. z.moved[p] # {} /\ z.moved[p] \subseteq z.success[p] /\ p \in winners
    BY <1>2, <1>5, <1>6 DEF MayPlace
  <2> QED
    BY <1>1, <1>7, <2>1, <2>2 DEF Lawful
<1>9. \A q \in Range(choice.rest) : MayPlace(z, winners', q)
  <2>1. Range(choice.rest) \subseteq Player \ {p}
    BY <1>2, <1>3 DEF Range
  <2> QED
    BY <1>1, <1>2, <1>5, <2>1 DEF MayPlace
<1> QED
  BY <1>1, <1>2, <1>3, <1>4, <1>5, <1>8, <1>9, FinishLawful DEF JInv

LEMMA PhaseStepAside ==
  ASSUME IInv, QInv, ChoicePhase, PhaseStep
  PROVE  \/ Aside
         \/ StartNextTurn
         \/ \E T \in SUBSET Invocation : BeginJudgment(T)
         \/ \E c \in Card : ChooseSuccessLive(c)
<1>1. CASE LiveStep
  BY <1>1, SetAndPerformAside, YellAside DEF LiveStep
<1> QED
  BY <1>1, SetupAside, TurnAside DEF PhaseStep

LEMMA PhaseStepLawful ==
  ASSUME IInv, QInv, JInv, PhaseStep
  PROVE  JInv'
<1>1. ChoicePhase
  BY DEF JInv
<1> QED
  BY <1>1, PhaseStepAside, AsideLawful, StartNextTurnLawful, BeginJudgmentLawful,
     ChooseSuccessLiveLawful

LEMMA InitLawful == Init => JInv
<1> SUFFICES ASSUME Init PROVE JInv
  OBVIOUS
<1>1. \A p \in Player : zones.moved[p] = {} /\ zones.success[p] = {}
  BY DEF Init, NoZones
<1>2. Lawful(zones, winners)
  BY <1>1, FS_EmptySet DEF Lawful
<1>3. BelowThree
  BY <1>1, FS_EmptySet DEF Init, BelowThree
<1>4. UnplacedBefore /\ AskedOnlyOnce /\ ChoicePhase
  BY <1>1, NoChoiceType DEF Init, UnplacedBefore, Unplaced, AskedOnlyOnce, ChoicePhase
<1> QED
  BY <1>2, <1>3, <1>4 DEF JInv

LEMMA JudgmentInductive ==
  ASSUME Adjustments \cap {"stage_departure", "success_move"} = {}
  PROVE  Spec => []JInv
<1>1. ASSUME IInv, QInv, JInv, [Next]_vars PROVE JInv'
  <2>1. CASE UNCHANGED vars
    BY <1>1, <2>1
    DEF vars, JInv, UnplacedBefore, Unplaced, AskedOnlyOnce, Waiting, MayPlace,
        BelowThree, ChoicePhase, Lawful
  <2> QED
    BY <1>1, <2>1, StepKinds, WorkedLawful, QuietLawful, PhaseStepLawful
<1> QED
  BY <1>1, InitLawful, Inductive, QueueInductive, PTL DEF Spec

\* Whoever placed a card in a judgment won it, placed one card only, and did
\* not tie at match point, also when the judgment is cut in two by the choice
\* of one winner (_finish_judgment_choices).  Two adjustments by hand break it:
\* a departure while a winner is asked can queue effects, and their end judges
\* a second time; and a card moved into or out of a success area is placed, or
\* missing, whatever the judgment did (_manual_move_card, engine.py:12694).
THEOREM OnlyWinnersPlaceHolds ==
  ASSUME Adjustments \cap {"stage_departure", "success_move"} = {}
  PROVE  Spec => []OnlyWinnersPlace
<1>1. JInv => OnlyWinnersPlace
  BY DEF JInv, Lawful, OnlyWinnersPlace
<1> QED
  BY <1>1, JudgmentInductive, PTL

-----------------------------------------------------------------------------
(***************************************************************************)
(* No draw.  This does not need JInv: it survives a departure by hand that *)
(* makes a judgment run twice.  Between two requests of a judgment nobody  *)
(* has three success lives, and if several winners are still to be asked   *)
(* none of them is at match point.                                         *)
(***************************************************************************)
SuccessOf(z, p) == Cardinality(z.success[p])

\* If several players of S place a card, none of them reaches three with it.
Sparing(z, S) == \A p, q \in S : p # q => SuccessOf(z, p) <= 1

AskedBelow == choice.kind = "success_live" =>
    /\ choice.player \in Player /\ choice.player \notin Range(choice.rest)
    /\ IsInjective(choice.rest)
    /\ Sparing(zones, Waiting)
AtMostTwo == phase # "complete" => \A p \in Player : SuccessOf(zones, p) <= 2
BInv == ChoicePhase /\ AskedBelow /\ AtMostTwo /\ NeverBothFinished

LEMMA PlacedGrows ==
  ASSUME NEW z \in ZonesType, NEW S, \A p \in S : ~Several(z, p), NEW p \in Player
  PROVE  /\ SuccessOf(z, p) \in Nat /\ SuccessOf(Placed(z, S), p) \in Nat
         /\ SuccessOf(Placed(z, S), p) <= SuccessOf(z, p) + 1
         /\ p \notin S => SuccessOf(Placed(z, S), p) = SuccessOf(z, p)
<1>1. /\ z.success[p] \in SUBSET Card /\ z.live[p] \in SUBSET Card
      /\ Placed(z, S).success[p] \in SUBSET Card
  BY PlacedType DEF ZonesType
<1>2. SuccessOf(z, p) \in Nat /\ SuccessOf(Placed(z, S), p) \in Nat
  BY <1>1, CardSets DEF SuccessOf
<1>3. CASE p \notin S
  BY <1>2, <1>3, PlacedAreas DEF SuccessOf
<1>4. CASE p \in S
  <2>1. Cardinality(z.success[p] \cup z.live[p]) <= Cardinality(z.success[p]) + 1
    BY <1>1, <1>4, SingleCard DEF Several
  <2>2. Placed(z, S).success[p] = z.success[p] \cup z.live[p]
    BY <1>4, PlacedAreas
  <2> QED
    BY <1>2, <1>4, <2>1, <2>2 DEF SuccessOf
<1> QED
  BY <1>3, <1>4

\* The end of a judgment: the match is over for at most one player.
LEMMA CompleteSpares ==
  ASSUME NEW y \in ZonesType, NEW f, \E p \in Player : SuccessOf(y, p) <= 2,
         result # "draw", CompleteJudgment(y, f)
  PROVE  BInv'
<1> DEFINE reached == {p \in Player : Cardinality(y.success[p]) >= 3}
<1>1. /\ zones'.success = y.success /\ choice'.kind = "none"
      /\ phase' \in {"turn_complete", "complete"}
  BY NoChoiceType DEF CompleteJudgment, Cleared, ZonesType
<1>2. \A p \in Player : SuccessOf(y, p) \in Nat
  BY CardSets DEF ZonesType, SuccessOf
<1>3. AtMostTwo'
  <2>1. phase' = "turn_complete" => reached = {}
    BY DEF CompleteJudgment
  <2> QED
    BY <1>1, <1>2, <2>1 DEF AtMostTwo, SuccessOf
<1>4. result' # "draw"
  <2>1. reached # Player
    BY <1>2 DEF SuccessOf
  <2>2. CASE reached = {}
    BY <2>2 DEF CompleteJudgment
  <2>3. CASE reached # {}
    <3>1. result' = CHOOSE p \in Player : reached = {p}
      BY <2>1, <2>3 DEF CompleteJudgment
    <3>2. \E p \in Player : reached = {p}
      BY <2>1, <2>3 DEF Player
    <3>3. (CHOOSE p \in Player : reached = {p}) \in Player
      BY <3>2
    <3> QED
      BY <3>1, <3>3, PlayersAssumption
  <2> QED
    BY <2>2, <2>3
<1>5. NeverBothFinished'
  BY <1>1, <1>4 DEF NeverBothFinished, SuccessOf
<1>6. ChoicePhase' /\ AskedBelow'
  BY <1>1 DEF ChoicePhase, AskedBelow
<1> QED
  BY <1>3, <1>5, <1>6 DEF BInv

\* _finish_judgment_choices, called with players none of whom is at match point
\* if there are several.
LEMMA FinishSpares ==
  ASSUME phase = "live_judgment", result # "draw", NEW z \in ZonesType, NEW f,
         NEW remaining \in Seq(Player), IsInjective(remaining),
         Sparing(z, Range(remaining)),
         \E p \in Player : SuccessOf(z, p) <= 2,
         remaining # << >> => \A p \in Player : SuccessOf(z, p) <= 2,
         FinishJudgmentChoices(z, remaining, f)
  PROVE  BInv'
<1> USE DEF Sparing
<1>1. Range(remaining) \subseteq Player
  BY DEF Range
<1>2. CASE \E k \in DOMAIN remaining : AskedAt(z, remaining, f, k)
  <2>1. PICK k \in DOMAIN remaining : AskedAt(z, remaining, f, k)
    BY <1>2
  <2> DEFINE rest == ChooseNext(remaining, k)
             S == Before(remaining, k)
  <2>2. /\ IsInjective(rest) /\ remaining[k] \notin Range(rest) /\ remaining[k] \in Player
        /\ Range(remaining) = S \cup {remaining[k]} \cup Range(rest)
        /\ ({remaining[k]} \cup Range(rest)) \cap S = {}
    BY ChooseNextFacts
  <2>3. /\ choice'.kind = "success_live" /\ choice'.player = remaining[k]
        /\ choice'.rest = rest
        /\ zones' = Placed(z, S) /\ phase' = phase /\ result' = result
    BY <2>1 DEF AskedAt, ChoiceOf
  <2>4. \A p \in S : ~Several(z, p)
    BY <2>1 DEF AskedAt, Before
  <2>5. \A p \in Player : SuccessOf(z, p) <= 2
    BY <2>1
  <2> HIDE DEF rest, S
  <2>6. \A p \in Player : SuccessOf(zones', p) <= 2
    <3> SUFFICES ASSUME NEW p \in Player PROVE SuccessOf(zones', p) <= 2
      OBVIOUS
    <3>1. CASE p \notin S
      BY <2>3, <2>4, <2>5, <3>1, PlacedGrows
    <3>2. CASE p \in S
      <4>1. p # remaining[k] /\ SuccessOf(z, p) <= 1
        BY <2>2, <3>2
      <4>2. SuccessOf(zones', p) <= SuccessOf(z, p) + 1 /\ SuccessOf(z, p) \in Nat
        BY <2>3, <2>4, PlacedGrows
      <4>3. SuccessOf(zones', p) \in Nat
        BY <2>3, <2>4, PlacedGrows
      <4> QED
        BY <4>1, <4>2, <4>3
    <3> QED
      BY <3>1, <3>2
  <2>7. Waiting' = {remaining[k]} \cup Range(rest)
    BY <2>3 DEF Waiting
  <2>8. Sparing(zones', Waiting')
    BY <1>1, <2>2, <2>3, <2>4, <2>7, PlacedGrows
  <2>9. NeverBothFinished'
    BY <2>3, <2>6 DEF NeverBothFinished, SuccessOf, Player
  <2> QED
    BY <2>2, <2>3, <2>6, <2>8, <2>9 DEF BInv, AskedBelow, AtMostTwo, ChoicePhase
<1>3. CASE /\ \A k \in DOMAIN remaining : ~Several(z, remaining[k])
           /\ CompleteJudgment(Placed(z, Range(remaining)), f)
  <2> DEFINE S == Range(remaining)
  <2>1. \A p \in S : ~Several(z, p)
    BY <1>3 DEF Range
  <2>2. S # {} => \A p \in Player : SuccessOf(z, p) <= 2
    <3>1. remaining = << >> => S = {}
      BY ShortSequences
    <3> QED
      BY <3>1
  <2> HIDE DEF S
  <2>3. P1 \in Player /\ P2 \in Player /\ P1 # P2
    BY PlayersAssumption DEF Player
  <2>4. \E p \in Player : SuccessOf(Placed(z, S), p) <= 2
    <3>1. CASE P1 \in S /\ P2 \in S
      <4>1. SuccessOf(z, P1) <= 1
        BY <2>3, <3>1 DEF S
      <4> QED
        BY <2>1, <2>3, <4>1, PlacedGrows
    <3>2. CASE S # {} /\ ~(P1 \in S /\ P2 \in S)
      BY <2>1, <2>2, <2>3, <3>2, PlacedGrows
    <3>3. CASE S = {}
      BY <2>1, <3>3, PlacedGrows
    <3> QED
      BY <3>1, <3>2, <3>3
  <2>5. CompleteJudgment(Placed(z, S), f) /\ Placed(z, S) \in ZonesType
    BY <1>3, PlacedType DEF S
  <2> QED
    BY <2>4, <2>5, CompleteSpares
<1> QED
  BY <1>2, <1>3, FinishCases

LEMMA JudgeSpares ==
  ASSUME phase = "live_judgment", first \in Player, result # "draw",
         NEW z \in ZonesType, \A p \in Player : SuccessOf(z, p) <= 2, NEW f, Judge(z, f)
  PROVE  BInv'
<1> DEFINE S == Eligible(z, f, winners')
           remaining == InTurnOrder(S)
<1>1. winners' \in SUBSET Player /\ FinishJudgmentChoices(z, remaining, f)
  BY DEF Judge
<1>2. \A p \in Player : SuccessOf(z, p) \in Nat
  BY CardSets DEF ZonesType, SuccessOf
<1>3. S \in SUBSET Player /\ Sparing(z, S)
  <2>1. ASSUME NEW p \in S, NEW q \in S, p # q PROVE SuccessOf(z, p) <= 1
    <3>1. S \subseteq winners' /\ p \in Player /\ q \in Player
      BY <1>1 DEF Eligible
    <3>2. winners' = Player
      BY <1>1, <2>1, <3>1 DEF Player
    <3> QED
      BY <1>2, <3>1, <3>2 DEF Eligible, SuccessOf
  <2> QED
    BY <1>1, <2>1 DEF Eligible, Sparing
<1> HIDE DEF S
<1>4. remaining \in Seq(Player) /\ Range(remaining) = S /\ IsInjective(remaining)
  BY <1>3, TurnOrder
<1>5. \E p \in Player : SuccessOf(z, p) <= 2
  BY DEF Player
<1> HIDE DEF remaining
<1> QED
  BY <1>1, <1>3, <1>4, <1>5, FinishSpares

\* A step that leaves the success areas alone.
LEMMA SameSpares ==
  ASSUME BInv, zones'.success = zones.success, result' = result, ChoicePhase',
         phase # "complete" \/ phase' = phase,
         choice' = choice \/ choice'.kind # "success_live"
  PROVE  BInv'
  BY DEF BInv, AskedBelow, Waiting, Sparing, AtMostTwo, SuccessOf, NeverBothFinished

LEMMA WorkedSpares ==
  ASSUME "success_move" \notin Adjustments, IInv, BInv, Worked
  PROVE  BInv'
<1>1. PICK f, ch, z : WorkedOn(f, ch, z)
  BY DEF Worked
<1>2. /\ Settle(f, ch, z) /\ z \in ZonesType /\ z.success = zones.success
      /\ ch \in {choice, NoChoice}
  BY <1>1 DEF WorkedOn
<1>3. ch.kind = choice.kind \/ ch.kind = "none"
  BY <1>2, NoChoiceType
<1>4. PICK g \in AutoRun(f, ch, z) :
       \/ /\ phase \in PerformancePhases
          /\ phase' = IF phase = "performance_first" THEN "yell_first" ELSE "yell_second"
          /\ choice' = ch /\ zones' = z /\ UNCHANGED result
       \/ phase = "live_judgment" /\ Judge(z, g)
       \/ choice' = ch /\ zones' = z /\ UNCHANGED <<phase, result>>
  BY <1>2 DEF Settle
<1>5. choice' = ch => choice' = choice \/ choice'.kind # "success_live"
  BY <1>2, NoChoiceType
<1>6. CASE /\ phase \in PerformancePhases
           /\ phase' = IF phase = "performance_first" THEN "yell_first" ELSE "yell_second"
           /\ choice' = ch /\ zones' = z /\ UNCHANGED result
  <2>1. ChoicePhase'
    BY <1>3, <1>6 DEF BInv, ChoicePhase, PerformancePhases, YellPhases
  <2> QED
    BY <1>2, <1>5, <1>6, <2>1, SameSpares DEF PerformancePhases
<1>7. CASE phase = "live_judgment" /\ Judge(z, g)
  <2>1. /\ first \in Player /\ result # "draw"
        /\ \A p \in Player : SuccessOf(z, p) <= 2
    BY <1>2, <1>7 DEF BInv, NeverBothFinished, AtMostTwo, SuccessOf, IInv, Seated
  <2> QED
    BY <1>2, <1>7, <2>1, JudgeSpares
<1>8. CASE choice' = ch /\ zones' = z /\ UNCHANGED <<phase, result>>
  <2>1. ChoicePhase'
    BY <1>3, <1>8 DEF BInv, ChoicePhase
  <2> QED
    BY <1>2, <1>5, <1>8, <2>1, SameSpares
<1> QED
  BY <1>4, <1>6, <1>7, <1>8

LEMMA QuietSpares ==
  ASSUME "success_move" \notin Adjustments, BInv, Quiet
  PROVE  BInv'
<1>1. ChoicePhase' /\ (choice' = choice \/ choice'.kind # "success_live")
  BY DEF Quiet, BInv, ChoicePhase
<1> QED
  BY <1>1, SameSpares DEF Quiet

LEMMA BeginJudgmentSpares ==
  ASSUME IInv, QInv, BInv, NEW T \in SUBSET Invocation, BeginJudgment(T)
  PROVE  BInv'
<1> DEFINE z == [zones EXCEPT !.moved = [p \in Player |-> {}]]
           f == [fx EXCEPT !.blocked = FALSE]
<1>1. PICK g \in AutoRun(Queue(f, T), choice, z) :
         IF g.pending # {}
         THEN zones' = z /\ UNCHANGED <<phase, choice, result>>
         ELSE Judge(z, g)
  BY DEF BeginJudgment
<1>2. phase = "live_judgment" /\ first \in Player /\ result # "draw"
  BY DEF BeginJudgment, IInv, Seated, BInv, NeverBothFinished
<1>3. z \in ZonesType /\ z.success = zones.success
  BY QFacts DEF ZonesType
<1> HIDE DEF z
<1>4. \A p \in Player : SuccessOf(z, p) <= 2
  BY <1>2, <1>3 DEF BInv, AtMostTwo, SuccessOf
<1>5. CASE g.pending = {}
  BY <1>1, <1>2, <1>3, <1>4, <1>5, JudgeSpares
<1>6. CASE g.pending # {}
  <2>1. ChoicePhase'
    BY <1>1, <1>6 DEF BInv, ChoicePhase
  <2> QED
    BY <1>1, <1>3, <1>6, <2>1, SameSpares
<1> QED
  BY <1>5, <1>6

LEMMA ChooseSuccessLiveSpares ==
  ASSUME IInv, QInv, BInv, NEW c \in Card, ChooseSuccessLive(c)
  PROVE  BInv'
<1> DEFINE p == choice.player
           z == [zones EXCEPT !.live[p] = @ \ {c}, !.success[p] = @ \cup {c},
                              !.moved[p] = @ \cup {c}]
<1>1. choice.kind = "success_live" /\ phase = "live_judgment" /\ result # "draw"
  BY DEF ChooseSuccessLive, IInv, AskedInJudgment, BInv, NeverBothFinished
<1>2. /\ p \in Player /\ p \notin Range(choice.rest) /\ IsInjective(choice.rest)
      /\ \A q \in Player : SuccessOf(zones, q) <= 2
      /\ Sparing(zones, {p} \cup Range(choice.rest))
  BY <1>1 DEF BInv, AskedBelow, AtMostTwo, Waiting
<1>3. choice.rest \in Seq(Player) /\ Range(choice.rest) \subseteq Player \ {p}
  BY <1>1, <1>2, QFacts DEF ChoiceType, Range
<1>4. FinishJudgmentChoices(z, choice.rest, fx)
  BY DEF ChooseSuccessLive
<1>5. /\ z \in ZonesType /\ z.success[p] = zones.success[p] \cup {c}
      /\ \A q \in Player \ {p} : z.success[q] = zones.success[q]
  BY <1>2, QFacts DEF ZonesType
<1> HIDE DEF z
<1>6. \A q \in Player \ {p} : SuccessOf(z, q) <= 2
  BY <1>2, <1>5 DEF SuccessOf
<1>7. \E q \in Player : q # p
  BY PlayersAssumption DEF Player
<1>8. Sparing(z, Range(choice.rest))
  BY <1>2, <1>3, <1>5 DEF Sparing, SuccessOf
<1>9. choice.rest # << >> => SuccessOf(z, p) <= 2
  <2> SUFFICES ASSUME choice.rest # << >> PROVE SuccessOf(z, p) <= 2
    OBVIOUS
  <2>1. 1 \in DOMAIN choice.rest
    BY <1>3
  <2>2. choice.rest[1] \in Range(choice.rest)
    BY <2>1 DEF Range
  <2>3. SuccessOf(zones, p) <= 1
    BY <1>2, <2>2 DEF Sparing
  <2>4. zones.success[p] \in SUBSET Card
    BY <1>2, QFacts DEF ZonesType
  <2>5. /\ Cardinality(zones.success[p] \cup {c}) <= Cardinality(zones.success[p]) + 1
        /\ Cardinality(zones.success[p]) \in Nat
        /\ Cardinality(zones.success[p] \cup {c}) \in Nat
    BY <2>4, ChosenCard, CardSets
  <2> QED
    BY <1>5, <2>3, <2>5 DEF SuccessOf
<1>10. \E q \in Player : SuccessOf(z, q) <= 2
  BY <1>6, <1>7
<1>11. choice.rest # << >> => \A q \in Player : SuccessOf(z, q) <= 2
  BY <1>6, <1>9
<1> HIDE DEF p
<1> QED
  BY <1>1, <1>2, <1>3, <1>4, <1>5, <1>8, <1>10, <1>11, FinishSpares

LEMMA PhaseStepSpares ==
  ASSUME IInv, QInv, BInv, PhaseStep
  PROVE  BInv'
<1>1. ChoicePhase
  BY DEF BInv
<1>2. CASE Aside
  BY <1>2, SameSpares DEF Aside
<1>3. CASE StartNextTurn
  <2>1. /\ phase = "turn_complete" /\ choice'.kind = "none" /\ result' = result
        /\ zones'.success = zones.success
    BY <1>3, QFacts, NoChoiceType DEF StartNextTurn, ZonesType
  <2> QED
    BY <2>1, SameSpares DEF ChoicePhase
<1> QED
  BY <1>1, <1>2, <1>3, PhaseStepAside, BeginJudgmentSpares, ChooseSuccessLiveSpares

LEMMA BelowInductive ==
  ASSUME "success_move" \notin Adjustments
  PROVE  Spec => []BInv
<1>1. ASSUME Init PROVE BInv
  <2>1. \A p \in Player : SuccessOf(zones, p) = 0
    BY <1>1, FS_EmptySet DEF Init, NoZones, SuccessOf
  <2>2. NeverBothFinished
    BY <1>1, <2>1 DEF Init, NeverBothFinished, SuccessOf, Player
  <2> QED
    BY <1>1, <2>1, <2>2, NoChoiceType DEF Init, BInv, ChoicePhase, AskedBelow, AtMostTwo
<1>2. ASSUME IInv, QInv, BInv, [Next]_vars PROVE BInv'
  <2>1. CASE UNCHANGED vars
    <3>1. ChoicePhase'
      BY <1>2, <2>1 DEF vars, BInv, ChoicePhase
    <3> QED
      BY <1>2, <2>1, <3>1, SameSpares DEF vars
  <2> QED
    BY <1>2, <2>1, StepKinds, WorkedSpares, QuietSpares, PhaseStepSpares
<1> QED
  BY <1>1, <1>2, Inductive, QueueInductive, PTL DEF Spec

\* The judgment finishes a match for one player only, whatever is inspected,
\* scored, sent off the stage or moved in the live areas by hand, and though a
\* departure may make it run twice: the draw of _finish_live_judgment (12408)
\* needs a card that is moved by hand into a success area (_manual_move_card,
\* 12694), the one adjustment assumed away.
THEOREM NeverBothFinishedHolds ==
  ASSUME "success_move" \notin Adjustments
  PROVE  Spec => []NeverBothFinished
<1>1. BInv => NeverBothFinished
  BY DEF BInv
<1> QED
  BY <1>1, BelowInductive, PTL

-----------------------------------------------------------------------------
(***************************************************************************)
(* Nobody is forgotten: while a winner is asked, every winner who may      *)
(* place a card has done so or is waiting, with a card to place.           *)
(***************************************************************************)

Served(z, f, W, p) ==
    \/ z.moved[p] # {}
    \/ f.blocked
    \/ W = Player /\ Cardinality(z.success[p]) >= 2

StillWaiting == choice.kind = "success_live" =>
    /\ \A p \in Waiting : zones.live[p] # {}
    /\ \A p \in winners : Served(zones, fx, winners, p) \/ p \in Waiting
AllServed == Ended => \A p \in winners : Served(zones, fx, winners, p)
EInv == StillWaiting /\ AllServed

LEMMA FinishServes ==
  ASSUME phase = "live_judgment", winners' \subseteq Player,
         NEW z \in ZonesType, NEW f \in FxType, NEW remaining \in Seq(Player),
         IsInjective(remaining),
         \A p \in Range(remaining) : z.live[p] # {},
         \A p \in winners' : Served(z, f, winners', p) \/ p \in Range(remaining),
         FinishJudgmentChoices(z, remaining, f)
  PROVE  EInv'
<1>1. CASE \E k \in DOMAIN remaining : AskedAt(z, remaining, f, k)
  <2>1. PICK k \in DOMAIN remaining : AskedAt(z, remaining, f, k)
    BY <1>1
  <2> DEFINE rest == ChooseNext(remaining, k)
             S == Before(remaining, k)
  <2>2. /\ remaining[k] \in Player
        /\ Range(remaining) = S \cup {remaining[k]} \cup Range(rest)
        /\ ({remaining[k]} \cup Range(rest)) \cap S = {}
    BY ChooseNextFacts
  <2>3. /\ choice'.kind = "success_live" /\ choice'.player = remaining[k]
        /\ choice'.rest = rest
        /\ zones' = Placed(z, S) /\ fx' = f /\ phase' = phase
    BY <2>1 DEF AskedAt, ChoiceOf
  <2> HIDE DEF rest, S
  <2>4. Range(remaining) \subseteq Player
    BY DEF Range
  <2>5. Waiting' = {remaining[k]} \cup Range(rest)
    BY <2>3 DEF Waiting
  <2>6. \A p \in Waiting' : zones'.live[p] # {}
    BY <2>2, <2>3, <2>4, <2>5, PlacedAreas
  <2>7. ASSUME NEW p \in winners' PROVE Served(zones', fx', winners', p) \/ p \in Waiting'
    <3>1. CASE p \in S
      <4>1. zones'.moved[p] = z.moved[p] \cup z.live[p]
        BY <2>3, <3>1, PlacedAreas
      <4> QED
        BY <2>2, <3>1, <4>1 DEF Served
    <3>2. CASE p \notin S
      BY <2>2, <2>3, <2>5, <3>2, PlacedAreas DEF Served
    <3> QED
      BY <3>1, <3>2
  <2>8. StillWaiting'
    BY <2>6, <2>7 DEF StillWaiting
  <2> QED
    BY <2>3, <2>8 DEF EInv, AllServed, Ended
<1>2. CASE CompleteJudgment(Placed(z, Range(remaining)), f)
  <2> DEFINE y == Placed(z, Range(remaining))
  <2>1. y \in ZonesType
    BY PlacedType
  <2>2. Range(remaining) \subseteq Player
    BY DEF Range
  <2>3. \A p \in winners' : Served(y, f, winners', p)
    <3> SUFFICES ASSUME NEW p \in winners' PROVE Served(y, f, winners', p)
      OBVIOUS
    <3>1. CASE p \in Range(remaining)
      <4>1. y.moved[p] = z.moved[p] \cup z.live[p]
        BY <2>2, <3>1, PlacedAreas
      <4> QED
        BY <3>1, <4>1 DEF Served
    <3>2. CASE p \notin Range(remaining)
      BY <3>2, PlacedAreas DEF Served
    <3> QED
      BY <3>1, <3>2
  <2> HIDE DEF y
  <2>4. CompleteJudgment(y, f)
    BY <1>2 DEF y
  <2>5. /\ choice'.kind = "none" /\ fx'.blocked = f.blocked
        /\ zones'.moved = y.moved /\ zones'.success = y.success
    BY <2>1, <2>4, NoChoiceType DEF CompleteJudgment, Cleared, ZonesType, FxType
  <2> QED
    BY <2>3, <2>5 DEF EInv, StillWaiting, AllServed, Served
<1> QED
  BY <1>1, <1>2, FinishCases

LEMMA JudgeServes ==
  ASSUME phase = "live_judgment", first \in Player, NEW z \in ZonesType,
         NEW f \in FxType, Judge(z, f)
  PROVE  EInv'
<1>1. winners' \subseteq {p \in Player : z.live[p] # {}}
  BY DEF Judge
<1> DEFINE S == Eligible(z, f, winners')
           remaining == InTurnOrder(S)
<1>2. /\ S \in SUBSET winners'
      /\ \A p \in winners' \ S : Served(z, f, winners', p)
  BY <1>1 DEF Eligible, Served
<1>3. FinishJudgmentChoices(z, remaining, f)
  BY DEF Judge
<1> HIDE DEF S
<1>4. remaining \in Seq(Player) /\ Range(remaining) = S /\ IsInjective(remaining)
  BY <1>1, <1>2, TurnOrder
<1> HIDE DEF remaining
<1>5. \A p \in Range(remaining) : z.live[p] # {}
  BY <1>1, <1>2, <1>4
<1>6. \A p \in winners' : Served(z, f, winners', p) \/ p \in Range(remaining)
  BY <1>2, <1>4
<1> QED
  BY <1>1, <1>3, <1>4, <1>5, <1>6, FinishServes

\* A step that neither asks a winner nor ends a judgment.
LEMMA UnaskedServes ==
  ASSUME choice'.kind # "success_live", phase' \notin {"turn_complete", "complete"}
  PROVE  EInv'
  BY DEF EInv, StillWaiting, AllServed, Ended

\* A step that leaves the judgment as it is.
LEMMA SameServes ==
  ASSUME EInv, zones'.live = zones.live, zones'.success = zones.success,
         zones'.moved = zones.moved, winners' = winners, fx.blocked => fx'.blocked,
         phase' = phase, choice' = choice \/ choice'.kind # "success_live"
  PROVE  EInv'
  BY DEF EInv, StillWaiting, AllServed, Ended, Served, Waiting

LEMMA WorkedServes ==
  ASSUME Adjustments \cap {"live_move", "success_move"} = {}, IInv, QInv, EInv, Worked
  PROVE  EInv'
<1>1. PICK f, ch, z : WorkedOn(f, ch, z)
  BY DEF Worked
<1>2. /\ Sound(f) /\ ChoiceSound(f, ch) /\ Settle(f, ch, z) /\ z \in ZonesType
      /\ ch \in {choice, NoChoice}
      /\ z.live = zones.live /\ z.success = zones.success /\ z.moved = zones.moved
  BY <1>1 DEF WorkedOn
<1>3. phase \in PerformancePhases => ch.kind # "success_live"
  BY <1>2, NoChoiceType DEF IInv, AskedInJudgment, PerformancePhases
<1>4. ch = choice \/ ch.kind # "success_live"
  BY <1>2, NoChoiceType
<1>5. PICK g \in AutoRun(f, ch, z) :
       \/ phase \in PerformancePhases /\ phase' \in YellPhases /\ choice' = ch
       \/ phase = "live_judgment" /\ Judge(z, g)
       \/ fx' = g /\ choice' = ch /\ zones' = z /\ UNCHANGED <<phase, winners>>
  BY <1>2 DEF Settle, YellPhases
<1>6. Sound(g) /\ (fx.blocked => g.blocked)
  BY <1>1, <1>2, AutoRunSound DEF WorkedOn
<1>7. CASE phase \in PerformancePhases /\ phase' \in YellPhases /\ choice' = ch
  BY <1>3, <1>7, UnaskedServes DEF YellPhases
<1>8. CASE phase = "live_judgment" /\ Judge(z, g)
  <2>1. first \in Player /\ g \in FxType
    BY <1>6, <1>8 DEF IInv, Seated, Sound, FxOK
  <2> QED
    BY <1>2, <1>8, <2>1, JudgeServes
<1>9. CASE fx' = g /\ choice' = ch /\ zones' = z /\ UNCHANGED <<phase, winners>>
  BY <1>2, <1>4, <1>6, <1>9, SameServes
<1> QED
  BY <1>5, <1>7, <1>8, <1>9

LEMMA QuietServes ==
  ASSUME Adjustments \cap {"live_move", "success_move"} = {}, EInv, Quiet
  PROVE  EInv'
<1>1. choice' = choice \/ choice'.kind # "success_live"
  BY DEF Quiet
<1> QED
  BY <1>1, SameServes DEF Quiet

LEMMA BeginJudgmentServes ==
  ASSUME IInv, QInv, NEW T \in SUBSET Invocation, BeginJudgment(T)
  PROVE  EInv'
<1> DEFINE z == [zones EXCEPT !.moved = [p \in Player |-> {}]]
           f == [fx EXCEPT !.blocked = FALSE]
<1>1. PICK g \in AutoRun(Queue(f, T), choice, z) :
         IF g.pending # {} THEN UNCHANGED <<phase, choice>> ELSE Judge(z, g)
  BY DEF BeginJudgment
<1>2. phase = "live_judgment" /\ first \in Player /\ choice.kind # "success_live"
  BY DEF BeginJudgment, MayAdvance, IInv, Seated
<1>3. z \in ZonesType /\ FxOK(f)
  BY QFacts DEF ZonesType, Sound, FxOK, FxType
<1> HIDE DEF z, f
<1>4. FxOK(g)
  BY <1>3, QueueType, AutoRunType
<1>5. CASE g.pending = {}
  BY <1>1, <1>2, <1>3, <1>4, <1>5, JudgeServes DEF FxOK
<1>6. CASE g.pending # {}
  BY <1>1, <1>2, <1>6, UnaskedServes
<1> QED
  BY <1>5, <1>6

LEMMA ChooseSuccessLiveServes ==
  ASSUME IInv, QInv, BInv, EInv, NEW c \in Card, ChooseSuccessLive(c)
  PROVE  EInv'
<1> DEFINE p == choice.player
           z == [zones EXCEPT !.live[p] = @ \ {c}, !.success[p] = @ \cup {c},
                              !.moved[p] = @ \cup {c}]
<1>1. /\ choice.kind = "success_live" /\ phase = "live_judgment" /\ winners' = winners
      /\ fx \in FxType
  BY QFacts DEF ChooseSuccessLive, IInv, AskedInJudgment, Sound, FxOK
<1>2. /\ p \in Player /\ p \notin Range(choice.rest) /\ IsInjective(choice.rest)
      /\ \A q \in Range(choice.rest) : zones.live[q] # {}
      /\ \A q \in winners : Served(zones, fx, winners, q) \/ q = p \/ q \in Range(choice.rest)
  BY <1>1 DEF BInv, AskedBelow, EInv, StillWaiting, Waiting
<1>3. choice.rest \in Seq(Player) /\ winners \subseteq Player
  BY QFacts DEF ChoiceType, IInv, TypeOK
<1>4. FinishJudgmentChoices(z, choice.rest, fx)
  BY DEF ChooseSuccessLive
<1>5. /\ z \in ZonesType /\ z.moved[p] # {}
      /\ \A q \in Player \ {p} :
            /\ z.live[q] = zones.live[q]
            /\ z.success[q] = zones.success[q] /\ z.moved[q] = zones.moved[q]
  BY <1>2, QFacts DEF ZonesType
<1> HIDE DEF z
<1>6. \A q \in Range(choice.rest) : z.live[q] # {}
  <2>1. Range(choice.rest) \subseteq Player \ {p}
    BY <1>2, <1>3 DEF Range
  <2> QED
    BY <1>2, <1>5, <2>1
<1>7. \A q \in winners : Served(z, fx, winners, q) \/ q \in Range(choice.rest)
  BY <1>2, <1>3, <1>5 DEF Served
<1> QED
  BY <1>1, <1>2, <1>3, <1>4, <1>5, <1>6, <1>7, FinishServes

LEMMA PhaseStepServes ==
  ASSUME IInv, QInv, BInv, EInv, PhaseStep
  PROVE  EInv'
<1>1. CASE SetupStep
  <2>1. ASSUME NEW p \in Player, ChooseFirstPlayer(p) PROVE EInv'
    BY <2>1, UnaskedServes DEF ChooseFirstPlayer, ChoiceOf
  <2>2. ASSUME SubmitMulligan PROVE EInv'
    BY <2>2, NoChoiceType, UnaskedServes DEF SubmitMulligan, ChoiceOf
  <2> QED
    BY <1>1, <2>1, <2>2 DEF SetupStep
<1>2. CASE AdvancePhase \/ EndMainPhase \/ StartNextTurn
  <2>1. phase \in TurnPhases => choice.kind # "success_live"
    BY DEF IInv, AskedInJudgment, TurnPhases
  <2>2. /\ phase' \in TurnPhases \cup {"live_set_first"}
        /\ choice' = choice \/ choice' = NoChoice
        /\ phase \in TurnPhases \/ choice' = NoChoice
    BY <1>2 DEF AdvancePhase, EndMainPhase, StartNextTurn, Transition, TurnPhases
  <2> QED
    BY <2>1, <2>2, NoChoiceType, UnaskedServes DEF TurnPhases
<1>3. CASE LiveStep
  <2>1. ASSUME NEW S \in SUBSET Card, SetLiveCards(S) PROVE EInv'
    BY <2>1, UnaskedServes DEF SetLiveCards, IInv, AskedInJudgment
  <2>2. ASSUME NEW T \in SUBSET Invocation, Perform(T) PROVE EInv'
    <3>1. /\ choice' = choice /\ choice.kind # "success_live"
          /\ phase' \in PerformancePhases \cup YellPhases
      BY <2>2 DEF Perform, MayAdvance, PerformancePhases, YellPhases
    <3> QED
      BY <3>1, UnaskedServes DEF PerformancePhases, YellPhases
  <2>3. ASSUME NEW ok \in BOOLEAN, YellAsks \/ YellDecides(ok) \/ OrderRequirements(ok)
        PROVE  EInv'
    <3>1. /\ phase' \in YellPhases \cup {"performance_second", "live_judgment"}
          /\ choice'.kind # "success_live"
      BY <2>3, NoChoiceType
      DEF YellAsks, YellDecides, OrderRequirements, MayAdvance, AfterYell, ChoiceOf, BInv,
          ChoicePhase
    <3> QED
      BY <3>1, UnaskedServes DEF YellPhases
  <2> QED
    BY <1>3, <2>1, <2>2, <2>3, BeginJudgmentServes, ChooseSuccessLiveServes DEF LiveStep
<1> QED
  BY <1>1, <1>2, <1>3 DEF PhaseStep

\* When a judgment is over every winner who was allowed to place a card did,
\* although the loops over the winners are left and entered again at every
\* choice.  A live card moved away by hand meanwhile leaves a winner nothing to
\* place, and a success live moved away frees, too late, one who was passed
\* over because of a tie at match point: those adjustments are excluded.  A
\* departure that makes the judgment run twice determines the winners again, and
\* serves those.
THEOREM EligiblePlacedHolds ==
  ASSUME Adjustments \cap {"live_move", "success_move"} = {}
  PROVE  Spec => []EligiblePlaced
<1>1. Init => EInv
  BY NoChoiceType DEF Init, EInv, StillWaiting, AllServed, Ended
<1>2. ASSUME IInv, QInv, BInv, EInv, [Next]_vars PROVE EInv'
  <2>1. CASE UNCHANGED vars
    BY <1>2, <2>1, SameServes DEF vars
  <2> QED
    BY <1>2, <2>1, StepKinds, WorkedServes, QuietServes, PhaseStepServes
<1>3. EInv => EligiblePlaced
  BY DEF EInv, AllServed, Served, EligiblePlaced
<1>4. Spec => []BInv
  BY BelowInductive
<1> QED
  BY <1>1, <1>2, <1>3, <1>4, Inductive, QueueInductive, PTL DEF Spec

-----------------------------------------------------------------------------
(***************************************************************************)
(* Bluffs.  The cards are revealed when a performance begins, before its   *)
(* effects are queued, so an effect that waits in a performance phase says *)
(* that the performer's area holds lives only.  Four adjustments by hand   *)
(* break this and are excluded: the end of a queue that was filled by a    *)
(* departure, or of an inspection by hand, leads to the yell without a     *)
(* reveal, and a card moved by hand into a live or a success area is       *)
(* looked at by nobody (_manual_move_card, 12691 and 12694).               *)
(***************************************************************************)
Revealing(z) ==
    /\ \A p \in Player : z.success[p] \subseteq LiveCard
    /\ phase \in {"yell_first", "performance_second"} => z.live[first] \subseteq LiveCard
    /\ phase \in {"yell_second", "live_judgment"} =>
          \A p \in Player : z.live[p] \subseteq LiveCard
RevealedInQueue ==
    phase \in PerformancePhases /\ fx.pending # {} => zones.live[active] \subseteq LiveCard
InspectionsBound == choice.kind = "manual" => choice.inv # NoInvocation
RInv == Revealing(zones) /\ RevealedInQueue /\ InspectionsBound

\* The players whose turn it is in a performance or a yell.
LEMMA Performer ==
  ASSUME IInv
  PROVE  /\ phase \in {"performance_first", "yell_first"} => active = first /\ first \in Player
         /\ phase \in {"performance_second", "yell_second"} =>
               active = second /\ first \in Player /\ second \in Player
         /\ phase \in PerformancePhases \cup YellPhases =>
               active \in Player /\ Player = {first, second}
  BY PlayersAssumption
  DEF IInv, Seated, FirstPhases, SecondPhases, PerformancePhases, YellPhases, second, Opp, Player

\* The judgment moves live cards to the success areas and to the waiting room.
LEMMA FinishReveals ==
  ASSUME phase = "live_judgment", NEW z \in ZonesType, NEW f, NEW remaining,
         \A p \in Player : z.live[p] \subseteq LiveCard /\ z.success[p] \subseteq LiveCard,
         FinishJudgmentChoices(z, remaining, f)
  PROVE  RInv'
<1>1. \A S : \A p \in Player : /\ Placed(z, S).live[p] \subseteq LiveCard
                               /\ Placed(z, S).success[p] \subseteq LiveCard
  BY PlacedAreas
<1>2. CASE \E k \in DOMAIN remaining : AskedAt(z, remaining, f, k)
  <2>1. /\ choice'.kind = "success_live" /\ phase' = phase
        /\ \A p \in Player : /\ zones'.live[p] \subseteq LiveCard
                             /\ zones'.success[p] \subseteq LiveCard
    BY <1>1, <1>2 DEF AskedAt, ChoiceOf
  <2> QED
    BY <2>1 DEF RInv, Revealing, RevealedInQueue, InspectionsBound, PerformancePhases
<1>3. CASE CompleteJudgment(Placed(z, Range(remaining)), f)
  <2> DEFINE y == Placed(z, Range(remaining))
  <2>1. y \in ZonesType /\ \A p \in Player : y.success[p] \subseteq LiveCard
    BY <1>1, PlacedType
  <2> HIDE DEF y
  <2>2. /\ phase' \in {"turn_complete", "complete"} /\ choice'.kind = "none"
        /\ zones'.success = y.success
    BY <1>3, <2>1, NoChoiceType DEF CompleteJudgment, Cleared, ZonesType, y
  <2> QED
    BY <2>1, <2>2 DEF RInv, Revealing, RevealedInQueue, InspectionsBound, PerformancePhases
<1> QED
  BY <1>2, <1>3, FinishCases

LEMMA WorkedReveals ==
  ASSUME Adjustments \cap {"live_move", "success_move"} = {}, IInv, QInv, RInv, Worked
  PROVE  RInv'
<1>1. PICK f, ch, z : WorkedOn(f, ch, z)
  BY DEF Worked
<1>2. /\ Settle(f, ch, z) /\ ch \in {choice, NoChoice} /\ z \in ZonesType
      /\ z.live = zones.live /\ z.success = zones.success /\ UNCHANGED first
  BY <1>1 DEF WorkedOn
<1>3. phase \in PerformancePhases => fx.pending # {}
  BY <1>1 DEF WorkedOn, RInv, InspectionsBound, PerformancePhases
<1>4. InspectionsBound /\ (ch.kind = "manual" => ch.inv # NoInvocation)
  BY <1>2, NoChoiceType DEF RInv, InspectionsBound
<1>5. PICK g \in AutoRun(f, ch, z) :
       \/ /\ phase \in PerformancePhases
          /\ phase' = IF phase = "performance_first" THEN "yell_first" ELSE "yell_second"
          /\ choice' = ch /\ zones' = z
       \/ phase = "live_judgment" /\ Judge(z, g)
       \/ choice' = ch /\ zones' = z /\ UNCHANGED <<phase, active>>
  BY <1>2 DEF Settle
<1>6. CASE /\ phase \in PerformancePhases
           /\ phase' = IF phase = "performance_first" THEN "yell_first" ELSE "yell_second"
           /\ choice' = ch /\ zones' = z
  <2>1. zones.live[active] \subseteq LiveCard
    BY <1>3, <1>6 DEF RInv, RevealedInQueue
  <2>2. Revealing(zones)'
    <3>1. CASE phase = "performance_first"
      BY <1>2, <1>6, <2>1, <3>1, Performer DEF RInv, Revealing
    <3>2. CASE phase = "performance_second"
      BY <1>2, <1>6, <2>1, <3>2, Performer DEF RInv, Revealing, YellPhases, PerformancePhases
    <3> QED
      BY <1>6, <3>1, <3>2 DEF PerformancePhases
  <2> QED
    BY <1>4, <1>6, <2>2 DEF RInv, RevealedInQueue, InspectionsBound, PerformancePhases
<1>7. CASE phase = "live_judgment" /\ Judge(z, g)
  <2>1. \E S : FinishJudgmentChoices(z, InTurnOrder(S), g)
    BY <1>7 DEF Judge
  <2>2. \A p \in Player : z.live[p] \subseteq LiveCard /\ z.success[p] \subseteq LiveCard
    BY <1>2, <1>7 DEF RInv, Revealing
  <2> QED
    BY <1>2, <1>7, <2>1, <2>2, FinishReveals
<1>8. CASE choice' = ch /\ zones' = z /\ UNCHANGED <<phase, active>>
  BY <1>2, <1>3, <1>4, <1>8 DEF RInv, Revealing, RevealedInQueue, InspectionsBound
<1> QED
  BY <1>5, <1>6, <1>7, <1>8

LEMMA QuietReveals ==
  ASSUME Adjustments \cap {"stage_departure", "inspect", "live_move", "success_move"} = {},
         IInv, QInv, QInv', RInv, Quiet
  PROVE  RInv'
<1>1. Revealing(zones)'
  BY DEF Quiet, RInv, Revealing
<1>2. RevealedInQueue'
  <2>1. phase \in PerformancePhases /\ fx.pending = {} => fx'.pending = {}
    BY DEF Quiet, PerformancePhases
  <2> QED
    BY <2>1 DEF Quiet, RInv, RevealedInQueue
<1>3. InspectionsBound'
  <2>1. NoInvocation \notin fx'.pending
    BY EffectsAssumption DEF QInv, Sound, FxOK, FxType
  <2> QED
    BY <2>1 DEF Quiet, RInv, InspectionsBound
<1> QED
  BY <1>1, <1>2, <1>3 DEF RInv

\* A step after which no effect waits and no inspection was opened.
LEMMA IdleReveals ==
  ASSUME RInv, Revealing(zones)', fx'.pending = {} \/ phase' \notin PerformancePhases,
         choice' = choice \/ choice'.kind # "manual"
  PROVE  RInv'
  BY DEF RInv, RevealedInQueue, InspectionsBound

LEMMA PerformReveals ==
  ASSUME IInv, QInv, RInv, NEW T \in SUBSET Invocation, Perform(T)
  PROVE  RInv'
<1>1. PICK g \in AutoRun(Queue(fx, T), choice, [zones EXCEPT !.live[active] = Revealed(active)]) :
          /\ fx' = g
          /\ phase' = IF g.pending # {} THEN phase
                      ELSE IF phase = "performance_first" THEN "yell_first"
                      ELSE "yell_second"
  BY DEF Perform
<1>2. phase \in PerformancePhases /\ UNCHANGED <<first, active, choice>>
  BY DEF Perform
<1>3. /\ active \in Player /\ Player = {first, second}
      /\ phase = "performance_first" => active = first
      /\ phase = "performance_second" => active = second
  BY <1>2, Performer DEF PerformancePhases
<1>4. /\ zones'.live[active] \subseteq LiveCard /\ zones'.success = zones.success
      /\ \A p \in Player : zones'.live[p] \subseteq zones.live[p]
  BY <1>3, QFacts DEF Perform, Revealed, ZonesType
<1>5. Revealing(zones)'
  <2>1. CASE phase = "performance_first"
    BY <1>1, <1>2, <1>3, <1>4, <2>1 DEF RInv, Revealing
  <2>2. CASE phase = "performance_second"
    <3>1. zones.live[first] \subseteq LiveCard
      BY <2>2 DEF RInv, Revealing
    <3> QED
      BY <1>1, <1>2, <1>3, <1>4, <2>2, <3>1 DEF RInv, Revealing
  <2> QED
    BY <1>2, <2>1, <2>2 DEF PerformancePhases
<1> QED
  BY <1>2, <1>4, <1>5 DEF RInv, RevealedInQueue, InspectionsBound

LEMMA YellReveals ==
  ASSUME IInv, QInv, ChoicePhase, RInv, NEW ok \in BOOLEAN,
         YellAsks \/ YellDecides(ok) \/ OrderRequirements(ok)
  PROVE  RInv'
<1>1. phase \in YellPhases /\ fx.pending = {} /\ fx' = fx /\ UNCHANGED first
  BY DEF YellAsks, YellDecides, OrderRequirements, ChoicePhase, MayAdvance, QueueEmpty
<1>2. \A p \in Player \cup {NoPlayer} : ApplyRequirements(p, ok) =>
         /\ zones'.success = zones.success
         /\ \A q \in Player : zones'.live[q] \subseteq zones.live[q]
  BY QFacts DEF ApplyRequirements, ZonesType
<1>3. /\ active \in Player \cup {NoPlayer} /\ choice.player \in Player \cup {NoPlayer}
      /\ first \in Player
  BY <1>1, QFacts, Performer DEF IInv, TypeOK, ChoiceType, YellPhases
<1>4. /\ zones'.success = zones.success
      /\ \A q \in Player : zones'.live[q] \subseteq zones.live[q]
  BY <1>2, <1>3 DEF YellAsks, YellDecides, OrderRequirements
<1>5. \/ phase' = phase
      \/ phase = "yell_first" /\ phase' = "performance_second"
      \/ phase = "yell_second" /\ phase' = "live_judgment"
  BY <1>1 DEF YellAsks, YellDecides, OrderRequirements, AfterYell, YellPhases
<1>6. Revealing(zones)'
  BY <1>1, <1>3, <1>4, <1>5 DEF RInv, Revealing, YellPhases
<1>7. choice' = choice \/ choice'.kind # "manual"
  BY NoChoiceType DEF YellAsks, YellDecides, OrderRequirements, ChoiceOf
<1> QED
  BY <1>1, <1>6, <1>7, IdleReveals

LEMMA BeginJudgmentReveals ==
  ASSUME IInv, QInv, RInv, NEW T \in SUBSET Invocation, BeginJudgment(T)
  PROVE  RInv'
<1> DEFINE z == [zones EXCEPT !.moved = [p \in Player |-> {}]]
           f == [fx EXCEPT !.blocked = FALSE]
<1>1. PICK g \in AutoRun(Queue(f, T), choice, z) :
         IF g.pending # {} THEN zones' = z /\ UNCHANGED <<phase, choice>> ELSE Judge(z, g)
  BY DEF BeginJudgment
<1>2. phase = "live_judgment" /\ UNCHANGED first
  BY DEF BeginJudgment
<1>3. z \in ZonesType /\ z.live = zones.live /\ z.success = zones.success
  BY QFacts DEF ZonesType
<1> HIDE DEF z
<1>4. \A p \in Player : z.live[p] \subseteq LiveCard /\ z.success[p] \subseteq LiveCard
  BY <1>2, <1>3 DEF RInv, Revealing
<1>5. CASE g.pending # {}
  <2>1. Revealing(zones)'
    BY <1>1, <1>2, <1>3, <1>5 DEF RInv, Revealing
  <2> QED
    BY <1>1, <1>2, <1>5, <2>1, IdleReveals DEF PerformancePhases
<1>6. CASE g.pending = {}
  <2>1. \E S : FinishJudgmentChoices(z, InTurnOrder(S), g)
    BY <1>1, <1>6 DEF Judge
  <2> QED
    BY <1>2, <1>3, <1>4, <2>1, FinishReveals
<1> QED
  BY <1>5, <1>6

LEMMA ChooseSuccessLiveReveals ==
  ASSUME IInv, QInv, RInv, NEW c \in Card, ChooseSuccessLive(c)
  PROVE  RInv'
<1> DEFINE p == choice.player
           z == [zones EXCEPT !.live[p] = @ \ {c}, !.success[p] = @ \cup {c},
                              !.moved[p] = @ \cup {c}]
<1>1. /\ phase = "live_judgment" /\ c \in zones.live[p]
      /\ FinishJudgmentChoices(z, choice.rest, fx)
  BY DEF ChooseSuccessLive, IInv, AskedInJudgment
<1>2. \A q \in Player : zones.live[q] \subseteq LiveCard /\ zones.success[q] \subseteq LiveCard
  BY <1>1 DEF RInv, Revealing
<1>3. z \in ZonesType
  BY QFacts DEF ZonesType
<1>4. ASSUME NEW q \in Player PROVE z.live[q] \subseteq LiveCard /\ z.success[q] \subseteq LiveCard
  <2>1. CASE q = p
    <3>1. z.live[q] = zones.live[q] \ {c} /\ z.success[q] = zones.success[q] \cup {c}
      BY <2>1, QFacts DEF ZonesType
    <3> HIDE DEF z
    <3> QED
      BY <1>1, <1>2, <2>1, <3>1
  <2>2. CASE q # p
    <3>1. z.live[q] = zones.live[q] /\ z.success[q] = zones.success[q]
      BY <2>2, QFacts DEF ZonesType
    <3> HIDE DEF z
    <3> QED
      BY <1>2, <3>1
  <2> QED
    BY <2>1, <2>2
<1> HIDE DEF z
<1> QED
  BY <1>1, <1>3, <1>4, FinishReveals

LEMMA PhaseStepReveals ==
  ASSUME IInv, QInv, ChoicePhase, RInv, PhaseStep
  PROVE  RInv'
<1>1. CASE SetupStep
  <2>1. /\ phase' \in {"setup_mulligan_first", "setup_mulligan_second", "first_active"}
        /\ zones' = zones /\ choice'.kind # "manual"
    BY <1>1, NoChoiceType DEF SetupStep, ChooseFirstPlayer, SubmitMulligan, ChoiceOf
  <2>2. Revealing(zones)'
    BY <2>1 DEF RInv, Revealing
  <2> QED
    BY <2>1, <2>2, IdleReveals DEF PerformancePhases
<1>2. CASE AdvancePhase \/ EndMainPhase \/ StartNextTurn
  <2>1. /\ phase' \in TurnPhases \cup {"live_set_first"}
        /\ zones'.success = zones.success
        /\ choice' = choice \/ choice'.kind # "manual"
    BY <1>2, QFacts, NoChoiceType
    DEF AdvancePhase, EndMainPhase, StartNextTurn, Transition, TurnPhases, ZonesType
  <2>2. Revealing(zones)'
    BY <2>1 DEF RInv, Revealing, TurnPhases
  <2> QED
    BY <2>1, <2>2, IdleReveals DEF PerformancePhases, TurnPhases
<1>3. ASSUME NEW S \in SUBSET Card, SetLiveCards(S) PROVE RInv'
  <2>1. /\ phase' \in {"live_set_second", "performance_first"} /\ choice' = choice
        /\ zones'.success = zones.success /\ fx'.pending = {}
    BY <1>3, QFacts DEF SetLiveCards, QueueEmpty, ZonesType
  <2>2. Revealing(zones)'
    BY <2>1 DEF RInv, Revealing
  <2> QED
    BY <2>1, <2>2, IdleReveals
<1> QED
  BY <1>1, <1>2, <1>3, PerformReveals, YellReveals, BeginJudgmentReveals,
     ChooseSuccessLiveReveals DEF PhaseStep, LiveStep

\* A card set face down as a bluff is out of the live area before the yell
\* counts for it, is never judged and never reaches a success area, on every
\* way into a yell phase: at once, after the queue of the performance, or after
\* the choices of its effects (rule 10.5.1, _reveal_current_live_cards).  The
\* four kinds of adjustments assumed away are those the invariant above names.
THEOREM RevealedBeforeScoredHolds ==
  ASSUME Adjustments \cap {"stage_departure", "inspect", "live_move", "success_move"} = {}
  PROVE  Spec => []RevealedBeforeScored
<1>1. Init => RInv
  BY NoChoiceType
  DEF Init, RInv, Revealing, RevealedInQueue, InspectionsBound, NoZones, PerformancePhases
<1>2. ASSUME IInv, QInv, QInv', BInv, RInv, [Next]_vars PROVE RInv'
  <2>1. CASE UNCHANGED vars
    BY <1>2, <2>1 DEF vars, RInv, Revealing, RevealedInQueue, InspectionsBound
  <2>2. ChoicePhase
    BY <1>2 DEF BInv
  <2> QED
    BY <1>2, <2>1, <2>2, StepKinds, WorkedReveals, QuietReveals, PhaseStepReveals
<1>3. RInv => RevealedBeforeScored
  BY DEF RInv, Revealing, RevealedBeforeScored
<1>4. Spec => []BInv
  BY BelowInductive
<1> QED
  BY <1>1, <1>2, <1>3, <1>4, Inductive, QueueInductive, PTL DEF Spec
=============================================================================
