------------------------------ MODULE CardZones ------------------------------
(***************************************************************************)
(* The cards of one player: the deck, the hand and the other zones of      *)
(* PlayerState, the Member Area with the cards attached under its members, *)
(* and what the engine keeps beside the cards and must keep in step with   *)
(* them: the modifiers aimed at a card, the record of who entered the      *)
(* stage this turn, and the history of the members readied by effects.     *)
(*                                                                         *)
(* A step is one accepted request, or one entry of a manual adjustment     *)
(* (each entry leaves the stage as the next one needs it).  The policies   *)
(* are those every new match gets (service.py:110-125).  Which card an     *)
(* effect moves is a free choice among those its operation accepts; costs  *)
(* and orientations are left out.  The order of the main deck is left      *)
(* out too: it is shuffled, and a draw takes any of its cards.             *)
(*                                                                         *)
(* Live cards are not told apart: every zone below but the success area    *)
(* is open to any card, and only the stage asks for a card's type.         *)
(***************************************************************************)
EXTENDS Naturals, FiniteSets

CONSTANTS
    Member,     \* the player's member cards
    Energy,     \* the player's energy cards
    Slot,       \* the member areas: left, center, right
    Nothing,    \* Python's None in member_area
    Moves,      \* bound: the <<card, zone>> pairs that players move by hand
    MaxDeal,    \* bound: the most cards one operation takes from the deck
    MaxReady    \* bound: how many tokens the ready history issues in a turn

Card == Member \cup Energy
Zone == {"main_deck", "hand", "waiting_room", "resolution_area", "live_area",
         "energy_deck", "energy_area"}
Parts == {"setup", "main", "live", "complete"}

ASSUME CardAssumption ==
    /\ IsFiniteSet(Card)
    /\ Member \cap Energy = {}
    /\ Nothing \notin Card
ASSUME BoundAssumption == Moves \subseteq Card \X Zone /\ MaxDeal \in Nat /\ MaxReady \in Nat

VARIABLES
    table,     \* zone, member_area, member_area_attachments, modifiers, ready history
    entered,   \* member_card_instance_ids_entered_stage_this_turn
    part,      \* how far the turn is: MatchFlow has the phases in full
    replaced,  \* queued effects of members played by baton touch: <<source, replaced>>
    choice,    \* the pending inspection: who opened it and the cards it shows
    arrived,   \* auxiliary: members on stage that came from elsewhere this turn
    readied    \* auxiliary: members readied by an effect during this stay on stage

vars == <<table, entered, part, replaced, choice, arrived, readied>>

NoChoice == [by |-> "none", cards |-> {}]
NoToken == 0

(* ------------------------- reading a table ----------------------------- *)

Tops(t) == {t.area[s] : s \in Slot} \ {Nothing}
Attached(t) == UNION {t.under[s] : s \in Slot}
Staged(t) == (Tops(t) \cup Attached(t)) \cap Member
SlotOf(t, c) == CHOOSE s \in Slot : t.area[s] = c
UnderOf(t, c) == CHOOSE s \in Slot : c \in t.under[s]

(* current_effect_readied_members: the tops whose token has an event *)
EffectReadied(t) == {c \in Tops(t) : <<c, t.object[c]>> \in t.events}

(* mutant: only the top member is looked at, not the cards under it *)
BlocksEntryTopOnly(t, in, s) == t.area[s] \in in

(* _member_area_blocks_entry *)
BlocksEntry(t, in, s) == (t.under[s] \cup {t.area[s]}) \cap in # {}

(* -------- the helpers of engine.py, each from a table to a table -------- *)

Put(t, z, C) == [t EXCEPT !.zone[z] = @ \cup C]
Take(t, z, C) == [t EXCEPT !.zone[z] = @ \ C]
Move(t, y, z, C) == Put(Take(t, y, C), z, C)

(* mutant: the object outlives the stay *)
ForgetNothing(object, C) == object

(* mark_ready_departure: the object of a card that left is forgotten *)
Forget(object, C) == [c \in Member |-> IF c \in C THEN NoToken ELSE object[c]]

(* _clear_departed_card_modifiers *)
ClearDeparted(t, C) ==
    [t EXCEPT !.mods = @ \ C, !.object = Forget(@, C)]

(* _clean_stage_attachments: members to the waiting room, energy to its deck *)
CleanAttachments(t, s) ==
    LET C == t.under[s] IN
    ClearDeparted(
        Put(Put([t EXCEPT !.under[s] = @ \ C], "waiting_room", C \cap Member),
            "energy_deck", C \cap Energy), C)

(* _move_top_member_off_stage *)
OffStage(t, s) ==
    LET c == t.area[s] IN
    ClearDeparted(Put([CleanAttachments(t, s) EXCEPT !.area[s] = Nothing],
                      "waiting_room", {c}), {c})

(* mutant: a member replaced without baton touch keeps what was recorded of it *)
ReplaceKeeping(t, s, c) ==
    LET old == t.area[s]
        in  == [t EXCEPT !.area[s] = c]
    IN  IF old = Nothing THEN in ELSE Put(CleanAttachments(in, s), "waiting_room", {old})

(* The new member is already in the area when the old one is cleared away. *)
Replace(t, s, c) ==
    LET old == t.area[s]
        in  == [t EXCEPT !.area[s] = c]
    IN  IF old = Nothing THEN in
        ELSE ClearDeparted(Put(CleanAttachments(in, s), "waiting_room", {old}), {old})

(* _remove_from_player_zones *)
Lift(t, c) ==
    [t EXCEPT !.zone = [z \in Zone |-> t.zone[z] \ {c}],
              !.area = [s \in Slot |-> IF t.area[s] = c THEN Nothing ELSE t.area[s]]]

(* _position_change, and a group moved to an empty area *)
Swap(t, s, u) ==
    [t EXCEPT !.area = [@ EXCEPT ![s] = t.area[u], ![u] = t.area[s]],
              !.under = [@ EXCEPT ![s] = t.under[u], ![u] = t.under[s]]]

(* mutant: a draw that empties the deck does not refresh it *)
DealtLazily(deck, waiting, n, eager) ==
    LET k == Cardinality(deck)
        w == Cardinality(waiting)
        rest == IF n - k < w THEN n - k ELSE w
    IN  IF n <= k
        THEN {[taken |-> T, deck |-> deck \ T, waiting |-> waiting] :
                  T \in {X \in SUBSET deck : Cardinality(X) = n}}
        ELSE {[taken |-> deck \cup T, deck |-> waiting \ T, waiting |-> {}] :
                  T \in {X \in SUBSET waiting : Cardinality(X) = rest}}

(* What n cards taken from the top of the deck may be, and the deck and the *)
(* waiting room they leave behind.  _take_main_deck_card refreshes an empty *)
(* deck when a further card is asked for; _draw (eager) as soon as a card   *)
(* it drew was the last one.                                                *)
Dealt(deck, waiting, n, eager) ==
    LET k == Cardinality(deck)
        w == Cardinality(waiting)
        rest == IF n - k < w THEN n - k ELSE w
    IN  IF n = 0 \/ n < k \/ (n = k /\ ~eager)
        THEN {[taken |-> T, deck |-> deck \ T, waiting |-> waiting] :
                  T \in {X \in SUBSET deck : Cardinality(X) = n}}
        ELSE {[taken |-> deck \cup T, deck |-> waiting \ T, waiting |-> {}] :
                  T \in {X \in SUBSET waiting : Cardinality(X) = rest}}

(* The tables after n cards went from the deck to zone z. *)
Deals(t, n, eager, z) ==
    {Put([t EXCEPT !.zone["main_deck"] = d.deck, !.zone["waiting_room"] = d.waiting],
         z, d.taken) :
        d \in Dealt(t.zone["main_deck"], t.zone["waiting_room"], n, eager)}

(* -------------------------------- steps --------------------------------- *)

(* The table becomes t.  The auxiliary variables follow the cards alone:    *)
(* they never look at what the engine records.                              *)
Becomes(t) ==
    /\ table' = t
    /\ arrived' = (arrived \cup (Staged(t) \ Staged(table))) \cap Staged(t)
    /\ readied' = readied \cap Staged(t)

Enters(c) == entered' = entered \cup {c}

Table == [zone : [Zone -> SUBSET Card],
          area : [Slot -> Member \cup {Nothing}],
          under : [Slot -> SUBSET Card],
          mods : SUBSET Member,
          object : [Member -> Nat],
          next : Nat,
          events : SUBSET (Member \X Nat)]

TypeOK ==
    /\ table \in Table
    /\ entered \subseteq Member
    /\ part \in Parts
    /\ replaced \subseteq Member \X Member
    /\ choice \in [by : {"none", "manual", "effect"}, cards : SUBSET Card]
    /\ arrived \subseteq Member
    /\ readied \subseteq Member

(* The first hand is dealt: any members in hand, the others in the deck.    *)
Init ==
    /\ \E H \in SUBSET Member :
          table = [zone |-> [z \in Zone |-> CASE z = "hand" -> H
                                              [] z = "main_deck" -> Member \ H
                                              [] z = "energy_deck" -> Energy
                                              [] OTHER -> {}],
                   area |-> [s \in Slot |-> Nothing],
                   under |-> [s \in Slot |-> {}],
                   mods |-> {},
                   object |-> [c \in Member |-> NoToken],
                   next |-> 0,
                   events |-> {}]
    /\ entered = {}
    /\ part = "setup"
    /\ replaced = {}
    /\ choice = NoChoice
    /\ arrived = {}
    /\ readied = {}

(* Guards of apply_action: queued effects admit effects and adjustments only. *)
QueueEmpty == replaced = {} /\ choice.by # "effect"
EffectsRun == choice.by = "none" /\ part # "setup"
AdjustmentsRun == choice.by # "effect" /\ part # "setup"

(* _submit_mulligan: the cards given back are in no zone during the draw    *)
SubmitMulligan(C) ==
    /\ part = "setup"
    /\ C \subseteq table.zone["hand"]
    /\ Cardinality(C) <= MaxDeal
    /\ \E t \in Deals(Take(table, "hand", C), Cardinality(C), TRUE, "hand") :
          Becomes(Put(t, "main_deck", C))
    /\ part' = "main"
    /\ UNCHANGED <<entered, replaced, choice>>

(* _move_energy_to_area, which the energy phase calls *)
MoveEnergyToArea(C) ==
    /\ part = "main"
    /\ QueueEmpty
    /\ C \subseteq table.zone["energy_deck"]
    /\ Becomes(Move(table, "energy_deck", "energy_area", C))
    /\ UNCHANGED <<entered, part, replaced, choice>>

(* _draw, called by the draw phase, by effects and by manual adjustments    *)
Draw(n) ==
    /\ AdjustmentsRun
    /\ \E t \in Deals(table, n, TRUE, "hand") : Becomes(t)
    /\ UNCHANGED <<entered, part, replaced, choice>>

(* _play_member without baton touch: an occupant is replaced *)
PlayMember(c, s) ==
    /\ part = "main"
    /\ QueueEmpty
    /\ c \in table.zone["hand"] \cap Member
    /\ ~BlocksEntry(table, entered, s)
    /\ Becomes(Replace(Take(table, "hand", {c}), s, c))
    /\ Enters(c)
    /\ UNCHANGED <<part, replaced, choice>>

(* _play_member with baton touch: the occupant leaves first, and an effect  *)
(* of the new member may be queued that names it.                           *)
BatonTouch(c, s) ==
    /\ part = "main"
    /\ QueueEmpty
    /\ c \in table.zone["hand"] \cap Member
    /\ table.area[s] # Nothing
    /\ ~BlocksEntry(table, entered, s)
    /\ Becomes([OffStage(Take(table, "hand", {c}), s) EXCEPT !.area[s] = c])
    /\ Enters(c)
    /\ replaced' \in {{}, {<<c, table.area[s]>>}}
    /\ UNCHANGED <<part, choice>>

(* _set_live_cards: up to three cards, and as many are drawn *)
SetLiveCards(C) ==
    /\ part = "main"
    /\ QueueEmpty
    /\ C \subseteq table.zone["hand"]
    /\ Cardinality(C) <= 3
    /\ \E t \in Deals(Move(table, "hand", "live_area", C), Cardinality(C), TRUE, "hand") :
          Becomes(t)
    /\ part' = "live"
    /\ UNCHANGED <<entered, replaced, choice>>

(* _run_current_yell: n cards are revealed, m of their icons draw a card *)
Yell(n, m) ==
    /\ part = "live"
    /\ QueueEmpty
    /\ table.zone["live_area"] # {}
    /\ m <= n
    /\ \E t \in Deals(table, n, FALSE, "resolution_area") :
          \E u \in Deals(t, m, TRUE, "hand") : Becomes(u)
    /\ UNCHANGED <<entered, part, replaced, choice>>

(* _cleanup_live_judgment_zones; the judgment ends with no choice pending *)
FinishLiveJudgment ==
    /\ part = "live"
    /\ QueueEmpty
    /\ LET C == table.zone["live_area"] \cup table.zone["resolution_area"] IN
       Becomes([table EXCEPT !.zone["live_area"] = {},
                             !.zone["resolution_area"] = {},
                             !.zone["waiting_room"] = @ \cup C])
    /\ choice' = NoChoice
    /\ part' = "complete"
    /\ UNCHANGED <<entered, replaced>>

(* _start_next_turn.  Tokens go on counting in the code; here they start    *)
(* again, as no event and no object of an earlier turn is left.             *)
StartNextTurn ==
    /\ part = "complete"
    /\ QueueEmpty
    /\ table' = [table EXCEPT !.mods = {},
                              !.object = [c \in Member |-> NoToken],
                              !.next = 0,
                              !.events = {}]
    /\ entered' = {}
    /\ choice' = NoChoice
    /\ part' = "main"
    /\ arrived' = {}
    /\ readied' = {}
    /\ UNCHANGED replaced

(* --------------------------- manual adjustments ------------------------- *)

(* discard_card, and the effect operation discard_from_hand *)
DiscardCard(c) ==
    /\ AdjustmentsRun
    /\ c \in table.zone["hand"]
    /\ Becomes(Move(table, "hand", "waiting_room", {c}))
    /\ UNCHANGED <<entered, part, replaced, choice>>

(* return_from_waiting_room, of a player or of an effect *)
ReturnFromWaitingRoom(c) ==
    /\ AdjustmentsRun
    /\ c \in table.zone["waiting_room"]
    /\ Becomes(Move(table, "waiting_room", "hand", {c}))
    /\ UNCHANGED <<entered, part, replaced, choice>>

(* mutant: a member moved off the stage leaves its attachments behind *)
MoveToZoneAlone(c, z) ==
    /\ AdjustmentsRun
    /\ <<c, z>> \in Moves
    /\ c \notin Attached(table)
    /\ Becomes(IF c \in Tops(table) THEN ClearDeparted(Put(Lift(table, c), z, {c}), {c})
                                    ELSE Put(Lift(table, c), z, {c}))
    /\ UNCHANGED <<entered, part, replaced, choice>>

(* _manual_move_card to one of the simple zones: from another zone or from  *)
(* the top of an area, whose attachments are cleaned first.                 *)
MoveToZone(c, z) ==
    /\ AdjustmentsRun
    /\ <<c, z>> \in Moves
    /\ c \notin Attached(table)
    /\ IF c \in Tops(table)
       THEN Becomes(ClearDeparted(
                Put(Lift(CleanAttachments(table, SlotOf(table, c)), c), z, {c}), {c}))
       ELSE Becomes(Put(Lift(table, c), z, {c}))
    /\ UNCHANGED <<entered, part, replaced, choice>>

(* _manual_move_card to an empty area: a member group moves, or a member    *)
(* enters the stage.                                                        *)
MoveToArea(c, s) ==
    /\ AdjustmentsRun
    /\ c \in Member \ Attached(table)
    /\ table.area[s] = Nothing
    /\ IF c \in Tops(table)
       THEN /\ Becomes(Swap(table, SlotOf(table, c), s))
            /\ UNCHANGED entered
       ELSE /\ Becomes([Lift(table, c) EXCEPT !.area[s] = c])
            /\ Enters(c)
    /\ UNCHANGED <<part, replaced, choice>>

(* mutant: attached energy is recorded as an entry as well *)
AttachUnderRecorded(c, z, s) ==
    /\ AdjustmentsRun
    /\ table.area[s] # Nothing
    /\ c \in table.zone[z]
    /\ z = "waiting_room" => EffectsRun
    /\ \/ c \in Member /\ z \in {"hand", "waiting_room"}
       \/ c \in Energy /\ z = "energy_area"
    /\ Enters(c)
    /\ Becomes([Take(table, z, {c}) EXCEPT !.under[s] = @ \cup {c}])
    /\ UNCHANGED <<part, replaced, choice>>

(* _attach_card_under_member: a member of the hand or energy of its area;   *)
(* with z = "waiting_room" also attach_selected_under_source of an effect.  *)
AttachUnder(c, z, s) ==
    /\ AdjustmentsRun
    /\ table.area[s] # Nothing
    /\ c \in table.zone[z]
    /\ z = "waiting_room" => EffectsRun
    /\ \/ c \in Member /\ z \in {"hand", "waiting_room"} /\ Enters(c)
       \/ c \in Energy /\ z = "energy_area" /\ UNCHANGED entered
    /\ Becomes([Take(table, z, {c}) EXCEPT !.under[s] = @ \cup {c}])
    /\ UNCHANGED <<part, replaced, choice>>

(* _move_attached_card off the stage: a member to the hand or the waiting   *)
(* room, energy to its deck or its area.                                    *)
DetachCard(c, z) ==
    /\ AdjustmentsRun
    /\ c \in Attached(table)
    /\ z \in IF c \in Member THEN {"hand", "waiting_room"}
                             ELSE {"energy_deck", "energy_area"}
    /\ LET t == Put([table EXCEPT !.under[UnderOf(table, c)] = @ \ {c}], z, {c}) IN
       Becomes(IF c \in Member THEN ClearDeparted(t, {c}) ELSE t)
    /\ UNCHANGED <<entered, part, replaced, choice>>

(* _move_attached_card to an empty area, and the effect that deploys a      *)
(* member from source_attachments: the member was on stage all along.       *)
PromoteAttached(c, s) ==
    /\ AdjustmentsRun
    /\ c \in Attached(table) \cap Member
    /\ table.area[s] = Nothing
    /\ Becomes([table EXCEPT !.under[UnderOf(table, c)] = @ \ {c}, !.area[s] = c])
    /\ UNCHANGED <<entered, part, replaced, choice>>

(* _position_change; _formation_change and rotations compose it *)
PositionChange(s, u) ==
    /\ AdjustmentsRun
    /\ s # u
    /\ table.area[s] # Nothing
    /\ Becomes(Swap(table, s, u))
    /\ UNCHANGED <<entered, part, replaced, choice>>

(* --------------------------- inspections -------------------------------- *)

(* inspect_top_cards of a manual adjustment and _begin_effect_inspection:   *)
(* the second refreshes beneath a short deck, which deals the same cards.   *)
InspectTopCards(n, by) ==
    /\ choice.by = "none"
    /\ part # "setup"
    /\ \E t \in Deals(table, n, FALSE, "resolution_area") :
          /\ Becomes(t)
          /\ choice' = [by |-> by,
                        cards |-> t.zone["resolution_area"] \ table.zone["resolution_area"]]
    /\ UNCHANGED <<entered, part, replaced>>

(* _resolve_manual_inspection and _resolve_effect_inspection: an answer is  *)
(* refused unless every card shown is still in the resolution area.         *)
ResolveInspection(C, y, z) ==
    /\ choice.by # "none"
    /\ choice.cards \subseteq table.zone["resolution_area"]
    /\ \/ choice.by = "manual" /\ y = "hand" /\ z = "waiting_room"
       \/ choice.by = "effect" /\ y \in {"hand", "waiting_room", "main_deck"}
                               /\ z \in {"waiting_room", "main_deck"}
    /\ Becomes(Move(Move(table, "resolution_area", y, C),
                    "resolution_area", z, choice.cards \ C))
    /\ choice' = NoChoice
    /\ UNCHANGED <<entered, part, replaced>>

(* _skip_effect, of an inspection: what is still shown is thrown away *)
SkipInspection ==
    /\ choice.by = "effect"
    /\ Becomes(Move(table, "resolution_area", "waiting_room",
                    choice.cards \cap table.zone["resolution_area"]))
    /\ choice' = NoChoice
    /\ UNCHANGED <<entered, part, replaced>>

(* ------------------------------- effects -------------------------------- *)

(* source_to_waiting_room, of a member on stage *)
SourceToWaitingRoom(s) ==
    /\ EffectsRun
    /\ table.area[s] # Nothing
    /\ Becomes(OffStage(table, s))
    /\ UNCHANGED <<entered, part, replaced, choice>>

(* deploy_selected_to_stage: to an area nobody entered this turn.  What it  *)
(* clears beyond _clear_departed_card_modifiers is what that one clears     *)
(* already under the policy of a new match.                                 *)
DeployOver(c, z, s) ==
    /\ EffectsRun
    /\ c \in table.zone[z] \cap Member
    /\ ~BlocksEntry(table, entered, s)
    /\ Becomes(Replace(Take(table, z, {c}), s, c))
    /\ Enters(c)
    /\ UNCHANGED <<part, replaced, choice>>

(* deploy_member and _place_multi_player_member: to an empty area, whether  *)
(* or not a member entered it this turn                                     *)
DeployToEmpty(c, z, s) ==
    /\ EffectsRun
    /\ c \in table.zone[z] \cap Member
    /\ table.area[s] = Nothing
    /\ Becomes([Take(table, z, {c}) EXCEPT !.area[s] = c])
    /\ Enters(c)
    /\ UNCHANGED <<part, replaced, choice>>

(* mutant: the replaced card is taken to be where it went *)
ReturnBatonReplacedBlindly(e) ==
    /\ EffectsRun
    /\ Becomes(Move(table, "waiting_room", "hand", {e[2]}))
    /\ replaced' = replaced \ {e}
    /\ UNCHANGED <<entered, part, choice>>

(* return_baton_replaced_member_to_hand: the card the trigger named may be  *)
(* anywhere by now, so it is asked for in the waiting room.                 *)
ReturnBatonReplaced(e) ==
    /\ EffectsRun
    /\ e[2] \in table.zone["waiting_room"]
    /\ Becomes(Move(table, "waiting_room", "hand", {e[2]}))
    /\ replaced' = replaced \ {e}
    /\ UNCHANGED <<entered, part, choice>>

(* attach_baton_replaced_member_under_source *)
AttachBatonReplaced(e) ==
    /\ EffectsRun
    /\ e[1] \in Tops(table)
    /\ e[2] \in table.zone["waiting_room"]
    /\ Becomes([Take(table, "waiting_room", {e[2]})
                    EXCEPT !.under[SlotOf(table, e[1])] = @ \cup {e[2]}])
    /\ Enters(e[2])
    /\ replaced' = replaced \ {e}
    /\ UNCHANGED <<part, choice>>

(* _skip_effect, of a queued effect *)
SkipEffect(e) ==
    /\ EffectsRun
    /\ replaced' = replaced \ {e}
    /\ UNCHANGED <<table, entered, part, choice, arrived, readied>>

(* gain_blade and its like, aimed at a member on stage or at the source of  *)
(* the effect, which nobody asks to be on stage still; until end of turn    *)
GainModifier(c) ==
    /\ EffectsRun
    /\ c \in Tops(table) \cup {e[1] : e \in replaced}
    /\ Becomes([table EXCEPT !.mods = @ \cup {c}])
    /\ UNCHANGED <<entered, part, replaced, choice>>

(* ready_member with record_member_ready, of a member that was in wait: a   *)
(* member without a token gets a new one.                                   *)
ReadyMember(c) ==
    /\ EffectsRun
    /\ c \in Tops(table)
    /\ table.next < MaxReady
    /\ LET fresh == table.object[c] = NoToken
           token == IF fresh THEN table.next + 1 ELSE table.object[c]
       IN  table' = [table EXCEPT !.next = IF fresh THEN @ + 1 ELSE @,
                                  !.object[c] = token,
                                  !.events = @ \cup {<<c, token>>}]
    /\ readied' = readied \cup {c}
    /\ UNCHANGED <<entered, part, replaced, choice, arrived>>

Next ==
    \/ \E C \in SUBSET Card :
          \/ SubmitMulligan(C)
          \/ MoveEnergyToArea(C)
          \/ SetLiveCards(C)
    \/ \E C \in SUBSET choice.cards, y, z \in {"hand", "waiting_room", "main_deck"} :
          ResolveInspection(C, y, z)
    \/ FinishLiveJudgment
    \/ StartNextTurn
    \/ SkipInspection
    \/ \E n \in 1 .. MaxDeal :
          \/ Draw(n)
          \/ \E m \in 0 .. n : Yell(n, m)
          \/ \E by \in {"manual", "effect"} : InspectTopCards(n, by)
    \/ \E s \in Slot :
          \/ SourceToWaitingRoom(s)
          \/ \E u \in Slot : PositionChange(s, u)
    \/ \E c \in Card :
          \/ \E z \in Zone : MoveToZone(c, z) \/ DetachCard(c, z)
          \/ DiscardCard(c)
          \/ ReturnFromWaitingRoom(c)
          \/ \E z \in Zone, s \in Slot : AttachUnder(c, z, s)
    \/ \E c \in Member :
          \/ GainModifier(c)
          \/ ReadyMember(c)
          \/ \E s \in Slot :
                \/ PlayMember(c, s)
                \/ BatonTouch(c, s)
                \/ MoveToArea(c, s)
                \/ PromoteAttached(c, s)
                \/ \E z \in {"hand", "waiting_room"} :
                      DeployOver(c, z, s) \/ DeployToEmpty(c, z, s)
    \/ \E e \in replaced :
          \/ ReturnBatonReplaced(e)
          \/ AttachBatonReplaced(e)
          \/ SkipEffect(e)

Spec == Init /\ [][Next]_vars

(* ------------------------------ properties ------------------------------ *)

(* Card c is in exactly one place of the table.                             *)
Once(t, c) ==
    /\ \/ \E z \in Zone : c \in t.zone[z]
       \/ \E s \in Slot : t.area[s] = c \/ c \in t.under[s]
    /\ \A y, z \in Zone : c \in t.zone[y] /\ c \in t.zone[z] => y = z
    /\ \A s, u \in Slot : t.area[s] = c /\ t.area[u] = c => s = u
    /\ \A s, u \in Slot : c \in t.under[s] /\ c \in t.under[u] => s = u
    /\ \A s, u \in Slot : ~(t.area[s] = c /\ c \in t.under[u])
    /\ \A z \in Zone, s \in Slot : c \in t.zone[z] => t.area[s] # c /\ c \notin t.under[s]

(* No handler loses a card or leaves it in two places, through refreshes in *)
(* the middle of a draw, cleanings of attachments and effects that act late *)
(* on a card named earlier.                                                 *)
Conserved == \A c \in Card : Once(table, c)

(* The engine's own check after every request (_validate_stage_state) never *)
(* fails: cards are attached only where there is a top member, whatever     *)
(* route the members under and over them took.                              *)
StageSound == \A s \in Slot : table.area[s] = Nothing => table.under[s] = {}

(* A play or a deployment over an area never sends off a member, or a card  *)
(* attached under one, that came to the stage this turn, wherever position  *)
(* changes and promotions have put it since (_member_area_blocks_entry).    *)
KeepsArrivals ==
    [][\A s \in Slot :
          LET c == table'.area[s] IN
          c \in (table.zone["hand"] \cup table.zone["waiting_room"]) =>
              arrived \cap ({table.area[s]} \cup table.under[s]) \subseteq Staged(table')]_vars

(* What is recorded about a card's stay on stage ends with the stay: a      *)
(* member that leaves, on whatever route, leaves with no modifier aimed at  *)
(* it and no object in the ready history.                                   *)
DepartureClears ==
    [][\A c \in Staged(table) \ Staged(table') :
          c \notin table'.mods /\ table'.object[c] = NoToken]_vars

(* The members an effect of this turn counts as readied are exactly those   *)
(* readied since they last came to the stage: leaving and coming back makes *)
(* a new object (current_effect_readied_members).                           *)
ReadiedThisStay == EffectReadied(table) = readied

(* The outcomes of n cards dealt one at a time, as the loops of _draw and   *)
(* of the inspections deal them.                                            *)
Refreshed(o) ==
    IF o.deck = {} THEN [o EXCEPT !.deck = o.waiting, !.waiting = {}] ELSE o

TakeOne(o) ==
    LET p == Refreshed(o) IN
    IF p.deck = {} THEN {p}
    ELSE {[taken |-> p.taken \cup {c}, deck |-> p.deck \ {c}, waiting |-> p.waiting] :
              c \in p.deck}

TakeNext(o, eager) == IF eager THEN {Refreshed(p) : p \in TakeOne(o)} ELSE TakeOne(o)

OneByOne(deck, waiting, n, eager) ==
    LET f[i \in 0 .. n] ==
            IF i = 0 THEN {[taken |-> {}, deck |-> deck, waiting |-> waiting]}
            ELSE UNION {TakeNext(o, eager) : o \in f[i - 1]}
    IN  f[n]

(* Dealing n cards at once, as the steps above do, is dealing them one at a *)
(* time, whatever is left in the deck and the waiting room and whether the  *)
(* refresh comes with the last card or before the next one.                 *)
DealtOneByOne ==
    \A n \in 0 .. MaxDeal, eager \in BOOLEAN :
        LET d == table.zone["main_deck"]
            w == table.zone["waiting_room"]
        IN  Dealt(d, w, n, eager) = OneByOne(d, w, n, eager)
=============================================================================
