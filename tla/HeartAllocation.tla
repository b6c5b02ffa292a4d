---------------------------- MODULE HeartAllocation ----------------------------
(***************************************************************************)
(* How the hearts of a performance are spent on the lives of a player      *)
(* (_apply_live_requirements, with the policy of every new match,          *)
(* preserve_feasibility_v1).  The lives are paid for one after the other,  *)
(* in the order the player chose, each step here being one live: coloured  *)
(* needs first, from hearts of that colour and then from the wild ones;    *)
(* colourless needs from any hearts.  Nothing spent is given back, so a    *)
(* heart spent too freely on one live may be missed by a later one.        *)
(*                                                                         *)
(* Slot 0 is heart0: a colourless need, or a heart of no colour.  Slots    *)
(* count up in the order of their names, in which the code goes through    *)
(* them.  Needs are the effective ones, after modifiers; the pool and the  *)
(* needs are never negative here, which the code asks for before it        *)
(* reserves anything.                                                      *)
(***************************************************************************)
EXTENDS Naturals, FiniteSets, FiniteSetsExt

CONSTANTS
    Live,      \* the lives to be judged
    Colors,    \* how many colours there are
    MaxPool,   \* bound: hearts of one slot at the start
    MaxWild,   \* bound: wild hearts at the start
    MaxNeed    \* bound: hearts of one slot that a live needs

HeartSlot == 0 .. Colors
Color == 1 .. Colors

ASSUME HeartAssumption ==
    /\ IsFiniteSet(Live)
    /\ Colors \in Nat /\ MaxPool \in Nat /\ MaxWild \in Nat /\ MaxNeed \in Nat

VARIABLES
    need,       \* effective required hearts of each live
    pool,       \* available: the hearts not spent yet
    wild,       \* all_color_hearts not spent yet
    left,       \* the lives not paid for yet
    failed,     \* a live could not be paid for: the judgment ended there
    preserve,   \* preserve_feasibility: all lives together can be paid for
    paid,       \* consumed_hearts and all_color_hearts_used of each live
    given       \* auxiliary: the pool and the wild hearts at the start

vars == <<need, pool, wild, left, failed, preserve, paid, given>>

Lesser(m, n) == IF m < n THEN m ELSE n
Short(m, n) == IF m < n THEN n - m ELSE 0     \* how far m is short of n
Total(f) == SumFunctionOnSet(f, HeartSlot)
Needs(K) == [h \in HeartSlot |-> SumFunctionOnSet([l \in Live |-> need[l][h]], K)]
(* The wild hearts that the coloured needs n ask for beside the hearts p.    *)
Lacking(p, n) == SumFunctionOnSet([c \in Color |-> Short(p[c], n[c])], Color)

Nothing == [hearts |-> [h \in HeartSlot |-> 0], wild |-> 0]

(* The check made before the first live: the wild hearts cover what the     *)
(* colours lack, and all hearts together cover all needs.                   *)
Feasible ==
    /\ Lacking(pool, Needs(Live)) <= wild
    /\ Total(Needs(Live)) <= Total(pool) + wild

Init ==
    /\ need \in [Live -> [HeartSlot -> 0 .. MaxNeed]]
    /\ pool \in [HeartSlot -> 0 .. MaxPool]
    /\ wild \in 0 .. MaxWild
    /\ left = Live
    /\ failed = FALSE
    /\ preserve = Feasible
    /\ paid = [l \in Live |-> Nothing]
    /\ given = [hearts |-> pool, wild |-> wild]

(* Coloured needs of l, as far as hearts of their own colour go. *)
Coloured(l) == [h \in HeartSlot |-> IF h = 0 THEN 0 ELSE Lesser(pool[h], need[l][h])]

(* mutant: colourless needs take any heart that is left *)
UsableFreely(l, h) == pool[h] - Coloured(l)[h]

(* What a colourless need of l may take of a slot: when everything can be   *)
(* paid for, the hearts that later lives need for their colour are kept.    *)
Usable(l, h) ==
    LET rest   == pool[h] - Coloured(l)[h]
        future == IF h = 0 THEN 0 ELSE Needs(left \ {l})[h]
    IN  IF preserve THEN Short(future, rest) ELSE rest

(* The colourless needs of l are met slot by slot. *)
Colourless(l) ==
    LET usable == [h \in HeartSlot |-> Usable(l, h)]
        before(h) == SumFunctionOnSet(usable, 0 .. h - 1)
    IN  [h \in HeartSlot |-> Lesser(usable[h], Short(before(h), need[l][0]))]

(* Wild hearts then fill what the coloured and the colourless needs lack. *)
WildForColors(l) == Lacking(pool, need[l])
WildForColourless(l) == Short(Total(Colourless(l)), need[l][0])

(* mutant: the wild hearts of the colourless needs are not counted *)
WildUsedForColors(l) == WildForColors(l)

WildUsed(l) == WildForColors(l) + WildForColourless(l)

PayLive(l) ==
    /\ ~failed
    /\ l \in left
    /\ WildUsed(l) <= wild
    /\ LET spent == [h \in HeartSlot |-> Coloured(l)[h] + Colourless(l)[h]] IN
       /\ pool' = [h \in HeartSlot |-> pool[h] - spent[h]]
       /\ paid' = [paid EXCEPT ![l] = [hearts |-> spent, wild |-> WildUsed(l)]]
    /\ wild' = wild - WildUsed(l)
    /\ left' = left \ {l}
    /\ UNCHANGED <<need, failed, preserve, given>>

(* A need is missing: the judgment stops and all lives fail.  What the live *)
(* took before it was found missing is only reported.                       *)
MissHearts(l) ==
    /\ ~failed
    /\ l \in left
    /\ WildUsed(l) > wild
    /\ failed' = TRUE
    /\ UNCHANGED <<need, pool, wild, left, preserve, paid, given>>

Next == \E l \in Live : PayLive(l) \/ MissHearts(l)

Spec == Init /\ [][Next]_vars

(* ------------------------------ properties ------------------------------ *)

(* w wild hearts and the hearts s pay for live l. *)
Pays(l, s, w) ==
    /\ Total(s) + w = Total(need[l])
    /\ Lacking(s, need[l]) <= w

Stock == [hearts : [HeartSlot -> 0 .. MaxPool], wild : 0 .. MaxWild]

(* y, taken from x, pays for live l. *)
Payment(l, x, y) ==
    /\ \A h \in HeartSlot : y.hearts[h] <= x.hearts[h]
    /\ y.wild <= x.wild
    /\ Pays(l, y.hearts, y.wild)

RestOf(x, y) == [hearts |-> [h \in HeartSlot |-> x.hearts[h] - y.hearts[h]],
                 wild   |-> x.wild - y.wild]

(* The stocks from which l can be paid for and one of Y be left. *)
Before(l, Y) == {x \in Stock : \E y \in Stock : Payment(l, x, y) /\ RestOf(x, y) \in Y}

(* The stocks from which some way of spending pays for every live of K: all *)
(* divisions are tried, so this owes nothing to the formula of the code.    *)
StocksFor(K) ==
    LET f[J \in SUBSET Live] ==
            IF J = {} THEN Stock
            ELSE LET l == CHOOSE k \in J : TRUE IN Before(l, f[J \ {l}])
    IN  f[K]

Payable(p, w, K) == [hearts |-> p, wild |-> w] \in StocksFor(K)

(* The lives succeed exactly when some division of the hearts pays for all  *)
(* of them, whatever the order the player chose: paying for one live never  *)
(* spoils the next ones, and no live is paid for with hearts that are not   *)
(* there.                                                                   *)
OutcomeExact ==
    (~failed /\ Payable(pool, wild, left)) <=> Payable(given.hearts, given.wild, Live)

(* Every heart is spent once at most, and what was spent on a live pays for *)
(* all it needs and for no more.                                            *)
LedgerBalances ==
    /\ \A h \in HeartSlot :
          pool[h] + SumFunction([l \in Live |-> paid[l].hearts[h]]) = given.hearts[h]
    /\ wild + SumFunction([l \in Live |-> paid[l].wild]) = given.wild
    /\ \A l \in Live \ left : Pays(l, paid[l].hearts, paid[l].wild)
=============================================================================
