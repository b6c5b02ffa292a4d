----------------------------- MODULE MCMatchFlow -----------------------------
(***************************************************************************)
(* Small instances of MatchFlow for TLC.  A cfg picks the effects of a run *)
(* from the table: a_ effects belong to P1, b_ effects to P2.              *)
(***************************************************************************)
EXTENDS MatchFlow, FiniteSetsExt

CONSTANTS Lives,    \* how many live cards each player has
          Bluffs    \* how many other cards each player may set

MCCardsOf == [p \in {P1, P2} |-> {<<p, n>> : n \in 1..(Lives + Bluffs)}]
MCCard == MCCardsOf[P1] \cup MCCardsOf[P2]
MCLiveCard == {c \in MCCard : c[2] <= Lives}
\* The first live card of each player scores 2, the others 1.
MCScore == [S \in SUBSET MCCard |->
               MapThenSumSet(LAMBDA c : IF c[2] = 1 THEN 2 ELSE 1, S)]

Effect(kind, trigger, impact) == [kind |-> kind, trigger |-> trigger, impact |-> impact]
Table ==
    "a_search" :> Effect("inspect",  "member_played",  "none")  @@
    "a_enter"  :> Effect("simple",   "member_played",  "none")  @@
    "a_hand"   :> Effect("manual",   "member_played",  "none")  @@
    "a_draw"   :> Effect("two_step", "activated",      "none")  @@
    "a_look"   :> Effect("inspect",  "activated",      "none")  @@
    "a_ready"  :> Effect("simple",   "activated",      "score") @@
    "a_cheer"  :> Effect("simple",   "live_started",   "score") @@
    "a_hope"   :> Effect("simple",   "live_succeeded", "score") @@
    "a_bar"    :> Effect("simple",   "live_succeeded", "block") @@
    "a_leave"  :> Effect("simple",   "left_stage",     "none")  @@
    "b_both"   :> Effect("multi",    "live_started",   "none")  @@
    "b_cheer"  :> Effect("simple",   "live_started",   "score") @@
    "b_hope"   :> Effect("two_step", "live_succeeded", "score") @@
    "b_hand"   :> Effect("manual",   "live_succeeded", "none")  @@
    "b_react"  :> Effect("simple",   "chain",          "score") @@
    "b_leave"  :> Effect("simple",   "left_stage",     "none")
BOwned == {"b_both", "b_cheer", "b_hope", "b_hand", "b_react", "b_leave"}

\* By hand P1 scores two less.
MCHandScores == {[p \in {P1, P2} |-> IF p = P1 THEN -2 ELSE 0]}

MCOwner == [i \in Invocation |-> IF i \in BOwned THEN P2 ELSE P1]
MCKind == [i \in Invocation |-> Table[i].kind]
MCTrigger == [i \in Invocation |-> Table[i].trigger]
MCImpact == [i \in Invocation |-> Table[i].impact]
MCOptional == Invocation \cap {"a_search", "b_hope"}
\* Entering, cheering and hoping of P1 make P2 react.
MCChain == [i \in Invocation |->
               IF i \in {"a_enter", "a_cheer", "a_hope"}
               THEN Invocation \cap {"b_react"} ELSE {}]
=============================================================================
