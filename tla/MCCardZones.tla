----------------------------- MODULE MCCardZones -----------------------------
EXTENDS CardZones, TLC

CardSymmetry == Permutations(Member) \cup Permutations(Slot)

MCMoves == (Member \X {"waiting_room"}) \cup (Energy \X {"energy_deck"})
=============================================================================
