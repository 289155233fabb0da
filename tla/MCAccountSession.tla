--------------------------- MODULE MCAccountSession ---------------------------
EXTENDS AccountSession, TLC

SlotSymmetry == Permutations(Slots)
=============================================================================
