-------------------------- MODULE MCAccountErasure --------------------------
EXTENDS AccountErasure, TLC

RequestSymmetry == Permutations(Requests)
=============================================================================
