---------------------------- MODULE MCAccountSync ----------------------------
EXTENDS AccountSync, TLC

PhoneSymmetry == Permutations(Phones)
=============================================================================
