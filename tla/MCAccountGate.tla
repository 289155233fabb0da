---------------------------- MODULE MCAccountGate ----------------------------
EXTENDS AccountGate, TLC

TxnSymmetry == Permutations(Uploads) \cup Permutations(Withdrawals) \cup Permutations(Gives)
=============================================================================
