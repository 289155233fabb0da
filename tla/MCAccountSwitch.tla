--------------------------- MODULE MCAccountSwitch ---------------------------
EXTENDS AccountSwitch, TLC
=============================================================================
