----------------------------- MODULE MCWeather -----------------------------
EXTENDS Weather, TLC

\* Device places are alike, and so are slots.
SlotSymmetry == Permutations(Slots) \cup Permutations(Device)
=============================================================================
