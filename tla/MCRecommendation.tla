-------------------------- MODULE MCRecommendation --------------------------
EXTENDS Recommendation, TLC

RequestSymmetry == Permutations(Requests)
=============================================================================
