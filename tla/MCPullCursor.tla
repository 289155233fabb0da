---------------------------- MODULE MCPullCursor ----------------------------
(* Small instances of PullCursor: the ratios of the real bounds (a           *)
(* transaction of at most 8 seconds, an overlap of 10) at a smaller scale.   *)
EXTENDS PullCursor, TLC

WriterSymmetry == Permutations(Writers)
=============================================================================
