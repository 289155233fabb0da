---------------------------- MODULE MCAiRequests ----------------------------
(***************************************************************************)
(* AiRequests on a small instance.                                          *)
(***************************************************************************)
EXTENDS AiRequests, TLC

MCProviders == <<"paid", "workers-ai", "workers-ai", "openrouter">>

RequestSymmetry == Permutations(Requests)

MCLimit == [n \in Counters |-> 1]

=============================================================================
