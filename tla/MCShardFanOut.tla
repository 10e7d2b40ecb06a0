---------------------------- MODULE MCShardFanOut ----------------------------
(* ShardFanOut for TLC: requests are interchangeable, replicas are not (the *)
(* picks scan them in order).                                               *)
EXTENDS ShardFanOut, TLC

RequestSymmetry == Permutations(Requests)
==============================================================================
