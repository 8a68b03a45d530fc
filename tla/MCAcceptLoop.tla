---------------------------- MODULE MCAcceptLoop ----------------------------
(***************************************************************************)
(* Every vector of up to three proposals of two robots (so that a robot    *)
(* may have two), two stamps, two decision times, with and without value,  *)
(* under one strategy of each accept function.                             *)
(***************************************************************************)
EXTENDS AcceptLoop

MCProposals ==
  [id : {1, 3}, val : {"a", NoValue}, age : {1, 2}, strat : {ThreeWayHandShake}, dec : {1, LongMax}]

MCOwnBelieves ==
  [id : {2}, val : {"a"}, age : {1, 2}, strat : {40, 66, 67, 68, 69}, dec : {1}]
=============================================================================
