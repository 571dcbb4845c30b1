---------------------------- MODULE MCMRCoordinator ----------------------------
(* Instantiation of MRCoordinator with a map that emits no pair for one    *)
(* reduce bucket: input file 1 has no key with ihash(key) % nReduce = 0.   *)
EXTENDS MRCoordinator

EmptyBucket == {<<1, 0>>}

================================================================================
