--------------------------- MODULE MCRedisDelivery ---------------------------
(* Model checking of RedisDelivery: the interchangeable workers of a group.  *)
EXTENDS RedisDelivery, TLC

WorkerSymmetry == Permutations(Workers)
=============================================================================
