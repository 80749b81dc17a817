-------------------------- MODULE MCRedisIdWorker --------------------------
(* A small instance of RedisIdWorker for TLC: the threads are symmetric. *)
EXTENDS RedisIdWorker, TLC

Symmetry == Permutations(Thread)
=============================================================================
