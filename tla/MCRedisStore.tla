---------------------------- MODULE MCRedisStore ----------------------------
(* Instances of RedisStore for model checking. *)
EXTENDS RedisStore, TLC

Symmetry == Permutations(SID) \union Permutations(KEY)
=============================================================================
