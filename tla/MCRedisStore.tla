---------------------------- MODULE MCRedisStore ----------------------------
(* Small instances of RedisStore.  Clients are interchangeable.             *)
EXTENDS RedisStore, TLC

Symmetry == Permutations(Client)

=============================================================================
