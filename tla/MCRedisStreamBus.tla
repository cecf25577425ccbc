-------------------------- MODULE MCRedisStreamBus --------------------------
(* RedisStreamBus for TLC: all constants are given in the .cfg files. *)
EXTENDS RedisStreamBus
=============================================================================
