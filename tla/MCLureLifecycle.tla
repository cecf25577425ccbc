-------------------------- MODULE MCLureLifecycle --------------------------
(* LureLifecycle for TLC: every lure has the same time to live. *)
EXTENDS LureLifecycle

CONSTANT Ttl
MCTtlOf == [l \in Lures |-> Ttl]
=============================================================================
