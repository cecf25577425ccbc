-------------------------- MODULE MCLeaderElection --------------------------
(* LeaderElection for TLC: the replicas are interchangeable. *)
EXTENDS LeaderElection, TLC

ReplicaSymmetry == Permutations(Replicas)
=============================================================================
