-------------------------- MODULE MCPublishTracking --------------------------
(* Small instances of PublishTracking for TLC. *)
EXTENDS PublishTracking, TLC

CONSTANTS t1, t2, e1, e2, p1, p2

Symmetry == Permutations(Threads) \cup Permutations(Events) \cup Permutations(Payloads)

=============================================================================
