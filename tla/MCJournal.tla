------------------------------ MODULE MCJournal ------------------------------
(* The journal alone, instantiated for TLC. *)
EXTENDS Journal, TLC

\* Every request that can be built from the small sets.
MCRequests == [event_id : EventIds, fingerprint : Fingerprints,
               producer : Producers, seq : 1..2, stream : Streams]

MCSymmetry ==
    Permutations(EventIds) \cup Permutations(Streams) \cup Permutations(Fingerprints)

=============================================================================
