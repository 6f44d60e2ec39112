--------------------------- MODULE MCJournalFile ---------------------------
(* JournalFile for TLC: two processes, two events, of which one is delivered. *)
EXTENDS JournalFile, TLC

CONSTANTS p1, p2, e1, e2

MCProcs == {p1, p2}
MCEvents == {e1, e2}
MCDelivered == {e1}
MCSchema == <<"stored_envelope">>
MCSchemaV2 == <<"delivery_state">>

Symmetry == Permutations(MCProcs)
=============================================================================
