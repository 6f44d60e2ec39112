----------------------------- MODULE OrderingGate -----------------------------
(***************************************************************************)
(* The per-stream ordering gate of                                         *)
(* crates/craftrelay-kafka-delivery/src/gate.rs, as operators on its value.*)
(*                                                                         *)
(* A gate is a function from the stream keys it has an entry for to        *)
(* StreamGateState records.  The Option fields use 0 for None: stream      *)
(* sequences start at 1.                                                   *)
(***************************************************************************)
EXTENDS Integers

StreamGateState == [highest_completed : Nat, in_flight : Nat, blocking : Nat]

FreshState == [highest_completed |-> 0, in_flight |-> 0, blocking |-> 0]

\* OrderingGate::new
EmptyGate == [k \in {} |-> FreshState]

\* self.streams.entry(key).or_insert(fresh)
Entry(gate, key) == IF key \in DOMAIN gate THEN gate[key] ELSE FreshState

SetEntry(gate, key, state) ==
    [k \in DOMAIN gate \cup {key} |-> IF k = key THEN state ELSE gate[k]]

\* Variant: a stream the gate has no entry for is not held.
Allowed_NoEntryPasses(gate, key, seq) ==
    LET state == Entry(gate, key)
    IN  \/ key \notin DOMAIN gate
        \/ /\ state.in_flight = 0
           /\ seq = IF state.blocking # 0 THEN state.blocking
                                          ELSE state.highest_completed + 1

\* The decision Allowed of check.  A missing entry lets only sequence 1
\* through, which is what a fresh entry does.
Allowed(gate, key, seq) ==
    LET state == Entry(gate, key)
    IN  /\ state.in_flight = 0
        /\ seq = IF state.blocking # 0 THEN state.blocking
                                       ELSE state.highest_completed + 1

mark_in_flight(gate, key, seq) ==
    SetEntry(gate, key,
             [Entry(gate, key) EXCEPT !.in_flight = seq, !.blocking = 0])

\* state.field == Some(seq) resets the field to None.
Cleared(field, seq) == IF field = seq THEN 0 ELSE field

mark_blocking(gate, key, seq) ==
    SetEntry(gate, key,
             [Entry(gate, key) EXCEPT !.in_flight = Cleared(@, seq),
                                      !.blocking = seq])

\* highest_completed is overwritten, not maximised.
mark_completed(gate, key, seq) ==
    SetEntry(gate, key,
             [Entry(gate, key) EXCEPT !.highest_completed = seq,
                                      !.in_flight = Cleared(@, seq),
                                      !.blocking = Cleared(@, seq)])

\* The largest and the smallest element of a finite set, 0 when it is empty.
MaxOrZero(S) == IF S = {} THEN 0 ELSE CHOOSE m \in S : \A n \in S : n <= m
MinOrZero(S) == IF S = {} THEN 0 ELSE CHOOSE m \in S : \A n \in S : m <= n

\* Variant: the last blocking sequence wins instead of the first.
recover_from_scan_LastBlocking(states) ==
    [k \in {r.key : r \in states} |->
        LET seqs(replicated) ==
                {r.seq : r \in {x \in states : x.key = k /\ x.replicated = replicated}}
        IN  [highest_completed |-> MaxOrZero(seqs(TRUE)),
             in_flight |-> 0,
             blocking |-> MaxOrZero(seqs(FALSE))]]

\* recover_from_scan on records [key, seq, replicated]: DeliveryService
\* passes blocking = ~replicated and in_flight = false for every row.
recover_from_scan(states) ==
    [k \in {r.key : r \in states} |->
        LET seqs(replicated) ==
                {r.seq : r \in {x \in states : x.key = k /\ x.replicated = replicated}}
        IN  [highest_completed |-> MaxOrZero(seqs(TRUE)),
             in_flight |-> 0,
             blocking |-> MinOrZero(seqs(FALSE))]]
=============================================================================
