------------------------------ MODULE MCDelivery ------------------------------
(* The delivery service over the journal, instantiated for TLC. *)
EXTENDS Delivery

CONSTANTS e1, e2, e3, s1, s2, p1, f1

Request(e, s, n) == [event_id |-> e, fingerprint |-> f1, producer |-> p1,
                     seq |-> n, stream |-> s]

\* One stream of two or of three events, accepted in order.
MCPair == {Request(e1, s1, 1), Request(e2, s1, 2)}
MCOneStream == {Request(e1, s1, 1), Request(e2, s1, 2), Request(e3, s1, 3)}

\* Two streams: e1 and e2 in the first, e3 in the second.
MCTwoStreams == {Request(e1, s1, 1), Request(e2, s1, 2), Request(e3, s2, 3)}

\* The two streams have keys of their own.
MCDistinctKeys == [s \in Streams |-> s]

\* The two streams differ in namespace or type and share their stream_key.
MCSharedKey == [s \in Streams |-> "key"]
=============================================================================
