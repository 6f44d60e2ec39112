---------------------------- MODULE StreamDelivery ----------------------------
(***************************************************************************)
(* What replicated delivery promises, without journal rows, revisions,     *)
(* gates or services: at-least-once publication in stream order, and a     *)
(* confirmation only of what was published.                                *)
(***************************************************************************)
EXTENDS Integers, Sequences

CONSTANTS Events, StreamIds

VARIABLES
    queue,      \* stream -> the accepted events in stream order
    log,        \* the published records
    confirmed   \* the events known to be replicated

absVars == <<queue, log, confirmed>>

Accepted == UNION {{queue[s][n] : n \in DOMAIN queue[s]} : s \in StreamIds}

\* Everything before the n-th event of a stream is confirmed.
Reached(s, n) == \A m \in 1..(n - 1) : queue[s][m] \in confirmed

AbsInit ==
    /\ queue = [s \in StreamIds |-> <<>>]
    /\ log = <<>>
    /\ confirmed = {}

Enqueue(s, e) ==
    /\ e \notin Accepted
    /\ queue' = [queue EXCEPT ![s] = Append(@, e)]
    /\ UNCHANGED <<log, confirmed>>

\* Publication may be repeated, but only once the stream has reached the event.
Publish(s, n) ==
    /\ Reached(s, n)
    /\ log' = Append(log, queue[s][n])
    /\ UNCHANGED <<queue, confirmed>>

ConfirmPublished(e) ==
    /\ \E i \in DOMAIN log : log[i] = e
    /\ confirmed' = confirmed \cup {e}
    /\ UNCHANGED <<queue, log>>

AbsNext ==
    \/ \E s \in StreamIds, e \in Events : Enqueue(s, e)
    \/ \E s \in StreamIds : \E n \in DOMAIN queue[s] : Publish(s, n)
    \/ \E e \in Events : ConfirmPublished(e)

AbsSpec == AbsInit /\ [][AbsNext]_absVars
=============================================================================
