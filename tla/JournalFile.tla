---------------------------- MODULE JournalFile ----------------------------
(***************************************************************************)
(* One journal file, the processes that open it and the rows they then read *)
(* and write: JournalOpen composed with JournalRows.  A process works on    *)
(* rows only after its open call returned, and loses its work in progress   *)
(* when it stops.                                                            *)
(***************************************************************************)
EXTENDS JournalRows

CONSTANT MaxStops   \* bound: a stop after a recorded attempt lets the count grow

VARIABLE stops

fileVars == <<openVars, rowVars, stops>>

Init == OpenInit /\ RowInit /\ stops = 0

OpenFile(p) == init_schema(p) /\ UNCHANGED <<rowVars, stops>>

Stop(p) ==
    /\ stops < MaxStops /\ stops' = stops + 1
    /\ StopProcess(p)
    /\ work' = [work EXCEPT ![p] = Idle]
    /\ UNCHANGED <<tableVars, written, now, earliest, causes>>

Publish(p) == \E e \in Events : accept(p, e) \/ create_delivery_pending(p, e)

Deliver(p) ==
    \/ \E e \in Events : TakeCandidate(p, e)
    \/ ReadPayload(p)
    \/ confirm_replicated_delivery(p)
    \/ \E retriable \in BOOLEAN : record_delivery_attempt(p, retriable)
    \/ LoadForRetry(p)
    \/ update_delivery_retry(p)
    \/ block_delivery(p)

Operate(p) ==
    \/ \E e \in Events : LoadForRepair(p, e)
    \/ \E e \in Delivered, status \in LocalDeliveryStatus : LoadLifecycle(p, e, status)
    \/ update_lifecycle(p)

Storage ==
    \/ \E e \in Events : Damage(e)
    \/ \E e, f \in Events : e # f /\ Misdirect(e, f)

Next ==
    \/ \E p \in Procs :
           \/ OpenFile(p)
           \/ Stop(p)
           \/ IsOpen(p) /\ (Publish(p) \/ Deliver(p) \/ Operate(p)) /\ UNCHANGED <<openVars, stops>>
    \/ (Storage \/ Tick) /\ UNCHANGED <<openVars, stops>>

Spec == Init /\ [][Next]_fileVars
=============================================================================
