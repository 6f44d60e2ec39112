------------------------ MODULE PublishTrackingProofs ------------------------
(***************************************************************************)
(* What holds of a logical producer for any number of threads, events,     *)
(* payloads and submissions, and for any capacity.                         *)
(***************************************************************************)
EXTENDS PublishTracking, FiniteSetTheorems, TLAPS

USE DEF Idle, At

---------------------------------------------------------------------------
(* Trackers.                                                               *)

Bounded(tracker) ==
  /\ IsFiniteSet(DOMAIN tracker)
  /\ Cardinality(DOMAIN tracker) <= MaxPendingPublishes

\* Attaching where CanAttach allows it keeps a tracker within its capacity.
LEMMA AttachBounded ==
  ASSUME NEW tracker, NEW key, NEW value, Bounded(tracker), CanAttach(tracker, key)
  PROVE  Bounded(Attach(tracker, key, value))
<1>1. DOMAIN Attach(tracker, key, value) = DOMAIN tracker \cup {key}
  BY Zenon DEF Attach
<1>2. CASE key \in DOMAIN tracker
  <2>1. DOMAIN tracker \cup {key} = DOMAIN tracker
    BY <1>2, Zenon
  <2> QED BY <1>1, <2>1, Zenon DEF Bounded
<1>3. CASE key \notin DOMAIN tracker
  <2>1. /\ IsFiniteSet(DOMAIN tracker \cup {key})
        /\ Cardinality(DOMAIN tracker \cup {key}) = Cardinality(DOMAIN tracker) + 1
    BY <1>3, FS_AddElement, Zenon DEF Bounded
  <2>2. Cardinality(DOMAIN tracker) \in Nat
    BY FS_CardinalityType, Zenon DEF Bounded
  <2> QED BY <1>1, <1>3, <2>1, <2>2, TrackingConstants DEF Bounded, CanAttach
<1> QED BY <1>2, <1>3, Zenon

\* Detaching an event keeps a tracker within its capacity.
LEMMA DetachBounded ==
  ASSUME NEW tracker, NEW key, Bounded(tracker)
  PROVE  Bounded(Detach(tracker, key))
<1>1. DOMAIN Detach(tracker, key) = DOMAIN tracker \ {key}
  BY Zenon DEF Detach
<1>2. /\ IsFiniteSet(DOMAIN tracker \ {key})
      /\ Cardinality(DOMAIN tracker \ {key}) <= Cardinality(DOMAIN tracker)
  BY FS_Subset, Zenon DEF Bounded
<1>3. /\ Cardinality(DOMAIN tracker) \in Nat
      /\ Cardinality(DOMAIN tracker \ {key}) \in Nat
  BY <1>2, FS_CardinalityType, Zenon DEF Bounded
<1> QED BY <1>1, <1>2, <1>3, TrackingConstants DEF Bounded

---------------------------------------------------------------------------
(* Type correctness.  Finiteness of the two domains is what the counts of  *)
(* TrackingTypeOK need to be preserved.                                    *)

TrackingInv ==
  /\ TrackingTypeOK
  /\ IsFiniteSet(DOMAIN trackedRequests)
  /\ IsFiniteSet(DOMAIN publishHandles)

\* The initial state has the type.
LEMMA TrackingInitType == TrackingInit => TrackingInv
<1> SUFFICES ASSUME TrackingInit PROVE TrackingInv
  OBVIOUS
<1>1. DOMAIN NoRequest = {}
  BY Zenon DEF NoRequest
<1>2. IsFiniteSet({}) /\ Cardinality({}) = 0
  BY FS_EmptySet, Zenon
<1>3. /\ authorizedProducers \in Listing /\ ownedNamespaces \in Listing
      /\ disabled \in BOOLEAN
  BY Zenon DEF TrackingInit, Listing
<1>4. IsTracker(trackedRequests, Request) /\ IsTracker(publishHandles, DOMAIN handles)
      /\ IsTracker(entries, Payloads)
  BY <1>1, Zenon DEF TrackingInit, IsTracker
<1>5. call \in [Threads -> Calls]
  BY Zenon DEF TrackingInit, Calls
<1> QED BY <1>1, <1>2, <1>3, <1>4, <1>5, TrackingConstants
     DEF TrackingInit, TrackingInv, TrackingTypeOK

\* Every step preserves the type.
LEMMA TrackingTypeStep == TrackingInv /\ [TrackingNext]_trackingVars => TrackingInv'
<1> SUFFICES ASSUME TrackingInv, [TrackingNext]_trackingVars PROVE TrackingInv'
  OBVIOUS
<1> USE DEF TrackingInv, TrackingTypeOK, IsTracker, clientVars, agentVars, accessVars
<1>1. ASSUME NEW t \in Threads, NEW e \in Events, NEW p \in Payloads,
             SubmitTracked(t, e, p) \/ SubmitNew(t, e, p)
      PROVE  TrackingInv'
  <2>1. PICK r \in Request, step \in SubmitSteps :
          call' = [call EXCEPT ![t] = At(step, r, FALSE)]
    <3>1. CASE SubmitTracked(t, e, p)
      BY <3>1, Zenon DEF SubmitTracked, SubmitSteps
    <3>2. CASE SubmitNew(t, e, p)
      <4>1. [event |-> e, payload |-> p, seq |-> 0] \in Request
        BY Zenon DEF Request
      <4> QED BY <3>2, <4>1, Zenon DEF SubmitNew, SubmitSteps
    <3> QED BY <1>1, <3>1, <3>2, Zenon
  <2>2. call' \in [Threads -> Calls]
    BY <2>1, Zenon DEF Calls
  <2>3. UNCHANGED <<clientVars, handles, agentVars>>
    BY <1>1, Zenon DEF SubmitTracked, SubmitNew
  <2> QED BY <2>2, <2>3, Zenon
<1>2. ASSUME NEW t \in Threads, AllocateSequence(t) PROVE TrackingInv'
  BY <1>2 DEF AllocateSequence, Calls, SubmitSteps, DetachSteps, Request
<1>3. ASSUME NEW t \in Threads, AttachRequest(t) PROVE TrackingInv'
  <2>1. call[t].request \in Request
    BY <1>3 DEF AttachRequest, Calls, SubmitSteps, DetachSteps
  <2>2. Bounded(trackedRequests')
    BY <1>3, AttachBounded, Zenon DEF AttachRequest, Bounded
  <2>3. IsTracker(trackedRequests', Request)
    BY <1>3, <2>1, Zenon DEF AttachRequest, Attach, Request
  <2> QED BY <1>3, <2>1, <2>2, <2>3, Zenon DEF AttachRequest, Bounded, Calls, SubmitSteps
<1>4. ASSUME NEW t \in Threads, AttachRefused(t) PROVE TrackingInv'
  <2>1. call[t].request \in Request
    BY <1>4 DEF AttachRefused, Calls, SubmitSteps, DetachSteps
  <2> QED BY <1>4, <2>1 DEF AttachRefused, Calls, Handle
<1>5. ASSUME NEW t \in Threads, StatusLookup(t) PROVE TrackingInv'
  <2>1. call[t].request \in Request
    BY <1>5 DEF StatusLookup, Calls, SubmitSteps, DetachSteps
  <2> QED BY <1>5, <2>1, Zenon DEF StatusLookup, Calls, SubmitSteps
<1>6. ASSUME NEW t \in Threads, Send(t) PROVE TrackingInv'
  <2>1. call[t].request \in Request
    BY <1>6 DEF Send, Calls, SubmitSteps, DetachSteps
  <2>2. Accepts(call[t].request) \in BOOLEAN
    BY Zenon DEF Accepts
  <2>3. call' \in [Threads -> Calls]
    BY <1>6, <2>1, <2>2, Zenon DEF Send, Calls, SubmitSteps
  <2>4. IsTracker(entries', Payloads) /\ producerInFlight' \in Nat
    BY <1>6, <2>1 DEF Send, AgentSubmit, Attach, Request
  <2> QED BY <1>6, <2>1, <2>3, <2>4, Zenon DEF Send, AgentSubmit
<1>7. ASSUME NEW t \in Threads, ReturnHandle(t) PROVE TrackingInv'
  <2>1. call[t].request \in Request /\ call[t].accepted \in BOOLEAN
    BY <1>7 DEF ReturnHandle, Calls, SubmitSteps, DetachSteps
  <2>2. handles' \in Seq(Handle) /\ DOMAIN handles' = DOMAIN handles \cup {Len(handles) + 1}
    BY <1>7, <2>1 DEF ReturnHandle, Handle
  <2>3. Bounded(publishHandles')
    BY <1>7, AttachBounded, Zenon DEF ReturnHandle, Bounded
  <2>4. IsTracker(publishHandles', DOMAIN handles')
    BY <1>7, <2>1, <2>2, Zenon DEF ReturnHandle, Attach, Request
  <2> QED BY <1>7, <2>2, <2>3, <2>4, Zenon DEF ReturnHandle, Bounded, Calls
<1>8. ASSUME NEW t \in Threads, NEW h \in DOMAIN handles, detachTracking(t, h)
      PROVE  TrackingInv'
  <2>1. handles[h] \in Handle
    BY <1>8
  <2>2. handles' \in Seq(Handle) /\ DOMAIN handles' = DOMAIN handles
    BY <1>8, <2>1 DEF detachTracking, Handle
  <2> QED BY <1>8, <2>1, <2>2, Zenon DEF detachTracking, Calls, DetachSteps, Handle
<1>9. ASSUME NEW t \in Threads, DropHandle(t) PROVE TrackingInv'
  <2>1. call[t].request \in Request
    BY <1>9 DEF DropHandle, Calls, SubmitSteps, DetachSteps
  <2>2. Bounded(publishHandles')
    BY <1>9, DetachBounded, Zenon DEF DropHandle, Bounded
  <2>3. IsTracker(publishHandles', DOMAIN handles)
    BY <1>9, Zenon DEF DropHandle, Detach
  <2> QED BY <1>9, <2>1, <2>2, <2>3, Zenon DEF DropHandle, Bounded, Calls, DetachSteps
<1>10. ASSUME NEW t \in Threads, DropRequest(t) PROVE TrackingInv'
  <2>1. Bounded(trackedRequests')
    BY <1>10, DetachBounded, Zenon DEF DropRequest, Bounded
  <2>2. IsTracker(trackedRequests', Request)
    BY <1>10, Zenon DEF DropRequest, Detach
  <2>3. call[t].request \in Request
    BY <1>10 DEF DropRequest, Calls, SubmitSteps, DetachSteps
  <2>4. superseded' \subseteq Events
    BY <1>10, <2>3, Zenon DEF DropRequest, Request
  <2> QED BY <1>10, <2>1, <2>2, <2>4, Zenon DEF DropRequest, Bounded, Calls
<1>11. CASE registerProducer \/ addOwnedNamespace \/ disableProducer
  BY <1>11, Zenon DEF registerProducer, addOwnedNamespace, disableProducer, Added, Listing
<1>12. CASE UNCHANGED trackingVars
  BY <1>12, Zenon DEF trackingVars
<1> QED BY <1>1, <1>2, <1>3, <1>4, <1>5, <1>6, <1>7, <1>8, <1>9, <1>10, <1>11, <1>12, Zenon
     DEF TrackingNext, ThreadStep, ReadStatus

\* Type correctness of a logical producer: neither tracker ever exceeds
\* maxPendingPublishes, for any number of concurrent submissions.
THEOREM TrackingTypeCorrect == TrackingSpec => []TrackingTypeOK
<1>1. TrackingInv => TrackingTypeOK
  BY Zenon DEF TrackingInv
<1> QED BY <1>1, TrackingInitType, TrackingTypeStep, PTL DEF TrackingSpec

---------------------------------------------------------------------------
(* Producer operation sequences.                                           *)

\* r exists with its sequence: it was sent, is tracked, or is in a thread's hand.
Exists(r) ==
  \/ r \in sent
  \/ \E e \in DOMAIN trackedRequests : trackedRequests[e] = r
  \/ \E t \in Threads : call[t].step \in {"attach", "status", "send"} /\ call[t].request = r

\* The strengthening of SequenceNotShared: it speaks of every request that may
\* still be sent, and their sequences are all below the next one.
SequenceInv ==
  /\ \A r \in Request : Exists(r) => r.seq < nextSequence
  /\ \A r, q \in Request : Exists(r) /\ Exists(q) /\ r.seq = q.seq => r = q

\* Only allocating a sequence brings a request into existence, and that
\* request has the sequence that was next.
LEMMA RequestsComeFromAllocation ==
  ASSUME TrackingInv, [TrackingNext]_trackingVars, NEW r \in Request, Exists(r)'
  PROVE  \/ Exists(r) /\ nextSequence' >= nextSequence
         \/ /\ r.seq = nextSequence /\ nextSequence' = nextSequence + 1
            /\ \A q \in Request : Exists(q)' => Exists(q) \/ q = r
<1> USE DEF TrackingInv, TrackingTypeOK, clientVars, agentVars, accessVars
<1>1. ASSUME NEW t \in Threads, NEW e \in Events, NEW p \in Payloads,
             SubmitTracked(t, e, p)
      PROVE  Exists(r) /\ nextSequence' = nextSequence
  BY <1>1, Zenon DEF SubmitTracked, Exists
<1>2. ASSUME NEW t \in Threads, NEW e \in Events, NEW p \in Payloads, SubmitNew(t, e, p)
      PROVE  Exists(r) /\ nextSequence' = nextSequence
  BY <1>2, Zenon DEF SubmitNew, Exists
<1>3. ASSUME NEW t \in Threads, AllocateSequence(t)
      PROVE  \/ Exists(r) /\ nextSequence' = nextSequence + 1
             \/ /\ r.seq = nextSequence /\ nextSequence' = nextSequence + 1
                /\ \A q \in Request : Exists(q)' => Exists(q) \/ q = r
  <2> DEFINE new == call'[t].request
  <2>1. \A q \in Request : Exists(q)' => Exists(q) \/ q = new
    BY <1>3, Zenon DEF AllocateSequence, Exists
  <2>2. new.seq = nextSequence
    BY <1>3, Zenon DEF AllocateSequence
  <2> HIDE DEF new
  <2> QED BY <1>3, <2>1, <2>2, Zenon DEF AllocateSequence
<1>4. ASSUME NEW t \in Threads, AttachRequest(t)
      PROVE  Exists(r) /\ nextSequence' = nextSequence
  BY <1>4, Zenon DEF AttachRequest, Attach, Exists
<1>5. ASSUME NEW t \in Threads, AttachRefused(t)
      PROVE  Exists(r) /\ nextSequence' = nextSequence
  BY <1>5, Zenon DEF AttachRefused, Exists
<1>6. ASSUME NEW t \in Threads, StatusLookup(t)
      PROVE  Exists(r) /\ nextSequence' = nextSequence
  BY <1>6, Zenon DEF StatusLookup, Exists
<1>7. ASSUME NEW t \in Threads, Send(t)
      PROVE  Exists(r) /\ nextSequence' = nextSequence
  BY <1>7, Zenon DEF Send, AgentSubmit, Exists
<1>8. ASSUME NEW t \in Threads, ReturnHandle(t)
      PROVE  Exists(r) /\ nextSequence' = nextSequence
  BY <1>8, Zenon DEF ReturnHandle, Exists
<1>9. ASSUME NEW t \in Threads, NEW h \in DOMAIN handles, detachTracking(t, h)
      PROVE  Exists(r) /\ nextSequence' = nextSequence
  BY <1>9, Zenon DEF detachTracking, Exists
<1>10. ASSUME NEW t \in Threads, DropHandle(t) \/ DropRequest(t)
       PROVE  Exists(r) /\ nextSequence' = nextSequence
  BY <1>10 DEF DropHandle, DropRequest, Detach, Exists
<1>11. CASE registerProducer \/ addOwnedNamespace \/ disableProducer
  BY <1>11 DEF registerProducer, addOwnedNamespace, disableProducer, Exists
<1>12. CASE UNCHANGED trackingVars
  BY <1>12 DEF trackingVars, Exists
<1> QED BY <1>1, <1>2, <1>3, <1>4, <1>5, <1>6, <1>7, <1>8, <1>9, <1>10, <1>11, <1>12
     DEF TrackingNext, ThreadStep, ReadStatus

\* No request exists at first.
LEMMA SequenceInit == TrackingInit => SequenceInv
BY DEF TrackingInit, SequenceInv, Exists, NoRequest

\* Every step preserves the invariant of the sequences.
LEMMA SequenceStep ==
  ASSUME TrackingInv, SequenceInv, [TrackingNext]_trackingVars
  PROVE  SequenceInv'
<1>1. nextSequence \in Nat
  BY Zenon DEF TrackingInv, TrackingTypeOK
<1>2. nextSequence' \in Nat
  BY TrackingTypeStep, Zenon DEF TrackingInv, TrackingTypeOK
<1>3. ASSUME NEW r \in Request, Exists(r)' PROVE r.seq < nextSequence'
  <2>1. r.seq \in Nat
    BY Zenon DEF Request
  <2> QED BY <1>1, <1>2, <1>3, <2>1, RequestsComeFromAllocation DEF SequenceInv
<1>4. ASSUME NEW r \in Request, NEW q \in Request, Exists(r)', Exists(q)', r.seq = q.seq
      PROVE  r = q
  <2>1. r.seq \in Nat /\ q.seq \in Nat
    BY Zenon DEF Request
  <2>2. CASE Exists(r) /\ Exists(q)
    BY <1>4, <2>2, Zenon DEF SequenceInv
  <2>3. CASE ~Exists(r)
    BY <1>1, <1>4, <2>1, <2>3, RequestsComeFromAllocation DEF SequenceInv
  <2>4. CASE ~Exists(q)
    BY <1>1, <1>4, <2>1, <2>4, RequestsComeFromAllocation DEF SequenceInv
  <2> QED BY <2>2, <2>3, <2>4, Zenon
<1> QED BY <1>3, <1>4, Zenon DEF SequenceInv

\* No two different requests ever reach the agent under the same producer
\* operation sequence, whatever threads submit, retry and detach at once.
THEOREM SequenceNotSharedHolds == TrackingSpec => []SequenceNotShared
<1>1. TrackingInv /\ SequenceInv => SequenceNotShared
  BY Zenon DEF TrackingInv, TrackingTypeOK, SequenceInv, SequenceNotShared, Exists
<1> QED BY <1>1, TrackingInitType, TrackingTypeStep, SequenceInit, SequenceStep, PTL
     DEF TrackingSpec

---------------------------------------------------------------------------
(* Retries.                                                                *)

\* r is the request every retry of its event repeats, or its event is superseded.
Repeated(r) ==
  \/ r.event \in superseded
  \/ r.event \in DOMAIN trackedRequests /\ trackedRequests[r.event] = r

\* The strengthening of RetryRepeatsRequest: what was sent and what threads are about
\* to send of an event that is not superseded is its tracked request.
RetryInv ==
  /\ \A e \in DOMAIN trackedRequests : trackedRequests[e].event = e
  /\ \A r \in sent : Repeated(r)
  /\ \A t \in Threads :
       call[t].step \in {"status", "send", "handle"} => Repeated(call[t].request)

\* The tracked request of an event changes only as the event is superseded: where
\* AttachRequest finds none, no request of the event could have been repeated.
LEMMA RepeatedStays ==
  ASSUME TrackingInv, [TrackingNext]_trackingVars
  PROVE  /\ superseded \subseteq superseded'
         /\ \A r : Repeated(r) => Repeated(r)'
<1>1. ASSUME UNCHANGED <<trackedRequests, superseded>>
      PROVE  superseded \subseteq superseded' /\ \A r : Repeated(r) => Repeated(r)'
  BY <1>1, Zenon DEF Repeated
<1>2. ASSUME NEW t \in Threads, AttachRequest(t)
      PROVE  superseded \subseteq superseded' /\ \A r : Repeated(r) => Repeated(r)'
  BY <1>2, Zenon DEF AttachRequest, Attach, Repeated
<1>3. ASSUME NEW t \in Threads, DropRequest(t)
      PROVE  superseded \subseteq superseded' /\ \A r : Repeated(r) => Repeated(r)'
  BY <1>3, Zenon DEF DropRequest, Detach, Repeated
<1>4. ASSUME NEW t \in Threads, ThreadStep(t)
      PROVE  AttachRequest(t) \/ DropRequest(t) \/ UNCHANGED <<trackedRequests, superseded>>
  BY <1>4, Zenon DEF ThreadStep, SubmitTracked, SubmitNew, AllocateSequence, AttachRefused,
     StatusLookup, Send, ReturnHandle, detachTracking, DropHandle, ReadStatus, trackingVars,
     clientVars
<1>5. CASE registerProducer \/ addOwnedNamespace \/ disableProducer \/ UNCHANGED trackingVars
  BY <1>1, <1>5, Zenon DEF registerProducer, addOwnedNamespace, disableProducer, trackingVars,
     clientVars
<1> QED BY <1>1, <1>2, <1>3, <1>4, <1>5, Zenon DEF TrackingNext

\* Every step preserves the invariant of retries.
LEMMA RetryStep ==
  ASSUME TrackingInv, RetryInv, [TrackingNext]_trackingVars
  PROVE  RetryInv'
<1> USE DEF TrackingInv, TrackingTypeOK
<1>1. ASSUME NEW e \in DOMAIN trackedRequests' PROVE trackedRequests'[e].event = e
  <2>1. ASSUME NEW t \in Threads, AttachRequest(t) PROVE trackedRequests'[e].event = e
    BY <1>1, <2>1, Zenon DEF AttachRequest, Attach, RetryInv
  <2>2. ASSUME NEW t \in Threads, DropRequest(t) PROVE trackedRequests'[e].event = e
    BY <1>1, <2>2, Zenon DEF DropRequest, Detach, RetryInv
  <2>3. CASE UNCHANGED trackedRequests
    BY <1>1, <2>3, Zenon DEF RetryInv
  <2>4. ASSUME NEW t \in Threads, ThreadStep(t)
        PROVE  AttachRequest(t) \/ DropRequest(t) \/ UNCHANGED trackedRequests
    BY <2>4, Zenon DEF ThreadStep, SubmitTracked, SubmitNew, AllocateSequence, AttachRefused,
       StatusLookup, Send, ReturnHandle, detachTracking, DropHandle, ReadStatus, trackingVars,
       clientVars
  <2>5. CASE registerProducer \/ addOwnedNamespace \/ disableProducer \/ UNCHANGED trackingVars
    BY <2>3, <2>5, Zenon DEF registerProducer, addOwnedNamespace, disableProducer, trackingVars,
       clientVars
  <2> QED BY <2>1, <2>2, <2>3, <2>4, <2>5, Zenon DEF TrackingNext
<1>2. ASSUME NEW r \in sent' PROVE Repeated(r)
  <2>1. ASSUME NEW t \in Threads, Send(t) PROVE Repeated(r)
    BY <1>2, <2>1, Zenon DEF Send, AgentSubmit, RetryInv
  <2>2. CASE UNCHANGED sent
    BY <1>2, <2>2, Zenon DEF RetryInv
  <2>3. ASSUME NEW t \in Threads, ThreadStep(t) PROVE Send(t) \/ UNCHANGED sent
    BY <2>3, Zenon DEF ThreadStep, SubmitTracked, SubmitNew, AllocateSequence, AttachRequest,
       AttachRefused, StatusLookup, ReturnHandle, detachTracking, DropHandle, DropRequest,
       ReadStatus, trackingVars, agentVars
  <2>4. CASE registerProducer \/ addOwnedNamespace \/ disableProducer \/ UNCHANGED trackingVars
    BY <2>2, <2>4, Zenon DEF registerProducer, addOwnedNamespace, disableProducer, trackingVars,
       agentVars
  <2> QED BY <2>1, <2>2, <2>3, <2>4, Zenon DEF TrackingNext
<1>3. ASSUME NEW u \in Threads, call'[u].step \in {"status", "send", "handle"}
      PROVE  Repeated(call[u].request)'
  <2>1. CASE call'[u] = call[u]
    BY <1>3, <2>1, RepeatedStays, Zenon DEF RetryInv
  <2>2. CASE call'[u].request = call[u].request /\ call[u].step \in {"status", "send"}
    <3>1. Repeated(call[u].request)
      BY <2>2, Zenon DEF RetryInv
    <3>2. PICK r : r = call[u].request
      OBVIOUS
    <3>3. Repeated(r)'
      BY <3>1, <3>2, RepeatedStays, Zenon
    <3> QED BY <2>2, <3>2, <3>3, Zenon
  <2>3. ASSUME NEW e \in Events, NEW p \in Payloads, SubmitTracked(u, e, p)
        PROVE  Repeated(call[u].request)'
    <3>1. /\ call'[u].request = trackedRequests[e] /\ e \in DOMAIN trackedRequests
          /\ trackedRequests' = trackedRequests
      BY <2>3, Zenon DEF SubmitTracked, clientVars
    <3>2. trackedRequests[e].event = e
      BY <3>1, Zenon DEF RetryInv
    <3> QED BY <3>1, <3>2, Zenon DEF Repeated
  <2>4. CASE AttachRequest(u)
    BY <2>4, Zenon DEF AttachRequest, Attach, Repeated
  <2>5. CASE StatusLookup(u) \/ Send(u)
    <3>1. CASE StatusLookup(u)
      <4>1. \/ call' = [call EXCEPT ![u] = At("handle", call[u].request, TRUE)]
            \/ call' = [call EXCEPT ![u] = At("send", call[u].request, FALSE)]
        BY <3>1, Zenon DEF StatusLookup
      <4>2. call'[u].request = call[u].request
        BY <4>1
      <4> QED BY <2>2, <3>1, <4>2, Zenon DEF StatusLookup
    <3>2. CASE Send(u)
      BY <2>2, <3>2, Zenon DEF Send
    <3> QED BY <2>5, <3>1, <3>2, Zenon
  <2>6. ASSUME NEW t \in Threads, t # u, ThreadStep(t) PROVE call'[u] = call[u]
    BY <2>6, Zenon DEF ThreadStep, SubmitTracked, SubmitNew, AllocateSequence, AttachRequest,
       AttachRefused, StatusLookup, Send, ReturnHandle, detachTracking, DropHandle, DropRequest,
       ReadStatus, trackingVars
  <2>7. CASE ThreadStep(u)
    <3>1. ~\E e \in Events, p \in Payloads : SubmitNew(u, e, p)
      BY <1>3 DEF SubmitNew
    <3>2. ~AllocateSequence(u) /\ ~AttachRefused(u) /\ ~ReturnHandle(u)
      BY <1>3 DEF AllocateSequence, AttachRefused, ReturnHandle
    <3>3. ~DropHandle(u) /\ ~DropRequest(u) /\ ~\E h \in DOMAIN handles : detachTracking(u, h)
      BY <1>3 DEF DropHandle, DropRequest, detachTracking
    <3>4. ReadStatus(u) => call'[u] = call[u]
      BY Zenon DEF ReadStatus, trackingVars
    <3> QED BY <2>1, <2>3, <2>4, <2>5, <2>7, <3>1, <3>2, <3>3, <3>4, Zenon DEF ThreadStep
  <2>8. CASE registerProducer \/ addOwnedNamespace \/ disableProducer \/ UNCHANGED trackingVars
    BY <2>1, <2>8, Zenon DEF registerProducer, addOwnedNamespace, disableProducer, trackingVars
  <2> QED BY <2>1, <2>6, <2>7, <2>8, Zenon DEF TrackingNext
<1>4. \A r \in sent' : Repeated(r)'
  BY <1>2, RepeatedStays, Zenon
<1> QED BY <1>1, <1>3, <1>4, Zenon DEF RetryInv

\* No request is tracked or sent at first.
LEMMA RetryInit == TrackingInit => RetryInv
BY DEF TrackingInit, RetryInv, NoRequest

\* What the agent is sent for one event is one request, with one sequence, as long as no
\* overlapping submission has replaced it and no handle has released it, for any number
\* of threads.
THEOREM RetryRepeatsHolds == TrackingSpec => []RetryRepeatsRequest
<1>1. RetryInv => RetryRepeatsRequest
  BY Zenon DEF RetryInv, Repeated, RetryRepeatsRequest
<1> QED BY <1>1, RetryInit, RetryStep, TrackingInitType, TrackingTypeStep, PTL DEF TrackingSpec

---------------------------------------------------------------------------
(* Acceptance.                                                             *)

\* The agent holds r, or an entry of the event a superseded request is taken for.
Stored(r) ==
  /\ r.event \in DOMAIN entries
  /\ entries[r.event] = r.payload \/ r.event \in superseded

\* The strengthening of AcceptedIsStored: an entry comes from a request that was sent,
\* and a thread that is about to return an accepted handle is covered as well.
StoredInv ==
  /\ \A e \in DOMAIN entries : \E r \in sent : r.event = e /\ r.payload = entries[e]
  /\ \A t \in Threads :
       call[t].step = "handle" /\ call[t].accepted = TRUE => Stored(call[t].request)
  /\ \A h \in DOMAIN handles : handles[h].accepted = TRUE => Stored(handles[h].request)

\* The agent keeps every entry, so what is stored stays so.
LEMMA StoredStays ==
  ASSUME TrackingInv, [TrackingNext]_trackingVars, NEW r, Stored(r)
  PROVE  Stored(r)'
<1>1. /\ DOMAIN entries \subseteq DOMAIN entries'
      /\ \A e \in DOMAIN entries : entries'[e] = entries[e]
  <2>1. ASSUME NEW t \in Threads, Send(t)
        PROVE  /\ DOMAIN entries \subseteq DOMAIN entries'
               /\ \A e \in DOMAIN entries : entries'[e] = entries[e]
    <3>1. CASE UNCHANGED entries
      BY <3>1, Zenon
    <3>2. CASE /\ call[t].request.event \notin DOMAIN entries
               /\ entries' = Attach(entries, call[t].request.event, call[t].request.payload)
      BY <3>2, Zenon DEF Attach
    <3> QED BY <2>1, <3>1, <3>2, Zenon DEF Send, AgentSubmit
  <2>2. ASSUME NEW t \in Threads, ThreadStep(t) PROVE Send(t) \/ UNCHANGED entries
    BY <2>2, Zenon DEF ThreadStep, SubmitTracked, SubmitNew, AllocateSequence, AttachRequest,
       AttachRefused, StatusLookup, ReturnHandle, detachTracking, DropHandle, DropRequest,
       ReadStatus, trackingVars, agentVars
  <2>3. CASE registerProducer \/ addOwnedNamespace \/ disableProducer \/ UNCHANGED trackingVars
    BY <2>3, Zenon DEF registerProducer, addOwnedNamespace, disableProducer, trackingVars,
       agentVars
  <2> QED BY <2>1, <2>2, <2>3, Zenon DEF TrackingNext
<1>2. superseded \subseteq superseded'
  BY RepeatedStays, Zenon
<1> QED BY <1>1, <1>2, Zenon DEF Stored

\* Entries come from requests that were sent.
LEMMA EntriesWereSent ==
  ASSUME TrackingInv, StoredInv, [TrackingNext]_trackingVars, NEW e \in DOMAIN entries'
  PROVE  \E r \in sent' : r.event = e /\ r.payload = entries'[e]
<1>1. ASSUME NEW t \in Threads, Send(t)
      PROVE  \E r \in sent' : r.event = e /\ r.payload = entries'[e]
  <2>1. sent' = sent \cup {call[t].request}
    BY <1>1, Zenon DEF Send, AgentSubmit
  <2>2. CASE UNCHANGED entries
    BY <2>1, <2>2, Zenon DEF StoredInv
  <2>3. CASE entries' = Attach(entries, call[t].request.event, call[t].request.payload)
    BY <2>1, <2>3, Zenon DEF Attach, StoredInv
  <2> QED BY <1>1, <2>2, <2>3, Zenon DEF Send, AgentSubmit
<1>2. CASE UNCHANGED <<entries, sent>>
  BY <1>2, Zenon DEF StoredInv
<1>3. ASSUME NEW t \in Threads, ThreadStep(t) PROVE Send(t) \/ UNCHANGED <<entries, sent>>
  BY <1>3, Zenon DEF ThreadStep, SubmitTracked, SubmitNew, AllocateSequence, AttachRequest,
     AttachRefused, StatusLookup, ReturnHandle, detachTracking, DropHandle, DropRequest,
     ReadStatus, trackingVars, agentVars
<1>4. CASE registerProducer \/ addOwnedNamespace \/ disableProducer \/ UNCHANGED trackingVars
  BY <1>2, <1>4, Zenon DEF registerProducer, addOwnedNamespace, disableProducer, trackingVars,
     agentVars
<1> QED BY <1>1, <1>2, <1>3, <1>4, Zenon DEF TrackingNext

\* An accepted answer is about an entry: the status lookup finds one, of the tracked
\* request or of a superseded event, and the agent accepts nothing it does not hold.
LEMMA AnswerIsStored ==
  ASSUME TrackingInv, RetryInv, StoredInv, NEW t \in Threads, StatusLookup(t) \/ Send(t),
         call'[t].accepted = TRUE
  PROVE  Stored(call[t].request)' /\ call'[t].request = call[t].request
<1> USE DEF TrackingInv, TrackingTypeOK
<1>1. PICK r : r = call[t].request
  OBVIOUS
<1>2. CASE StatusLookup(t)
  <2>1. /\ \/ r.event \in DOMAIN entries /\ call' = [call EXCEPT ![t] = At("handle", r, TRUE)]
           \/ call' = [call EXCEPT ![t] = At("send", r, FALSE)]
        /\ call[t].step = "status"
        /\ UNCHANGED <<entries, superseded>>
    BY <1>1, <1>2, Zenon DEF StatusLookup, clientVars, agentVars
  <2>2. call'[t].request = r /\ r.event \in DOMAIN entries
    BY <2>1
  <2>3. PICK q \in sent : q.event = r.event /\ q.payload = entries[r.event]
    BY <2>2, Zenon DEF StoredInv
  <2>4. Repeated(q) /\ Repeated(r)
    BY <1>1, <2>1, Zenon DEF RetryInv
  <2>5. Stored(r)
    BY <2>2, <2>3, <2>4, Zenon DEF Repeated, Stored
  <2>6. Stored(r)'
    BY <2>1, <2>5, Zenon DEF Stored
  <2> QED BY <1>1, <2>2, <2>6, Zenon
<1>3. CASE Send(t)
  <2>1. call' = [call EXCEPT ![t] = At("handle", r, Accepts(r))] /\ AgentSubmit(r)
    BY <1>1, <1>3, Zenon DEF Send
  <2>2. call'[t].request = r /\ call'[t].accepted = Accepts(r)
    BY <2>1, Zenon
  <2>3. CASE r.event \in DOMAIN entries
    <3>1. UNCHANGED entries
      BY <2>1, <2>3, Zenon DEF AgentSubmit
    <3>2. entries[r.event] = r.payload
      BY <2>2, <2>3, Zenon DEF Accepts
    <3>3. Stored(r)'
      BY <2>3, <3>1, <3>2, Zenon DEF Stored
    <3> QED BY <1>1, <2>2, <3>3, Zenon
  <2>4. CASE r.event \notin DOMAIN entries
    <3>1. entries' = Attach(entries, r.event, r.payload)
      BY <2>1, <2>2, <2>4, Zenon DEF AgentSubmit
    <3>2. Stored(r)'
      BY <3>1, Zenon DEF Attach, Stored
    <3> QED BY <1>1, <2>2, <3>2, Zenon
  <2> QED BY <1>1, <2>2, <2>3, <2>4, Zenon
<1> QED BY <1>2, <1>3, Zenon

\* Every step preserves the invariant of acceptance.
LEMMA StoredStep ==
  ASSUME TrackingInv, RetryInv, StoredInv, [TrackingNext]_trackingVars
  PROVE  StoredInv'
<1> USE DEF TrackingInv, TrackingTypeOK
<1>1. ASSUME NEW u \in Threads, call'[u].step = "handle", call'[u].accepted = TRUE
      PROVE  Stored(call[u].request)'
  <2>1. CASE call'[u] = call[u]
    <3>1. PICK r : r = call[u].request
      OBVIOUS
    <3>2. Stored(r)'
      BY <1>1, <2>1, <3>1, StoredStays, ZenonT(40) DEF StoredInv
    <3> QED BY <2>1, <3>1, <3>2, Zenon
  <2>2. CASE StatusLookup(u) \/ Send(u)
    BY <1>1, <2>2, AnswerIsStored, Zenon
  <2>3. ASSUME NEW t \in Threads, t # u, ThreadStep(t) PROVE call'[u] = call[u]
    BY <2>3, Zenon DEF ThreadStep, SubmitTracked, SubmitNew, AllocateSequence, AttachRequest,
       AttachRefused, StatusLookup, Send, ReturnHandle, detachTracking, DropHandle, DropRequest,
       ReadStatus, trackingVars
  <2>4. CASE ThreadStep(u)
    <3>1. ~\E e \in Events, p \in Payloads : SubmitTracked(u, e, p) \/ SubmitNew(u, e, p)
      BY <1>1 DEF SubmitTracked, SubmitNew
    <3>2. ~AllocateSequence(u) /\ ~AttachRequest(u) /\ ~AttachRefused(u) /\ ~ReturnHandle(u)
      BY <1>1 DEF AllocateSequence, AttachRequest, AttachRefused, ReturnHandle
    <3>3. ~DropHandle(u) /\ ~DropRequest(u) /\ ~\E h \in DOMAIN handles : detachTracking(u, h)
      BY <1>1 DEF DropHandle, DropRequest, detachTracking
    <3>4. ReadStatus(u) => call'[u] = call[u]
      BY Zenon DEF ReadStatus, trackingVars
    <3> QED BY <2>1, <2>2, <2>4, <3>1, <3>2, <3>3, <3>4, Zenon DEF ThreadStep
  <2>5. CASE registerProducer \/ addOwnedNamespace \/ disableProducer \/ UNCHANGED trackingVars
    BY <2>1, <2>5, Zenon DEF registerProducer, addOwnedNamespace, disableProducer, trackingVars
  <2> QED BY <2>1, <2>3, <2>4, <2>5, Zenon DEF TrackingNext
<1>2. ASSUME NEW h \in DOMAIN handles', handles'[h].accepted = TRUE
      PROVE  Stored(handles[h].request)'
  <2>1. CASE /\ h \in DOMAIN handles /\ handles'[h].request = handles[h].request
             /\ handles[h].accepted = TRUE
    <3>1. PICK r : r = handles[h].request
      OBVIOUS
    <3>2. Stored(r)'
      BY <2>1, <3>1, StoredStays, Zenon DEF StoredInv
    <3> QED BY <2>1, <3>1, <3>2, Zenon
  <2>2. ASSUME NEW t \in Threads, AttachRefused(t) PROVE h \in DOMAIN handles /\ handles'[h] = handles[h]
    <3>1. PICK new : handles' = Append(handles, new) /\ new.accepted = FALSE
      BY <2>2 DEF AttachRefused
    <3>2. h = Len(handles) + 1 => handles'[h].accepted = FALSE
      BY <3>1
    <3>3. h # Len(handles) + 1
      BY <1>2, <3>2, Zenon
    <3> QED BY <3>1, <3>3
  <2>3. ASSUME NEW t \in Threads, ReturnHandle(t)
        PROVE  Stored(handles[h].request)'
    <3>1. PICK new : /\ handles' = Append(handles, new) /\ new.accepted = call[t].accepted
                     /\ new.request = call[t].request
      BY <2>3 DEF ReturnHandle
    <3>2. CASE h = Len(handles) + 1
      <4>1. handles'[h] = new
        BY <3>1, <3>2
      <4>2. PICK r : r = call[t].request
        OBVIOUS
      <4>3. Stored(r)
        BY <1>2, <2>3, <3>1, <4>1, <4>2, Zenon DEF ReturnHandle, StoredInv
      <4>4. Stored(r)'
        BY <4>3, StoredStays, Zenon
      <4> QED BY <3>1, <4>1, <4>2, <4>4, Zenon
    <3>3. CASE h # Len(handles) + 1
      <4>1. h \in DOMAIN handles /\ handles'[h] = handles[h]
        BY <3>1, <3>3
      <4> QED BY <1>2, <2>1, <4>1, Zenon
    <3> QED BY <3>2, <3>3, Zenon
  <2>4. ASSUME NEW t \in Threads, NEW g \in DOMAIN handles, detachTracking(t, g)
        PROVE  /\ h \in DOMAIN handles /\ handles'[h].request = handles[h].request
               /\ handles[h].accepted = TRUE
    BY <1>2, <2>4, Zenon DEF detachTracking
  <2>5. CASE UNCHANGED handles
    BY <1>2, <2>1, <2>5, Zenon
  <2>6. ASSUME NEW t \in Threads, ThreadStep(t)
        PROVE  \/ UNCHANGED handles
               \/ AttachRefused(t) \/ ReturnHandle(t) \/ \E g \in DOMAIN handles : detachTracking(t, g)
    BY <2>6, Zenon DEF ThreadStep, SubmitTracked, SubmitNew, AllocateSequence, AttachRequest,
       StatusLookup, Send, DropHandle, DropRequest, ReadStatus, trackingVars
  <2>7. CASE registerProducer \/ addOwnedNamespace \/ disableProducer \/ UNCHANGED trackingVars
    BY <2>5, <2>7, Zenon DEF registerProducer, addOwnedNamespace, disableProducer, trackingVars
  <2> QED BY <1>2, <2>1, <2>2, <2>3, <2>4, <2>5, <2>6, <2>7, Zenon DEF TrackingNext
<1> QED BY <1>1, <1>2, EntriesWereSent, Zenon DEF StoredInv

\* A handle reports acceptance only of an event the agent holds, with the payload that
\* was submitted unless the event is superseded, for any number of threads and events.
THEOREM AcceptedIsStoredHolds == TrackingSpec => []AcceptedIsStored
<1>1. TrackingInit => StoredInv
  BY DEF TrackingInit, StoredInv, NoRequest
<1>2. TrackingInv /\ StoredInv => AcceptedIsStored
  <2> SUFFICES ASSUME TrackingInv, StoredInv, NEW h \in DOMAIN handles, handles[h].accepted
               PROVE  Stored(handles[h].request)
    BY Zenon DEF AcceptedIsStored, Stored
  <2>1. handles[h] \in Handle
    BY DEF TrackingInv, TrackingTypeOK
  <2>2. handles[h].accepted = TRUE
    BY <2>1, Zenon DEF Handle
  <2> QED BY <2>2, Zenon DEF StoredInv
<1> QED BY <1>1, <1>2, StoredStep, RetryInit, RetryStep, TrackingInitType, TrackingTypeStep, PTL
     DEF TrackingSpec

---------------------------------------------------------------------------
(* Capacity.                                                               *)

\* A handle once returned keeps its request, and stays undetached unless
\* detachTracking is called on it.
LEMMA HandlesGrow ==
  ASSUME TrackingInv, NEW handle, handles' = Append(handles, handle), NEW e, HeldBy(e)
  PROVE  HeldBy(e)'
<1>1. PICK h \in DOMAIN handles : ~handles[h].detached /\ handles[h].request.event = e
  BY Zenon DEF HeldBy
<1>2. h \in DOMAIN handles' /\ handles'[h] = handles[h]
  BY DEF TrackingInv, TrackingTypeOK
<1> QED BY <1>1, <1>2, Zenon DEF HeldBy

\* Capacity is never leaked: whatever threads submit, retry and detach at once,
\* a tracked event has a holder that can release it, or a thread about to.
THEOREM TrackedHasOwnerHolds == TrackingSpec => []TrackedHasOwner
<1>1. TrackingInit => TrackedHasOwner
  BY Zenon DEF TrackingInit, TrackedHasOwner, NoRequest
<1>2. ASSUME TrackingInv, TrackedHasOwner, [TrackingNext]_trackingVars
      PROVE  TrackedHasOwner'
  <2> USE <1>2 DEF TrackingInv, TrackingTypeOK, IsTracker, clientVars, agentVars, accessVars
  <2>1. ASSUME NEW t \in Threads, NEW e \in Events, NEW p \in Payloads,
               SubmitTracked(t, e, p) \/ SubmitNew(t, e, p)
        PROVE  TrackedHasOwner'
    BY <2>1, SMTT(30) DEF SubmitTracked, SubmitNew, TrackedHasOwner, HeldBy, BusyWith, DetachSteps
  <2>2. ASSUME NEW t \in Threads, AllocateSequence(t) PROVE TrackedHasOwner'
    BY <2>2, Zenon DEF AllocateSequence, TrackedHasOwner, HeldBy, BusyWith, DetachSteps
  <2>3. ASSUME NEW t \in Threads, AttachRequest(t) PROVE TrackedHasOwner'
    BY <2>3, SMTT(30) DEF AttachRequest, Attach, TrackedHasOwner, HeldBy, BusyWith, DetachSteps
  <2>4. ASSUME NEW t \in Threads, AttachRefused(t) PROVE TrackedHasOwner'
    <3>1. \A e : HeldBy(e) => HeldBy(e)'
      BY <2>4, HandlesGrow, Zenon DEF AttachRefused
    <3>2. \A e : BusyWith(e, {"status", "send", "handle"} \cup DetachSteps)
                 => BusyWith(e, {"status", "send", "handle"} \cup DetachSteps)'
      BY <2>4, Zenon DEF AttachRefused, BusyWith, DetachSteps
    <3>3. \A e : BusyWith(e, {"drop_handle"}) => BusyWith(e, {"drop_handle"})'
      BY <2>4, Zenon DEF AttachRefused, BusyWith
    <3> QED BY <2>4, <3>1, <3>2, <3>3, Zenon DEF AttachRefused, TrackedHasOwner
  <2>5. ASSUME NEW t \in Threads, StatusLookup(t) PROVE TrackedHasOwner'
    BY <2>5, ZenonT(40) DEF StatusLookup, TrackedHasOwner, HeldBy, BusyWith, DetachSteps
  <2>6. ASSUME NEW t \in Threads, Send(t) PROVE TrackedHasOwner'
    BY <2>6, Zenon DEF Send, TrackedHasOwner, HeldBy, BusyWith, DetachSteps
  <2>7. ASSUME NEW t \in Threads, ReturnHandle(t) PROVE TrackedHasOwner'
    <3>0. PICK ev : ev = call[t].request.event
      OBVIOUS
    <3>1. \A e : HeldBy(e) => HeldBy(e)'
      BY <2>7, HandlesGrow, Zenon DEF ReturnHandle
    <3>2. HeldBy(ev)'
      <4>1. /\ Len(handles) + 1 \in DOMAIN handles'
            /\ handles'[Len(handles) + 1].detached = FALSE
            /\ handles'[Len(handles) + 1].request.event = ev
        BY <3>0, <2>7 DEF ReturnHandle
      <4> QED BY <4>1, Zenon DEF HeldBy
    <3>3. \A e : BusyWith(e, {"status", "send", "handle"} \cup DetachSteps) =>
                   e = ev \/ BusyWith(e, {"status", "send", "handle"} \cup DetachSteps)'
      BY <3>0, <2>7, Zenon DEF ReturnHandle, BusyWith, DetachSteps
    <3>4. \A e : BusyWith(e, {"drop_handle"}) => BusyWith(e, {"drop_handle"})'
      BY <2>7, Zenon DEF ReturnHandle, BusyWith
    <3>5. DOMAIN publishHandles' \subseteq DOMAIN publishHandles \cup {ev}
      BY <3>0, <2>7, Zenon DEF ReturnHandle, Attach
    <3>6. trackedRequests' = trackedRequests
      BY <2>7, Zenon DEF ReturnHandle
    <3> QED BY <3>1, <3>2, <3>3, <3>4, <3>5, <3>6, Zenon DEF TrackedHasOwner
  <2>8. ASSUME NEW t \in Threads, NEW h \in DOMAIN handles, detachTracking(t, h)
        PROVE  TrackedHasOwner'
    <3>0. PICK ev : ev = handles[h].request.event
      OBVIOUS
    <3>1. BusyWith(ev, {"drop_handle"})'
      BY <3>0, <2>8, Zenon DEF detachTracking, BusyWith
    <3>2. \A e : HeldBy(e) => e = ev \/ HeldBy(e)'
      BY <3>0, <2>8, Zenon DEF detachTracking, HeldBy
    <3>3. \A e : BusyWith(e, {"status", "send", "handle"} \cup DetachSteps) =>
                   BusyWith(e, {"status", "send", "handle"} \cup DetachSteps)'
      BY <2>8 DEF detachTracking, BusyWith, DetachSteps
    <3>4. \A e : BusyWith(e, {"drop_handle"}) => BusyWith(e, {"drop_handle"})'
      BY <2>8 DEF detachTracking, BusyWith
    <3>5. BusyWith(ev, {"status", "send", "handle"} \cup DetachSteps)'
      BY <3>1, Zenon DEF BusyWith, DetachSteps
    <3>6. UNCHANGED <<trackedRequests, publishHandles>>
      BY <2>8, Zenon DEF detachTracking
    <3> QED BY <3>1, <3>2, <3>3, <3>4, <3>5, <3>6, Zenon DEF TrackedHasOwner
  <2>9. ASSUME NEW t \in Threads, DropHandle(t) PROVE TrackedHasOwner'
    BY <2>9, ZenonT(40) DEF DropHandle, Detach, TrackedHasOwner, HeldBy, BusyWith, DetachSteps
  <2>10. ASSUME NEW t \in Threads, DropRequest(t) PROVE TrackedHasOwner'
    BY <2>10, Zenon DEF DropRequest, Detach, TrackedHasOwner, HeldBy, BusyWith, DetachSteps
  <2>11. CASE registerProducer \/ addOwnedNamespace \/ disableProducer
    BY <2>11 DEF registerProducer, addOwnedNamespace, disableProducer, TrackedHasOwner, HeldBy, BusyWith
  <2>12. CASE UNCHANGED trackingVars
    BY <2>12, Zenon DEF trackingVars, TrackedHasOwner, HeldBy, BusyWith
  <2> QED BY <2>1, <2>2, <2>3, <2>4, <2>5, <2>6, <2>7, <2>8, <2>9, <2>10, <2>11, <2>12, ZenonT(40)
       DEF TrackingNext, ThreadStep, ReadStatus
<1> QED BY <1>1, <1>2, TrackingInitType, TrackingTypeStep, PTL DEF TrackingSpec

=============================================================================
