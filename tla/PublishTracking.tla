--------------------------- MODULE PublishTracking ---------------------------
(***************************************************************************)
(* A LogicalProducerClient of the Paper bridge: plugin threads submit      *)
(* events and detach the handles they were given, over two bounded         *)
(* trackers and the in-memory agent fixture, the only AgentClient there is.*)
(*                                                                         *)
(* Every access of a plugin thread to a tracker, to the sequence counter   *)
(* or to the agent is one synchronized or atomic operation, and one        *)
(* action; what a thread does between two of them touches nothing shared.  *)
(* The methods that administer the fixture are not synchronized: each adds *)
(* to one set, and the model lets a submission see the set before or after *)
(* the addition.  The fixture completes its stages at once, so the whole   *)
(* chain of a submission runs on the calling thread.  An envelope is       *)
(* abstracted to its event id and a payload; producerOperationSequence is  *)
(* called seq.                                                             *)
(***************************************************************************)
EXTENDS Naturals, Sequences, FiniteSets

CONSTANTS
  Threads, Events, Payloads,
  MaxPendingPublishes,  \* maxPendingPublishes of the integration manifest
  AgentCapacity,        \* capacity of the fixture
  InFlightLimit,        \* perProducerInFlightLimit of the fixture
  MaxHandles            \* bound: submissions the plugin makes

ASSUME TrackingConstants ==
  /\ MaxPendingPublishes \in Nat \ {0}
  /\ AgentCapacity \in Nat \ {0}
  /\ InFlightLimit \in Nat
  /\ MaxHandles \in Nat

VARIABLES
  nextSequence,      \* AtomicLong
  trackedRequests,   \* event -> request
  publishHandles,    \* event -> index of a handle
  superseded,        \* history: events whose tracked request was replaced or released
  handles,           \* every BridgePublishHandle returned, in order of creation
  call,              \* thread -> where it is in submit or detachTracking
  entries,           \* the agent: event -> payload stored
  producerInFlight,  \* the agent's count for this producer
  authorizedProducers, ownedNamespaces,  \* what the agent's lists say of this one
  disabled,          \* in disabledProducers or suspendedProducers
  sent               \* history: the requests that reached the agent

clientVars == <<nextSequence, trackedRequests, publishHandles, superseded>>
accessVars == <<authorizedProducers, ownedNamespaces, disabled>>
agentVars == <<entries, producerInFlight, accessVars, sent>>
trackingVars == <<clientVars, handles, call, agentVars>>

\* A list that is empty admits everyone.
Listing == {"empty", "others", "listed"}

Request == [event : Events, payload : Payloads, seq : Nat]

\* seq 0 is "not allocated yet".
Handle ==
  [request : Request, attached : BOOLEAN, detached : BOOLEAN, accepted : BOOLEAN]

SubmitSteps == {"allocate", "attach", "status", "send", "handle"}
DetachSteps == {"drop_handle", "drop_request"}

At(step, request, accepted) ==
  [step |-> step, request |-> request, accepted |-> accepted]

Idle == [step |-> "idle"]

Calls ==
  {Idle} \cup [step : SubmitSteps \cup DetachSteps, request : Request,
               accepted : BOOLEAN]

---------------------------------------------------------------------------
(* BoundedTracker.                                                         *)

CanAttach_OneTooMany(tracker, key) ==
  key \in DOMAIN tracker \/ Cardinality(DOMAIN tracker) <= MaxPendingPublishes

CanAttach(tracker, key) ==
  key \in DOMAIN tracker \/ Cardinality(DOMAIN tracker) < MaxPendingPublishes

Attach(tracker, key, value) ==
  [k \in DOMAIN tracker \cup {key} |-> IF k = key THEN value ELSE tracker[k]]

Detach(tracker, key) == [k \in DOMAIN tracker \ {key} |-> tracker[k]]

---------------------------------------------------------------------------
(* FakeAgentFixture.submit.                                                *)

Refused(r) ==
  \/ disabled
  \/ authorizedProducers = "others"
  \/ ownedNamespaces = "others"
  \/ producerInFlight >= InFlightLimit
  \/ r.event \notin DOMAIN entries /\ Cardinality(DOMAIN entries) >= AgentCapacity

Accepts(r) == ~Refused(r) /\ (r.event \in DOMAIN entries => entries[r.event] = r.payload)

AgentSubmit(r) ==
  /\ sent' = sent \cup {r}
  /\ IF Accepts(r) /\ r.event \notin DOMAIN entries
     THEN /\ entries' = Attach(entries, r.event, r.payload)
          /\ producerInFlight' = producerInFlight + 1
     ELSE UNCHANGED <<entries, producerInFlight>>
  /\ UNCHANGED accessVars

---------------------------------------------------------------------------
(* LogicalProducerClient.submit.  A retry with another payload throws      *)
(* before anything changes and is no step.                                 *)

Submitting == {t \in Threads : call[t].step \in SubmitSteps}

\* Variant: a retry takes a sequence of its own.
SubmitTracked_FreshSequence(t, e, p) ==
  /\ call[t] = Idle
  /\ Len(handles) + Cardinality(Submitting) < MaxHandles
  /\ e \in DOMAIN trackedRequests
  /\ trackedRequests[e].payload = p
  /\ call' = [call EXCEPT ![t] =
                At("send", [event |-> e, payload |-> p, seq |-> nextSequence], FALSE)]
  /\ nextSequence' = nextSequence + 1
  /\ UNCHANGED <<trackedRequests, publishHandles, superseded, handles, agentVars>>

SubmitTracked(t, e, p) ==
  /\ call[t] = Idle
  /\ Len(handles) + Cardinality(Submitting) < MaxHandles
  /\ e \in DOMAIN trackedRequests
  /\ trackedRequests[e].payload = p
  /\ call' = [call EXCEPT ![t] = At("send", trackedRequests[e], FALSE)]
  /\ UNCHANGED <<clientVars, handles, agentVars>>

SubmitNew(t, e, p) ==
  /\ call[t] = Idle
  /\ Len(handles) + Cardinality(Submitting) < MaxHandles
  /\ e \notin DOMAIN trackedRequests
  /\ call' = [call EXCEPT ![t] =
                At("allocate", [event |-> e, payload |-> p, seq |-> 0], FALSE)]
  /\ UNCHANGED <<clientVars, handles, agentVars>>

AllocateSequence(t) ==
  /\ call[t].step = "allocate"
  /\ call' = [call EXCEPT ![t] =
                At("attach", [event |-> call[t].request.event,
                              payload |-> call[t].request.payload,
                              seq |-> nextSequence], FALSE)]
  /\ nextSequence' = nextSequence + 1
  /\ UNCHANGED <<trackedRequests, publishHandles, superseded, handles, agentVars>>

\* The sequence of a request that replaces another one is given back.
AttachRequest_GivesBack(t) ==
  LET r == call[t].request IN
  /\ call[t].step = "attach"
  /\ CanAttach(trackedRequests, r.event)
  /\ trackedRequests' = Attach(trackedRequests, r.event, r)
  /\ nextSequence' = IF r.event \in DOMAIN trackedRequests
                     THEN nextSequence - 1 ELSE nextSequence
  /\ superseded' = superseded \cup ({r.event} \cap DOMAIN trackedRequests)
  /\ call' = [call EXCEPT ![t] = At("status", r, FALSE)]
  /\ UNCHANGED <<publishHandles, handles, agentVars>>

AttachRequest(t) ==
  LET r == call[t].request IN
  /\ call[t].step = "attach"
  /\ CanAttach(trackedRequests, r.event)
  /\ trackedRequests' = Attach(trackedRequests, r.event, r)
  /\ superseded' = superseded \cup ({r.event} \cap DOMAIN trackedRequests)
  /\ call' = [call EXCEPT ![t] = At("status", r, FALSE)]
  /\ UNCHANGED <<nextSequence, publishHandles, handles, agentVars>>

AttachRefused(t) ==
  LET r == call[t].request IN
  /\ call[t].step = "attach"
  /\ ~CanAttach(trackedRequests, r.event)
  /\ handles' = Append(handles, [request |-> r, attached |-> FALSE,
                                 detached |-> TRUE, accepted |-> FALSE])
  /\ call' = [call EXCEPT ![t] = Idle]
  /\ UNCHANGED <<clientVars, agentVars>>

StatusLookup(t) ==
  LET r == call[t].request IN
  /\ call[t].step = "status"
  /\ call' = [call EXCEPT ![t] = IF r.event \in DOMAIN entries
                                 THEN At("handle", r, TRUE)
                                 ELSE At("send", r, FALSE)]
  /\ UNCHANGED <<clientVars, handles, agentVars>>

\* Variant: the agent's answer is not looked at.
Send_AnyAnswer(t) ==
  LET r == call[t].request IN
  /\ call[t].step = "send"
  /\ AgentSubmit(r)
  /\ call' = [call EXCEPT ![t] = At("handle", r, TRUE)]
  /\ UNCHANGED <<clientVars, handles>>

Send(t) ==
  LET r == call[t].request IN
  /\ call[t].step = "send"
  /\ AgentSubmit(r)
  /\ call' = [call EXCEPT ![t] = At("handle", r, Accepts(r))]
  /\ UNCHANGED <<clientVars, handles>>

\* The answer of publishHandles.attach is ignored by the code.
ReturnHandle(t) ==
  LET r == call[t].request IN
  /\ call[t].step = "handle"
  /\ handles' = Append(handles, [request |-> r, attached |-> TRUE,
                                 detached |-> FALSE, accepted |-> call[t].accepted])
  /\ publishHandles' = IF CanAttach(publishHandles, r.event)
                       THEN Attach(publishHandles, r.event, Len(handles) + 1)
                       ELSE publishHandles
  /\ call' = [call EXCEPT ![t] = Idle]
  /\ UNCHANGED <<nextSequence, trackedRequests, superseded, agentVars>>

---------------------------------------------------------------------------
(* BridgePublishHandle.detachTracking: the first call on a handle runs the *)
(* two detaches of the callback, one after the other.                      *)

detachTracking(t, h) ==
  /\ call[t] = Idle
  /\ ~handles[h].detached
  /\ handles' = [handles EXCEPT ![h] =
                   [request |-> handles[h].request, attached |-> handles[h].attached,
                    detached |-> TRUE, accepted |-> handles[h].accepted]]
  /\ call' = [call EXCEPT ![t] = At("drop_handle", handles[h].request, FALSE)]
  /\ UNCHANGED <<clientVars, agentVars>>

DropHandle_KeepsRequest(t) ==
  /\ call[t].step = "drop_handle"
  /\ publishHandles' = Detach(publishHandles, call[t].request.event)
  /\ call' = [call EXCEPT ![t] = Idle]
  /\ UNCHANGED <<nextSequence, trackedRequests, superseded, handles, agentVars>>

DropHandle(t) ==
  LET r == call[t].request IN
  /\ call[t].step = "drop_handle"
  /\ publishHandles' = Detach(publishHandles, r.event)
  /\ call' = [call EXCEPT ![t] = At("drop_request", r, FALSE)]
  /\ UNCHANGED <<nextSequence, trackedRequests, superseded, handles, agentVars>>

DropRequest(t) ==
  LET r == call[t].request IN
  /\ call[t].step = "drop_request"
  /\ trackedRequests' = Detach(trackedRequests, r.event)
  /\ superseded' = superseded \cup {r.event}
  /\ call' = [call EXCEPT ![t] = Idle]
  /\ UNCHANGED <<nextSequence, publishHandles, handles, agentVars>>

\* awaitLocalAcceptance, awaitRequiredDurability, getStatus and
\* getPublishStatus only read.
ReadStatus(t) == call[t] = Idle /\ UNCHANGED trackingVars

---------------------------------------------------------------------------
(* The fixture's administration.  Nothing is ever removed from its lists.   *)

Added(list) == {"listed"} \cup (IF list = "empty" THEN {"others"} ELSE {})

registerProducer ==
  /\ authorizedProducers # "listed"
  /\ authorizedProducers' \in Added(authorizedProducers)
  /\ UNCHANGED <<clientVars, handles, call, entries, producerInFlight, sent,
                 ownedNamespaces, disabled>>

addOwnedNamespace ==
  /\ ownedNamespaces # "listed"
  /\ ownedNamespaces' \in Added(ownedNamespaces)
  /\ UNCHANGED <<clientVars, handles, call, entries, producerInFlight, sent,
                 authorizedProducers, disabled>>

disableProducer ==
  /\ ~disabled
  /\ disabled' = TRUE
  /\ UNCHANGED <<clientVars, handles, call, entries, producerInFlight, sent,
                 authorizedProducers, ownedNamespaces>>

---------------------------------------------------------------------------

NoRequest == [e \in {} |-> 0]

TrackingInit ==
  /\ nextSequence = 1
  /\ trackedRequests = NoRequest
  /\ publishHandles = NoRequest
  /\ superseded = {}
  /\ handles = <<>>
  /\ call = [t \in Threads |-> Idle]
  /\ entries = NoRequest
  /\ producerInFlight = 0
  /\ authorizedProducers = "empty" /\ ownedNamespaces = "empty" /\ disabled = FALSE
  /\ sent = {}

ThreadStep(t) ==
  \/ \E e \in Events, p \in Payloads : SubmitTracked(t, e, p) \/ SubmitNew(t, e, p)
  \/ AllocateSequence(t)
  \/ AttachRequest(t)
  \/ AttachRefused(t)
  \/ StatusLookup(t)
  \/ Send(t)
  \/ ReturnHandle(t)
  \/ \E h \in DOMAIN handles : detachTracking(t, h)
  \/ DropHandle(t)
  \/ DropRequest(t)
  \/ ReadStatus(t)

TrackingNext ==
  \/ \E t \in Threads : ThreadStep(t)
  \/ registerProducer
  \/ addOwnedNamespace
  \/ disableProducer

TrackingSpec == TrackingInit /\ [][TrackingNext]_trackingVars

---------------------------------------------------------------------------
(* Properties.                                                             *)

IsTracker(tracker, values) ==
  /\ DOMAIN tracker \subseteq Events
  /\ \A e \in DOMAIN tracker : tracker[e] \in values

\* The shape of the state.  Neither tracker ever holds more events than
\* maxPendingPublishes, whatever the threads that attach at the same time.
TrackingTypeOK ==
  /\ nextSequence \in Nat \ {0}
  /\ IsTracker(trackedRequests, Request)
  /\ Cardinality(DOMAIN trackedRequests) <= MaxPendingPublishes
  /\ IsTracker(publishHandles, DOMAIN handles)
  /\ Cardinality(DOMAIN publishHandles) <= MaxPendingPublishes
  /\ superseded \subseteq Events
  /\ handles \in Seq(Handle)
  /\ call \in [Threads -> Calls]
  /\ IsTracker(entries, Payloads)
  /\ producerInFlight \in Nat
  /\ authorizedProducers \in Listing /\ ownedNamespaces \in Listing
  /\ disabled \in BOOLEAN
  /\ sent \subseteq Request

\* Two requests that reach the agent under one producer operation sequence are the
\* same request: no sequence that nextSequence hands out is ever spent on two events,
\* or on two payloads of one, however submissions, replacements and releases overlap.
SequenceNotShared == \A r, q \in sent : r.seq = q.seq => r = q

\* A retry repeats the request: everything the agent is sent for one event has the same
\* payload and the same sequence, by whichever threads, until a submission that overlaps
\* another one replaces the tracked request or a detached handle releases it.  submit
\* looks the event up and attaches it in separate steps, and only that lets two
\* sequences be sent for an event that was never released.
RetryRepeatsRequest ==
  \A r, q \in sent : r.event = q.event => r = q \/ r.event \in superseded

HeldBy(e) == \E h \in DOMAIN handles : ~handles[h].detached /\ handles[h].request.event = e

BusyWith(e, steps) ==
  \E t \in Threads : call[t].step \in steps /\ call[t].request.event = e

\* Capacity is never leaked: an event occupies a tracker only while a caller
\* holds a handle that still can release it, or a thread is about to return
\* such a handle, or about to release the event.
TrackedHasOwner ==
  /\ \A e \in DOMAIN trackedRequests :
       HeldBy(e) \/ BusyWith(e, {"status", "send", "handle"} \cup DetachSteps)
  /\ \A e \in DOMAIN publishHandles : HeldBy(e) \/ BusyWith(e, {"drop_handle"})

\* A handle that reports acceptance stands for an event the agent holds.  It holds the
\* payload the caller submitted, too, unless the event's tracking was replaced or
\* released: submit then asks for the status of the event id alone, and takes the entry
\* of another payload for its own.
AcceptedIsStored ==
  \A h \in DOMAIN handles :
    LET r == handles[h].request IN
    handles[h].accepted =>
      /\ r.event \in DOMAIN entries
      /\ entries[r.event] = r.payload \/ r.event \in superseded

=============================================================================
