------------------------------ MODULE Publisher ------------------------------
(***************************************************************************)
(* The publish/subscribe core of the server: the subscription table, the   *)
(* shared event queue and the publisher thread of TioTcpServer.            *)
(*                                                                         *)
(* A storage calls OnAnyContainerEvent for every change; a session calls   *)
(* SessionAsyncSubscribe for every subscription.  Both run on io threads   *)
(* and each holds subscribersMutex_ and eventQueueMutex_ together, so each *)
(* is one atomic step.  The publisher thread swaps the queue into a batch  *)
(* of its own and walks it event by event and subscriber by subscriber;    *)
(* between two of its steps it holds no lock.                              *)
(*                                                                         *)
(* What a subscriber receives is left to the modules that extend this one: *)
(* they conjoin the storage's data and the subscriber's copy of it with    *)
(* SendSubscriptionSnapshot and PublishEvent.                              *)
(***************************************************************************)
EXTENDS Naturals, Sequences, Functions

CONSTANTS
    Sessions,       \* TioTcpSession objects
    Storages,       \* storage ids (ITioStorage::GetId)
    Subscriptions,  \* SubscriptionInfo objects, one per call of SessionAsyncSubscribe
    Keys, Values,   \* what an event may carry
    Null,           \* TIONULL
    NoSnapshot,     \* an empty SubscriptionInfo::start
    SessionOf,      \* SubscriptionInfo::session
    StorageOf,      \* SubscriptionInfo::container->GetStorageId()
    StartOf         \* SubscriptionInfo::start

ASSUME SubscriptionsAssumption ==
    /\ SessionOf \in [Subscriptions -> Sessions]
    /\ StorageOf \in [Subscriptions -> Storages]
    /\ DOMAIN StartOf = Subscriptions

VARIABLES
    sessionState,          \* "valid", "invalid" (valid_ = false) or "gone" (destroyed)
    subscribers,           \* subscribers_; <<>> stands for no entry, entries never shrink
    snapshotPending,       \* SubscriptionInfo::snapshotPending
    eventQueue,            \* eventQueue_
    localEventQueue,       \* the publisher's batch, from the event after the current one on
    eventInfo,             \* the event the publisher is handling, NoEvent between events
    interestedSubscribers  \* its copy of the subscriber vector, what is left of the walk

pubVars == <<sessionState, subscribers, snapshotPending, eventQueue,
             localEventQueue, eventInfo, interestedSubscribers>>

UpdateCodes == {"PUSH_BACK", "PUSH_FRONT", "SET", "INSERT", "DELETE", "CLEAR"}

EventInfo ==
    [storageId : Storages, eventCode : UpdateCodes \cup {"SNAPSHOT_END"},
     k : Keys \cup {Null}, v : Values \cup {Null}]

Updates == {e \in EventInfo : e.eventCode \in UpdateCodes}

SnapshotEnd(c) ==
    [storageId |-> c, eventCode |-> "SNAPSHOT_END", k |-> Null, v |-> Null]

NoEvent ==
    [storageId |-> Null, eventCode |-> "NONE", k |-> Null, v |-> Null]

PubTypeOK ==
    /\ sessionState \in [Sessions -> {"valid", "invalid", "gone"}]
    /\ subscribers \in [Storages -> Seq(Subscriptions)]
    /\ snapshotPending \in [Subscriptions -> BOOLEAN]
    /\ eventQueue \in Seq(EventInfo)
    /\ localEventQueue \in Seq(EventInfo)
    /\ eventInfo \in EventInfo \cup {NoEvent}
    /\ interestedSubscribers \in Seq(Subscriptions)

PubInit ==
    /\ sessionState = [t \in Sessions |-> "valid"]
    /\ subscribers = [c \in Storages |-> <<>>]
    /\ snapshotPending = [s \in Subscriptions |-> TRUE]
    /\ eventQueue = <<>>
    /\ localEventQueue = <<>>
    /\ eventInfo = NoEvent
    /\ interestedSubscribers = <<>>

Subscribed(s) == s \in Range(subscribers[StorageOf[s]])

-----------------------------------------------------------------------------
(* The io threads. *)

SessionAsyncSubscribe(s) ==
    /\ ~Subscribed(s)
    /\ sessionState[SessionOf[s]] # "gone"
    /\ eventQueue' = Append(eventQueue, SnapshotEnd(StorageOf[s]))
    /\ subscribers' = [subscribers EXCEPT ![StorageOf[s]] = Append(@, s)]
    /\ UNCHANGED <<sessionState, snapshotPending, localEventQueue, eventInfo,
                   interestedSubscribers>>

OnEventUnfiltered(e) ==  \* mutant: no look-up in subscribers_
    /\ eventQueue' = Append(eventQueue, e)
    /\ UNCHANGED <<sessionState, subscribers, snapshotPending, localEventQueue,
                   eventInfo, interestedSubscribers>>

OnEventLifo(e) ==  \* mutant: the newest event goes to the front
    /\ eventQueue' = IF subscribers[e.storageId] = <<>>
                     THEN eventQueue
                     ELSE <<e>> \o eventQueue
    /\ UNCHANGED <<sessionState, subscribers, snapshotPending, localEventQueue,
                   eventInfo, interestedSubscribers>>

OnEventWhenEmpty(e) ==  \* mutant: only an empty queue takes an event
    /\ eventQueue' = IF subscribers[e.storageId] = <<>> \/ eventQueue # <<>>
                     THEN eventQueue
                     ELSE Append(eventQueue, e)
    /\ UNCHANGED <<sessionState, subscribers, snapshotPending, localEventQueue,
                   eventInfo, interestedSubscribers>>

OnAnyContainerEvent(e) ==
    /\ eventQueue' = IF subscribers[e.storageId] = <<>>
                     THEN eventQueue
                     ELSE Append(eventQueue, e)
    /\ UNCHANGED <<sessionState, subscribers, snapshotPending, localEventQueue,
                   eventInfo, interestedSubscribers>>

\* TioTcpSession::InvalidateConnection: nothing is sent to the session any more.
\* UnsubscribeAll leaves the subscription table as it is.
InvalidateConnection(t) ==
    /\ sessionState[t] = "valid"
    /\ sessionState' = [sessionState EXCEPT ![t] = "invalid"]
    /\ UNCHANGED <<subscribers, snapshotPending, eventQueue, localEventQueue,
                   eventInfo, interestedSubscribers>>

\* The last shared_ptr goes away: the weak_ptr of a SubscriptionInfo locks to null.
DestroySession(t) ==
    /\ sessionState[t] = "invalid"
    /\ sessionState' = [sessionState EXCEPT ![t] = "gone"]
    /\ UNCHANGED <<subscribers, snapshotPending, eventQueue, localEventQueue,
                   eventInfo, interestedSubscribers>>

-----------------------------------------------------------------------------
(* The publisher thread. *)

SwapUnfinished ==  \* mutant: swaps before the batch is done
    /\ eventInfo = NoEvent
    /\ eventQueue # <<>>
    /\ localEventQueue' = eventQueue
    /\ eventQueue' = <<>>
    /\ UNCHANGED <<sessionState, subscribers, snapshotPending, eventInfo,
                   interestedSubscribers>>

SwapEventQueue ==
    /\ eventInfo = NoEvent
    /\ localEventQueue = <<>>
    /\ eventQueue # <<>>
    /\ localEventQueue' = eventQueue
    /\ eventQueue' = <<>>
    /\ UNCHANGED <<sessionState, subscribers, snapshotPending, eventInfo,
                   interestedSubscribers>>

TakeEvent ==
    /\ eventInfo = NoEvent
    /\ localEventQueue # <<>>
    /\ localEventQueue' = Tail(localEventQueue)
    /\ interestedSubscribers' = subscribers[Head(localEventQueue).storageId]
    /\ eventInfo' = IF interestedSubscribers' = <<>> THEN NoEvent
                                                      ELSE Head(localEventQueue)
    /\ UNCHANGED <<sessionState, subscribers, snapshotPending, eventQueue>>

NextSubscriber ==
    /\ interestedSubscribers' = Tail(interestedSubscribers)
    /\ eventInfo' = IF interestedSubscribers' = <<>> THEN NoEvent ELSE eventInfo
    /\ UNCHANGED <<sessionState, subscribers, eventQueue, localEventQueue>>

\* s is the subscriber the publisher is looking at; an event is handled either
\* by the snapshot loop or by the update loop.
AtSubscriber(s) == interestedSubscribers # <<>> /\ s = Head(interestedSubscribers)
InSnapshotLoop == eventInfo.eventCode = "SNAPSHOT_END"
SessionGone(s) == sessionState[SessionOf[s]] = "gone"

SkipSubscriber(s) ==
    /\ AtSubscriber(s)
    /\ \/ InSnapshotLoop /\ ~snapshotPending[s]
       \/ InSnapshotLoop /\ StartOf[s] # NoSnapshot /\ SessionGone(s)
       \/ ~InSnapshotLoop /\ snapshotPending[s]
       \/ ~InSnapshotLoop /\ SessionGone(s)
    /\ NextSubscriber
    /\ UNCHANGED snapshotPending

SubscribeWithoutSnapshot(s) ==
    /\ AtSubscriber(s)
    /\ InSnapshotLoop
    /\ snapshotPending[s]
    /\ StartOf[s] = NoSnapshot
    /\ snapshotPending' = [snapshotPending EXCEPT ![s] = FALSE]
    /\ NextSubscriber

SendSnapshotStillPending(s) ==  \* mutant: snapshotPending is never reset
    /\ AtSubscriber(s)
    /\ InSnapshotLoop
    /\ snapshotPending[s]
    /\ StartOf[s] # NoSnapshot
    /\ ~SessionGone(s)
    /\ UNCHANGED snapshotPending
    /\ NextSubscriber

\* Query and the sending of the snapshot; only this thread sends events, so the
\* lock-free gap between the two cannot be told apart from one step.
SendSubscriptionSnapshot(s) ==
    /\ AtSubscriber(s)
    /\ InSnapshotLoop
    /\ snapshotPending[s]
    /\ StartOf[s] # NoSnapshot
    /\ ~SessionGone(s)
    /\ snapshotPending' = [snapshotPending EXCEPT ![s] = FALSE]
    /\ NextSubscriber

PublishEvent(s) ==
    /\ AtSubscriber(s)
    /\ ~InSnapshotLoop
    /\ ~snapshotPending[s]
    /\ ~SessionGone(s)
    /\ NextSubscriber
    /\ UNCHANGED snapshotPending

PublisherThread ==
    \/ SwapEventQueue
    \/ TakeEvent
    \/ \E s \in Subscriptions :
          \/ SkipSubscriber(s)
          \/ SubscribeWithoutSnapshot(s)
          \/ SendSubscriptionSnapshot(s)
          \/ PublishEvent(s)

PubNext ==
    \/ \E s \in Subscriptions : SessionAsyncSubscribe(s)
    \/ \E e \in Updates : OnAnyContainerEvent(e)
    \/ \E t \in Sessions : InvalidateConnection(t) \/ DestroySession(t)
    \/ PublisherThread

\* The publisher is a thread of its own and never waits but for an event.
PubSpec == PubInit /\ [][PubNext]_pubVars /\ WF_pubVars(PublisherThread)

-----------------------------------------------------------------------------
(* Properties. *)

EventsOf(c, q) == \E i \in DOMAIN q : q[i].storageId = c

\* A subscription that still waits for its snapshot (and whose session can take
\* one) always has a SNAPSHOT_END of its storage ahead of it: in the shared
\* queue, in the publisher's batch, or in the walk under way before it has
\* reached the subscription.  TioTcpServer.cpp queues exactly one per
\* subscription and never again, so a lost one would lose the subscription.
SnapshotAhead(s) ==
    \/ SnapshotEnd(StorageOf[s]) \in Range(eventQueue)
    \/ SnapshotEnd(StorageOf[s]) \in Range(localEventQueue)
    \/ /\ eventInfo = SnapshotEnd(StorageOf[s])
       /\ s \in Range(interestedSubscribers)

PendingHasSnapshotEnd ==
    \A s \in Subscriptions :
        Subscribed(s) /\ snapshotPending[s] /\ ~SessionGone(s) => SnapshotAhead(s)

\* The subscribers of a storage are subscriptions to it, and nobody else is ever
\* taken for served; updates are queued only for storages somebody subscribed to,
\* and the publisher's walk visits only subscribers of the event's own storage:
\* nobody gets an event of a container it did not subscribe to.
RightAudience ==
    /\ \A s \in Subscriptions : ~Subscribed(s) => snapshotPending[s]
    /\ \A c \in Storages : \A s \in Range(subscribers[c]) : StorageOf[s] = c
    /\ \A c \in Storages :
          EventsOf(c, eventQueue) \/ EventsOf(c, localEventQueue)
          => subscribers[c] # <<>>
    /\ \A s \in Range(interestedSubscribers) :
          StorageOf[s] = eventInfo.storageId /\ Subscribed(s)

\* Every subscription of a session that stays connected is served: its snapshot
\* is sent (or waived), after which it gets the updates.
SubscriptionServed ==
    \A s \in Subscriptions :
        Subscribed(s) ~> (~snapshotPending[s] \/ SessionGone(s))
=============================================================================
