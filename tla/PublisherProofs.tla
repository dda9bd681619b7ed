--------------------------- MODULE PublisherProofs ---------------------------
(***************************************************************************)
(* Proofs about the publish/subscribe core: for any number of sessions,    *)
(* storages and subscriptions no subscription loses its snapshot, and no   *)
(* event reaches a subscriber of another storage.                          *)
(***************************************************************************)
EXTENDS Publisher, TLAPS

(* Sequences and the sets of their elements. *)

\* The elements of a sequence after push_back.
LEMMA RangeAppend ==
    ASSUME NEW S, NEW q \in Seq(S), NEW x \in S
    PROVE  Range(Append(q, x)) = Range(q) \cup {x}
<1>1. /\ Append(q, x) \in Seq(S)
      /\ DOMAIN Append(q, x) = 1 .. Len(q) + 1
      /\ \A i \in 1 .. Len(q) : Append(q, x)[i] = q[i]
      /\ Append(q, x)[Len(q) + 1] = x
  OBVIOUS
<1>2. DOMAIN q = 1 .. Len(q) /\ Len(q) \in Nat
  OBVIOUS
<1>3. QED
  BY <1>1, <1>2 DEF Range

\* The elements of a non-empty sequence are its head and those of its tail.
LEMMA RangeHeadTail ==
    ASSUME NEW S, NEW q \in Seq(S), q # <<>>
    PROVE  /\ Head(q) \in S
           /\ Tail(q) \in Seq(S)
           /\ Range(q) = {Head(q)} \cup Range(Tail(q))
<1>1. /\ Len(q) \in Nat /\ Len(q) > 0
      /\ DOMAIN q = 1 .. Len(q)
      /\ Head(q) = q[1]
      /\ Tail(q) \in Seq(S)
      /\ DOMAIN Tail(q) = 1 .. Len(q) - 1
      /\ \A i \in 1 .. Len(q) - 1 : Tail(q)[i] = q[i + 1]
  OBVIOUS
<1>2. Head(q) \in S
  BY <1>1
<1>3. \A i \in 1 .. Len(q) : i = 1 \/ (i - 1 \in 1 .. Len(q) - 1 /\ q[i] = Tail(q)[i - 1])
  BY <1>1
<1>4. \A i \in 1 .. Len(q) - 1 : i + 1 \in 1 .. Len(q)
  BY <1>1
<1>5. Range(q) = {Head(q)} \cup Range(Tail(q))
  <2>1. ASSUME NEW i \in DOMAIN q PROVE q[i] \in {Head(q)} \cup Range(Tail(q))
    BY <1>1, <1>3, Zenon DEF Range
  <2>2. ASSUME NEW i \in DOMAIN Tail(q) PROVE Tail(q)[i] \in Range(q)
    BY <1>1, <1>4 DEF Range
  <2>3. Head(q) \in Range(q)
    BY <1>1 DEF Range
  <2>4. QED
    BY <2>1, <2>2, <2>3 DEF Range
<1>6. QED
  BY <1>1, <1>2, <1>5

\* The empty sequence has no elements.
LEMMA RangeEmpty == Range(<<>>) = {}
  BY DEF Range

\* The elements of a sequence over S are members of S.
LEMMA RangeType ==
    ASSUME NEW S, NEW q \in Seq(S)
    PROVE  Range(q) \subseteq S
  BY DEF Range

\* Whether a queue holds an event of storage c depends on its elements only.
LEMMA EventsOfRange ==
    ASSUME NEW q, NEW c
    PROVE  EventsOf(c, q) <=> \E e \in Range(q) : e.storageId = c
  BY DEF EventsOf, Range

-----------------------------------------------------------------------------
(* The inductive invariant. *)

PubInv == PubTypeOK /\ RightAudience /\ PendingHasSnapshotEnd

\* The initial state of the server satisfies the invariant.
LEMMA PubInitInv == PubInit => PubInv
<1> SUFFICES ASSUME PubInit PROVE PubInv
  OBVIOUS
<1> USE SubscriptionsAssumption DEF PubInit
<1>1. PubTypeOK
  BY DEF PubTypeOK
<1>2. RightAudience
  BY RangeEmpty DEF RightAudience, EventsOf, Subscribed
<1>3. PendingHasSnapshotEnd
  BY RangeEmpty DEF PendingHasSnapshotEnd, Subscribed
<1>4. QED
  BY <1>1, <1>2, <1>3 DEF PubInv

\* SnapshotEnd carries its storage, and is not the absence of an event.
LEMMA SnapshotEndFacts ==
    ASSUME NEW c \in Storages
    PROVE  /\ SnapshotEnd(c) \in EventInfo
           /\ SnapshotEnd(c).storageId = c
           /\ SnapshotEnd(c).eventCode = "SNAPSHOT_END"
           /\ SnapshotEnd(c) # NoEvent
  BY DEF SnapshotEnd, EventInfo, NoEvent

\* The walk moves on: what is left of it is a suffix of what was left, and the
\* event under way stays the same while somebody is left.
LEMMA NextSubscriberFacts ==
    ASSUME PubTypeOK, interestedSubscribers # <<>>, NextSubscriber
    PROVE  /\ interestedSubscribers' \in Seq(Subscriptions)
           /\ Range(interestedSubscribers) =
                {Head(interestedSubscribers)} \cup Range(interestedSubscribers')
           /\ eventInfo' \in EventInfo \cup {NoEvent}
           /\ \A s \in Range(interestedSubscribers') : eventInfo' = eventInfo
<1>1. /\ interestedSubscribers' \in Seq(Subscriptions)
      /\ Range(interestedSubscribers) =
                {Head(interestedSubscribers)} \cup Range(interestedSubscribers')
  BY RangeHeadTail DEF PubTypeOK, NextSubscriber
<1>2. eventInfo' \in EventInfo \cup {NoEvent}
  BY DEF PubTypeOK, NextSubscriber
<1>3. \A s \in Range(interestedSubscribers') : eventInfo' = eventInfo
  BY RangeEmpty, Zenon DEF NextSubscriber
<1>4. QED
  BY <1>1, <1>2, <1>3

\* A step of the publisher at subscriber t, whatever it does to
\* snapshotPending[t], preserves the invariant, provided a subscriber that the
\* snapshot loop leaves pending has lost its session.
LEMMA WalkInv ==
    ASSUME PubInv, NEW t \in Subscriptions, AtSubscriber(t), NextSubscriber,
           snapshotPending' \in [Subscriptions -> BOOLEAN],
           \A s \in Subscriptions \ {t} : snapshotPending'[s] = snapshotPending[s],
           snapshotPending'[t] => snapshotPending[t],
           InSnapshotLoop => ~snapshotPending'[t] \/ SessionGone(t)
    PROVE  PubInv'
<1> USE SubscriptionsAssumption
<1>1. /\ interestedSubscribers' \in Seq(Subscriptions)
      /\ Range(interestedSubscribers) = {t} \cup Range(interestedSubscribers')
      /\ eventInfo' \in EventInfo \cup {NoEvent}
      /\ \A s \in Range(interestedSubscribers') : eventInfo' = eventInfo
  BY NextSubscriberFacts DEF PubInv, AtSubscriber
<1>2. UNCHANGED <<sessionState, subscribers, eventQueue, localEventQueue>>
  BY DEF NextSubscriber
<1>3. PubTypeOK'
  BY <1>1, <1>2 DEF PubInv, PubTypeOK
<1>4. RightAudience'
  <2>1. \A s \in Range(interestedSubscribers') :
            StorageOf[s] = eventInfo'.storageId /\ Subscribed(s)'
    BY <1>1, <1>2 DEF PubInv, RightAudience, Subscribed
  <2>2. \A s \in Subscriptions : ~Subscribed(s)' => snapshotPending'[s]
    <3>1. Subscribed(t)
      BY <1>1 DEF PubInv, RightAudience
    <3>2. QED
      BY <3>1, <1>2 DEF PubInv, RightAudience, Subscribed
  <2>3. QED
    BY <1>2, <2>1, <2>2 DEF PubInv, RightAudience, EventsOf
<1>5. PendingHasSnapshotEnd'
  <2> SUFFICES ASSUME NEW s \in Subscriptions, Subscribed(s)', snapshotPending'[s],
                      ~SessionGone(s)'
               PROVE  SnapshotAhead(s)'
    BY DEF PendingHasSnapshotEnd
  <2>1. SnapshotAhead(s)
    BY <1>2 DEF PubInv, PendingHasSnapshotEnd, Subscribed, SessionGone
  <2>2. CASE eventInfo = SnapshotEnd(StorageOf[s]) /\ s \in Range(interestedSubscribers)
    <3>1. InSnapshotLoop
      BY <2>2, SnapshotEndFacts DEF InSnapshotLoop
    <3>2. s # t
      BY <3>1, <1>2 DEF SessionGone
    <3>3. s \in Range(interestedSubscribers') /\ eventInfo' = eventInfo
      BY <2>2, <3>2, <1>1
    <3>4. QED
      BY <2>2, <3>3 DEF SnapshotAhead, SnapshotEnd
  <2>3. QED
    BY <2>1, <2>2, <1>2 DEF SnapshotAhead, SnapshotEnd
<1>6. QED
  BY <1>3, <1>4, <1>5 DEF PubInv

\* Every step of the server preserves the invariant.
LEMMA PubStepInv == PubInv /\ [PubNext]_pubVars => PubInv'
<1> SUFFICES ASSUME PubInv, [PubNext]_pubVars PROVE PubInv'
  OBVIOUS
<1> USE SubscriptionsAssumption
<1>1. ASSUME NEW s \in Subscriptions, SessionAsyncSubscribe(s) PROVE PubInv'
  <2> DEFINE c == StorageOf[s]
  <2>1. /\ c \in Storages /\ SnapshotEnd(c) \in EventInfo
        /\ SnapshotEnd(c).storageId = c
    BY SnapshotEndFacts
  <2>2. /\ eventQueue' \in Seq(EventInfo)
        /\ Range(eventQueue') = Range(eventQueue) \cup {SnapshotEnd(c)}
    BY <1>1, <2>1, RangeAppend DEF PubInv, PubTypeOK, SessionAsyncSubscribe
  <2>3. /\ subscribers' \in [Storages -> Seq(Subscriptions)]
        /\ subscribers'[c] # <<>>
        /\ Range(subscribers'[c]) = Range(subscribers[c]) \cup {s}
        /\ \A d \in Storages \ {c} : subscribers'[d] = subscribers[d]
    BY <1>1, <2>1, RangeAppend, SMTT(30), Z3T(30) DEF PubInv, PubTypeOK, SessionAsyncSubscribe
  <2>4. UNCHANGED <<sessionState, snapshotPending, localEventQueue, eventInfo,
                    interestedSubscribers>>
    BY <1>1 DEF SessionAsyncSubscribe
  <2>5. PubTypeOK'
    BY <2>2, <2>3, <2>4 DEF PubInv, PubTypeOK
  <2>6. \A r \in Subscriptions : Subscribed(r) => Subscribed(r)'
    BY <2>3, Zenon DEF Subscribed
  <2>7. RightAudience'
    <3>1. \A d \in Storages : \A r \in Range(subscribers'[d]) : StorageOf[r] = d
      BY <2>3, Zenon DEF PubInv, RightAudience
    <3>2. ASSUME NEW d \in Storages,
                 EventsOf(d, eventQueue)' \/ EventsOf(d, localEventQueue)'
          PROVE  subscribers'[d] # <<>>
      BY <3>2, <2>1, <2>2, <2>3, <2>4, EventsOfRange, Zenon DEF PubInv, RightAudience
    <3>3. \A r \in Range(interestedSubscribers') :
              StorageOf[r] = eventInfo'.storageId /\ Subscribed(r)'
      BY <2>4, <2>6, RangeType DEF PubInv, PubTypeOK, RightAudience
    <3>4. \A r \in Subscriptions : ~Subscribed(r)' => snapshotPending'[r]
      BY <2>4, <2>6 DEF PubInv, RightAudience
    <3>5. QED
      BY <3>1, <3>2, <3>3, <3>4 DEF RightAudience
  <2>8. PendingHasSnapshotEnd'
    <3> SUFFICES ASSUME NEW r \in Subscriptions, Subscribed(r)', snapshotPending'[r],
                        ~SessionGone(r)'
                 PROVE  SnapshotAhead(r)'
      BY DEF PendingHasSnapshotEnd
    <3>1. CASE Subscribed(r)
      BY <3>1, <2>2, <2>4 DEF PubInv, PendingHasSnapshotEnd, SessionGone, SnapshotAhead, SnapshotEnd
    <3>2. CASE ~Subscribed(r)
      <4>1. r = s
        BY <3>2, <2>3, Zenon DEF Subscribed
      <4>2. QED
        BY <4>1, <2>2 DEF SnapshotAhead, SnapshotEnd
    <3>3. QED
      BY <3>1, <3>2
  <2>9. QED
    BY <2>5, <2>7, <2>8 DEF PubInv
<1>2. ASSUME NEW e \in Updates, OnAnyContainerEvent(e) PROVE PubInv'
  <2>1. e \in EventInfo /\ e.storageId \in Storages
    BY <1>2 DEF Updates, EventInfo
  <2>2. /\ eventQueue' \in Seq(EventInfo)
        /\ Range(eventQueue) \subseteq Range(eventQueue')
        /\ \A x \in Range(eventQueue') :
              x \in Range(eventQueue) \/ (x = e /\ subscribers[e.storageId] # <<>>)
    BY <1>2, <2>1, RangeAppend DEF PubInv, PubTypeOK, OnAnyContainerEvent
  <2>3. UNCHANGED <<sessionState, subscribers, snapshotPending, localEventQueue,
                    eventInfo, interestedSubscribers>>
    BY <1>2 DEF OnAnyContainerEvent
  <2>4. PubTypeOK'
    BY <2>2, <2>3 DEF PubInv, PubTypeOK
  <2>5. RightAudience'
    BY <2>2, <2>3, EventsOfRange DEF PubInv, RightAudience, Subscribed
  <2>6. PendingHasSnapshotEnd'
    BY <2>2, <2>3 DEF PubInv, PendingHasSnapshotEnd, SnapshotAhead, SnapshotEnd,
                      Subscribed, SessionGone
  <2>7. QED
    BY <2>4, <2>5, <2>6 DEF PubInv
<1>3. ASSUME NEW t \in Sessions, InvalidateConnection(t) \/ DestroySession(t) PROVE PubInv'
  <2>1. /\ UNCHANGED <<subscribers, snapshotPending, eventQueue, localEventQueue,
                       eventInfo, interestedSubscribers>>
        /\ sessionState' \in [Sessions -> {"valid", "invalid", "gone"}]
        /\ \A u \in Sessions : sessionState[u] = "gone" => sessionState'[u] = "gone"
    BY <1>3, Zenon DEF PubInv, PubTypeOK, InvalidateConnection, DestroySession
  <2>2. PubTypeOK'
    BY <2>1 DEF PubInv, PubTypeOK
  <2>3. RightAudience'
    BY <2>1 DEF PubInv, RightAudience, EventsOf, Subscribed
  <2>4. PendingHasSnapshotEnd'
    BY <2>1 DEF PubInv, PendingHasSnapshotEnd, SnapshotAhead, SnapshotEnd,
                Subscribed, SessionGone
  <2>5. QED
    BY <2>2, <2>3, <2>4 DEF PubInv
<1>4. CASE SwapEventQueue
  <2>1. /\ localEventQueue' = eventQueue /\ eventQueue' = <<>> /\ localEventQueue = <<>>
        /\ UNCHANGED <<sessionState, subscribers, snapshotPending, eventInfo,
                       interestedSubscribers>>
    BY <1>4 DEF SwapEventQueue
  <2>2. PubTypeOK'
    BY <2>1 DEF PubInv, PubTypeOK
  <2>3. RightAudience'
    BY <2>1 DEF PubInv, RightAudience, EventsOf, Subscribed
  <2>4. PendingHasSnapshotEnd'
    BY <2>1, RangeEmpty DEF PubInv, PendingHasSnapshotEnd, SnapshotAhead, SnapshotEnd,
                            Subscribed, SessionGone
  <2>5. QED
    BY <2>2, <2>3, <2>4 DEF PubInv
<1>5. CASE TakeEvent
  <2> DEFINE e == Head(localEventQueue)
  <2>1. /\ e \in EventInfo /\ e.storageId \in Storages
        /\ localEventQueue' \in Seq(EventInfo)
        /\ Range(localEventQueue) = {e} \cup Range(localEventQueue')
    <3>1. /\ localEventQueue \in Seq(EventInfo) /\ localEventQueue # <<>>
          /\ localEventQueue' = Tail(localEventQueue)
      BY <1>5 DEF PubInv, PubTypeOK, TakeEvent
    <3>2. e \in EventInfo => e.storageId \in Storages
      BY DEF EventInfo
    <3>3. QED
      BY <3>1, <3>2, RangeHeadTail
  <2>2. /\ interestedSubscribers' = subscribers[e.storageId]
        /\ eventInfo' = IF interestedSubscribers' = <<>> THEN NoEvent ELSE e
        /\ UNCHANGED <<sessionState, subscribers, snapshotPending, eventQueue>>
        /\ eventInfo = NoEvent
    BY <1>5 DEF TakeEvent
  <2>3. PubTypeOK'
    BY <2>1, <2>2 DEF PubInv, PubTypeOK
  <2>4. \A s \in Range(interestedSubscribers') :
            StorageOf[s] = e.storageId /\ eventInfo' = e /\ Subscribed(s)'
    BY <2>1, <2>2, RangeEmpty DEF PubInv, RightAudience, Subscribed
  <2>5. RightAudience'
    BY <2>1, <2>2, <2>4, EventsOfRange DEF PubInv, RightAudience, Subscribed
  <2>6. PendingHasSnapshotEnd'
    <3> SUFFICES ASSUME NEW s \in Subscriptions, Subscribed(s)', snapshotPending'[s],
                        ~SessionGone(s)'
                 PROVE  SnapshotAhead(s)'
      BY DEF PendingHasSnapshotEnd
    <3>1. SnapshotAhead(s)
      BY <2>2 DEF PubInv, PendingHasSnapshotEnd, Subscribed, SessionGone
    <3>2. eventInfo # SnapshotEnd(StorageOf[s])
      BY <2>2, SnapshotEndFacts
    <3>3. CASE e = SnapshotEnd(StorageOf[s])
      <4>1. s \in Range(interestedSubscribers')
        BY <3>3, <2>2, SnapshotEndFacts DEF Subscribed
      <4>2. QED
        BY <4>1, <3>3, <2>4 DEF SnapshotAhead, SnapshotEnd
    <3>4. CASE e # SnapshotEnd(StorageOf[s])
      BY <3>1, <3>2, <3>4, <2>1, <2>2 DEF SnapshotAhead, SnapshotEnd
    <3>5. QED
      BY <3>3, <3>4
  <2>7. QED
    BY <2>3, <2>5, <2>6 DEF PubInv
<1>6. ASSUME NEW s \in Subscriptions, SkipSubscriber(s) PROVE PubInv'
  BY <1>6, WalkInv DEF SkipSubscriber, PubInv, PubTypeOK
<1>7. ASSUME NEW s \in Subscriptions, SubscribeWithoutSnapshot(s) PROVE PubInv'
  BY <1>7, WalkInv, Zenon DEF SubscribeWithoutSnapshot, PubInv, PubTypeOK
<1>8. ASSUME NEW s \in Subscriptions, SendSubscriptionSnapshot(s) PROVE PubInv'
  BY <1>8, WalkInv, Zenon DEF SendSubscriptionSnapshot, PubInv, PubTypeOK
<1>9. ASSUME NEW s \in Subscriptions, PublishEvent(s) PROVE PubInv'
  BY <1>9, WalkInv DEF PublishEvent, PubInv, PubTypeOK
<1>10. CASE UNCHANGED pubVars
  BY <1>10 DEF pubVars, PubInv, PubTypeOK, RightAudience, EventsOf, PendingHasSnapshotEnd,
               SnapshotAhead, SnapshotEnd, Subscribed, SessionGone
<1>11. QED
  BY <1>1, <1>2, <1>3, <1>4, <1>5, <1>6, <1>7, <1>8, <1>9, <1>10 DEF PubNext, PublisherThread

-----------------------------------------------------------------------------
(* The theorems. *)

\* No subscription is lost: as long as one waits for its snapshot and its
\* session exists, a SNAPSHOT_END that will serve it is ahead of it
\* (SessionAsyncSubscribe and PublisherThread, any number of threads).
THEOREM NoSubscriptionLost == PubSpec => []PendingHasSnapshotEnd
<1>1. PubInv => PendingHasSnapshotEnd
  BY DEF PubInv
<1>2. QED
  BY <1>1, PubInitInv, PubStepInv, PTL DEF PubSpec

\* An event is walked only past subscribers of its own storage.
THEOREM NoStrayEvent == PubSpec => []RightAudience
<1>1. PubInv => RightAudience
  BY DEF PubInv
<1>2. QED
  BY <1>1, PubInitInv, PubStepInv, PTL DEF PubSpec
=============================================================================
