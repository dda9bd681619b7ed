--------------------------- MODULE MapPubSubProofs ---------------------------
(***************************************************************************)
(* Map containers with one writer each: for any number of storages, keys,  *)
(* sessions and subscriptions the copies of the subscribers agree with the *)
(* server's maps as soon as nothing is on its way to them.                 *)
(*                                                                         *)
(* The invariant is YoungestIsCurrent with the types and the invariant of  *)
(* the publisher: of the events about one key that are under way, the      *)
(* youngest says what the map holds.  It needs one writer per map, because *)
(* a map operation publishes after it releases the mutex.  The lemmas take *)
(* the map operations first, then the publisher thread, then sessions.     *)
(***************************************************************************)
EXTENDS MapPubSub, PublisherProofs

SingleWriter == \A c \in Storages : \A u, w \in Owners[c] : u = w

(* Lemmas about queues of events. *)

\* Appending an event adds it to those that concern a key.
LEMMA SilentAppend ==
    ASSUME NEW S, NEW q \in Seq(S), NEW e \in S, NEW c, NEW k
    PROVE  Silent(Append(q, e), c, k) <=> Silent(q, c, k) /\ ~Concerns(e, c, k)
<1>1. /\ DOMAIN Append(q, e) = 1 .. Len(q) + 1
      /\ \A i \in 1 .. Len(q) : Append(q, e)[i] = q[i]
      /\ Append(q, e)[Len(q) + 1] = e
      /\ DOMAIN q = 1 .. Len(q) /\ Len(q) \in Nat
  OBVIOUS
<1>2. QED
  BY <1>1 DEF Silent

\* A non-empty queue is silent about a key if its head and its tail are.
LEMMA SilentTail ==
    ASSUME NEW S, NEW q \in Seq(S), q # <<>>, NEW c, NEW k
    PROVE  Silent(q, c, k) <=> ~Concerns(Head(q), c, k) /\ Silent(Tail(q), c, k)
<1>1. /\ Len(q) \in Nat /\ Len(q) > 0
      /\ DOMAIN q = 1 .. Len(q)
      /\ Head(q) = q[1]
      /\ DOMAIN Tail(q) = 1 .. Len(q) - 1
      /\ \A i \in 1 .. Len(q) - 1 : Tail(q)[i] = q[i + 1]
  OBVIOUS
<1>2. \A i \in 1 .. Len(q) : i = 1 \/ (i - 1 \in 1 .. Len(q) - 1 /\ q[i] = Tail(q)[i - 1])
  BY <1>1
<1>3. \A i \in 1 .. Len(q) - 1 : i + 1 \in 1 .. Len(q)
  BY <1>1
<1>4. ASSUME Silent(q, c, k) PROVE ~Concerns(Head(q), c, k) /\ Silent(Tail(q), c, k)
  BY <1>1, <1>3, <1>4 DEF Silent
<1>5. ASSUME ~Concerns(Head(q), c, k), Silent(Tail(q), c, k) PROVE Silent(q, c, k)
  BY <1>1, <1>2, <1>5, Zenon DEF Silent
<1>6. QED
  BY <1>4, <1>5

\* The youngest event after one more is appended.
LEMMA YoungestAppend ==
    ASSUME NEW S, NEW q \in Seq(S), NEW e \in S, NEW c, NEW k, NEW x,
           Concerns(e, c, k) => Effect(e) = x,
           ~Concerns(e, c, k) => YoungestIs(q, c, k, x)
    PROVE  YoungestIs(Append(q, e), c, k, x)
<1>1. /\ DOMAIN Append(q, e) = 1 .. Len(q) + 1
      /\ \A i \in 1 .. Len(q) : Append(q, e)[i] = q[i]
      /\ Append(q, e)[Len(q) + 1] = e
      /\ DOMAIN q = 1 .. Len(q) /\ Len(q) \in Nat
  OBVIOUS
<1> SUFFICES ASSUME NEW i \in DOMAIN Append(q, e),
                    Concerns(Append(q, e)[i], c, k),
                    \A j \in DOMAIN Append(q, e) : j > i => ~Concerns(Append(q, e)[j], c, k)
             PROVE  Effect(Append(q, e)[i]) = x
  BY DEF YoungestIs
<1>2. CASE i = Len(q) + 1
  BY <1>1, <1>2
<1>3. CASE i \in 1 .. Len(q)
  <2>1. Len(q) + 1 \in DOMAIN Append(q, e) /\ Len(q) + 1 > i
    BY <1>1, <1>3
  <2>2. ~Concerns(e, c, k)
    BY <2>1, <1>1
  <2>3. \A j \in DOMAIN q : j > i => ~Concerns(q[j], c, k)
    BY <1>1
  <2>4. Concerns(q[i], c, k) /\ Append(q, e)[i] = q[i] /\ i \in DOMAIN q
    BY <1>1, <1>3
  <2>5. QED
    BY <2>2, <2>3, <2>4 DEF YoungestIs
<1>4. QED
  BY <1>1, <1>2, <1>3

\* Taking the head leaves the youngest event, or was it.
LEMMA YoungestTail ==
    ASSUME NEW S, NEW q \in Seq(S), q # <<>>, NEW c, NEW k, NEW x,
           YoungestIs(q, c, k, x)
    PROVE  /\ YoungestIs(Tail(q), c, k, x)
           /\ Silent(Tail(q), c, k) /\ Concerns(Head(q), c, k) => Effect(Head(q)) = x
<1>1. /\ Len(q) \in Nat /\ Len(q) > 0
      /\ DOMAIN q = 1 .. Len(q)
      /\ Head(q) = q[1]
      /\ DOMAIN Tail(q) = 1 .. Len(q) - 1
      /\ \A i \in 1 .. Len(q) - 1 : Tail(q)[i] = q[i + 1]
  OBVIOUS
<1>2. \A i \in 1 .. Len(q) : i > 1 => (i - 1 \in 1 .. Len(q) - 1 /\ q[i] = Tail(q)[i - 1])
  BY <1>1
<1>3. YoungestIs(Tail(q), c, k, x)
  <2> SUFFICES ASSUME NEW i \in DOMAIN Tail(q), Concerns(Tail(q)[i], c, k),
                      \A j \in DOMAIN Tail(q) : j > i => ~Concerns(Tail(q)[j], c, k)
               PROVE  Effect(Tail(q)[i]) = x
    BY DEF YoungestIs
  <2>1. i + 1 \in DOMAIN q /\ Tail(q)[i] = q[i + 1]
    BY <1>1
  <2>2. ASSUME NEW j \in DOMAIN q, j > i + 1 PROVE ~Concerns(q[j], c, k)
    <3>1. j - 1 \in DOMAIN Tail(q) /\ j - 1 > i /\ q[j] = Tail(q)[j - 1]
      BY <1>1, <1>2, <2>2
    <3>2. QED
      BY <3>1
  <2>3. QED
    BY <2>1, <2>2 DEF YoungestIs
<1>4. ASSUME Silent(Tail(q), c, k), Concerns(Head(q), c, k) PROVE Effect(Head(q)) = x
  <2>1. 1 \in DOMAIN q /\ Concerns(q[1], c, k)
    BY <1>1, <1>4
  <2>2. ASSUME NEW j \in DOMAIN q, j > 1 PROVE ~Concerns(q[j], c, k)
    <3>1. j - 1 \in DOMAIN Tail(q) /\ q[j] = Tail(q)[j - 1]
      BY <1>1, <1>2, <2>2
    <3>2. QED
      BY <3>1, <1>4 DEF Silent
  <2>3. QED
    BY <2>1, <2>2, <1>1 DEF YoungestIs
<1>5. QED
  BY <1>3, <1>4

\* A queue with nothing about a key has a youngest event of any value.
LEMMA YoungestSilent ==
    ASSUME NEW q, NEW c, NEW k, NEW x, Silent(q, c, k)
    PROVE  YoungestIs(q, c, k, x)
  BY DEF Silent, YoungestIs

\* Neither SNAPSHOT_END nor the absence of an event concerns a key.
LEMMA NotConcerned ==
    ASSUME NEW c, NEW d, NEW k
    PROVE  /\ ~Concerns(SnapshotEnd(d), c, k)
           /\ ~Concerns(NoEvent, c, k)
  BY DEF Concerns, SnapshotEnd, NoEvent

\* A queue without events of a storage is silent about its keys.
LEMMA NoEventsSilent ==
    ASSUME NEW q, NEW c, NEW k, ~EventsOf(c, q)
    PROVE  Silent(q, c, k)
  BY DEF EventsOf, Silent, Concerns

-----------------------------------------------------------------------------
(* The inductive invariant. *)

MapInv == TypeOK /\ PubInv /\ YoungestIsCurrent /\ MirrorsAgree

\* A step that leaves the map, the writers and the queues alone, and of the walk at most
\* shortens what is left.
LEMMA YoungestKept ==
    ASSUME YoungestIsCurrent, UNCHANGED <<data, publishing, eventQueue, localEventQueue>>,
           interestedSubscribers' # <<>> => interestedSubscribers # <<>> /\ eventInfo' = eventInfo
    PROVE  YoungestIsCurrent'
<1> SUFFICES ASSUME NEW c \in Storages, NEW k \in Keys PROVE YoungestOf(c, k)'
  BY Zenon DEF YoungestIsCurrent
<1>1. YoungestOf(c, k)
  BY Zenon DEF YoungestIsCurrent
<1>2. Published(c, k)' <=> Published(c, k)
  BY Zenon DEF Published
<1>3. QED
  BY <1>1, <1>2, Zenon DEF YoungestOf

\* A queued or pending event is an event, and not SNAPSHOT_END if a writer holds it.
LEMMA EventTypes ==
    /\ MapEvents \subseteq Updates
    /\ Updates \subseteq EventInfo
    /\ QueueEvents \subseteq EventInfo
    /\ \A e \in QueueEvents : e.storageId \in Storages
    /\ NoEvent \notin MapEvents
<1>1. MapEvents \subseteq Updates /\ Updates \subseteq EventInfo
  BY DEF MapEvents, Updates
<1>2. QueueEvents \subseteq EventInfo
  BY <1>1, SnapshotEndFacts DEF QueueEvents
<1>3. \A e \in EventInfo : e.storageId \in Storages
  BY DEF EventInfo
<1>4. NoEvent \notin MapEvents
  BY DEF NoEvent, MapEvents
<1>5. QED
  BY <1>1, <1>2, <1>3, <1>4

\* Seen from the publisher, a step of the maps is a step of the publisher module.
LEMMA MapStepIsPubStep == TypeOK /\ [Next]_vars => [PubNext]_pubVars
<1> SUFFICES ASSUME TypeOK, [Next]_vars PROVE [PubNext]_pubVars
  OBVIOUS
<1>1. ASSUME NEW w \in Writers, MapWriter(w) PROVE [PubNext]_pubVars
  <2>1. CASE UpdateRevNumAndPublish(w)
    <3>1. publishing[w] \in Updates
      BY <2>1, EventTypes DEF TypeOK, UpdateRevNumAndPublish
    <3>2. OnAnyContainerEvent(publishing[w])
      BY <2>1 DEF UpdateRevNumAndPublish
    <3>3. QED
      BY <3>1, <3>2 DEF PubNext
  <2>2. CASE UNCHANGED pubVars
    BY <2>2
  <2>3. QED
    BY <1>1, <2>1, <2>2 DEF MapWriter, Set, Insert, Delete, Clear, Change
<1>2. CASE MapPublisher
  BY <1>2 DEF MapPublisher, MapSnapshot, MapPublish, PubNext, PublisherThread
<1>3. CASE SessionLife /\ UNCHANGED mapVars
  BY <1>3 DEF SessionLife, PubNext
<1>4. CASE UNCHANGED vars
  BY <1>4 DEF vars
<1>5. QED
  BY <1>1, <1>2, <1>3, <1>4 DEF Next

\* The initial state satisfies the invariant.
LEMMA MapInitInv == Init => MapInv
<1> SUFFICES ASSUME Init PROVE MapInv
  OBVIOUS
<1> USE MapAssumption
<1>1. PubInv
  BY PubInitInv DEF Init
<1>2. TypeOK
  <2>1. EmptyMap \in Maps
    BY DEF EmptyMap, Maps
  <2>2. QED
    BY <1>1, <2>1 DEF Init, PubInit, PubInv, TypeOK
<1>3. YoungestIsCurrent
  BY NotConcerned DEF Init, PubInit, YoungestIsCurrent, YoungestOf, YoungestIs
<1>4. MirrorsAgree
  BY <1>1 DEF Init, PubInit, MirrorsAgree, Following
<1>5. QED
  BY <1>1, <1>2, <1>3, <1>4 DEF MapInv

\* A map operation, up to the release of the mutex, preserves the invariant: it
\* changes exactly the keys its event concerns, to what the event says.
LEMMA ChangeInv ==
    ASSUME SingleWriter, MapInv, PubInv',
           NEW w \in Writers, NEW c \in Storages, NEW contents \in Maps,
           NEW e \in MapEvents, e.storageId = c,
           \A k \in Keys : IF Concerns(e, c, k) THEN Effect(e) = contents[k]
                                                ELSE contents[k] = data[c][k],
           Change(w, c, contents, e)
    PROVE  MapInv'
<1> USE MapAssumption, SubscriptionsAssumption
<1>1. /\ w \in Owners[c] /\ publishing[w] = NoEvent
      /\ data' = [data EXCEPT ![c] = contents]
      /\ publishing' = [publishing EXCEPT ![w] = e]
      /\ writes' \in 0 .. MaxWrites
      /\ UNCHANGED <<sessionState, subscribers, snapshotPending, eventQueue,
                     localEventQueue, eventInfo, interestedSubscribers, mirror>>
  BY SMT, Z3 DEF Change, pubVars, MapInv, TypeOK
<1>2. /\ data \in [Storages -> Maps]
      /\ publishing \in [Writers -> MapEvents \cup {NoEvent}]
      /\ \A u \in Writers : publishing[u] # NoEvent => u \in Owners[publishing[u].storageId]
      /\ mirror \in [Subscriptions -> Maps]
  BY DEF MapInv, TypeOK
<1>3. TypeOK'
  <2>1. \A u \in Writers :
            publishing'[u] # NoEvent => u \in Owners[publishing'[u].storageId]
    BY <1>1, <1>2
  <2>2. QED
    BY <1>1, <1>2, <2>1, Zenon DEF MapInv, PubInv, TypeOK
<1>4. ASSUME NEW d \in Storages, NEW k \in Keys, ~Concerns(e, d, k)
      PROVE  /\ data'[d][k] = data[d][k]
             /\ Published(d, k)' => Published(d, k)
  <2>1. data'[d][k] = data[d][k]
    BY <1>1, <1>2, <1>4
  <2>2. Published(d, k)' => Published(d, k)
    BY <1>1, <1>2, NotConcerned, ZenonT(30) DEF Published
  <2>3. QED
    BY <2>1, <2>2
<1>5. ASSUME NEW d \in Storages, NEW k \in Keys, Concerns(e, d, k)
      PROVE  d = c /\ ~Published(d, k)'
  BY <1>1, <1>2, <1>5 DEF Published, Concerns
<1>6. YoungestIsCurrent'
  <2> SUFFICES ASSUME NEW d \in Storages, NEW k \in Keys
               PROVE  /\ \A u \in Writers : Concerns(publishing'[u], d, k)
                            => Effect(publishing'[u]) = data'[d][k]
                      /\ Published(d, k)' => YoungestIs(eventQueue, d, k, data'[d][k])
                      /\ Published(d, k)' /\ Silent(eventQueue, d, k)
                            => YoungestIs(localEventQueue, d, k, data'[d][k])
                      /\ (/\ Published(d, k)' /\ Silent(eventQueue, d, k)
                          /\ Silent(localEventQueue, d, k)
                          /\ interestedSubscribers # <<>> /\ Concerns(eventInfo, d, k))
                            => Effect(eventInfo) = data'[d][k]
    BY <1>1, SMTT(30), ZenonT(30) DEF YoungestIsCurrent, YoungestOf
  <2>1. CASE Concerns(e, d, k)
    <3>1. ASSUME NEW u \in Writers, Concerns(publishing'[u], d, k)
          PROVE  Effect(publishing'[u]) = data'[d][k]
      <4>1. publishing'[u].storageId = c /\ publishing'[u] # NoEvent
        BY <3>1, <2>1, <1>5, NotConcerned DEF Concerns
      <4>2. u \in Owners[c]
        BY <4>1, <1>3 DEF TypeOK
      <4>3. u = w
        BY <4>2, <1>1, Zenon DEF SingleWriter
      <4>4. QED
        BY <4>3, <2>1, <1>5, <1>1, <1>2
    <3>2. QED
      BY <3>1, <2>1, <1>5
  <2>2. CASE ~Concerns(e, d, k)
    <3>1. \A u \in Writers : Concerns(publishing'[u], d, k) => publishing'[u] = publishing[u]
      BY <1>1, <1>2, <2>2, Zenon
    <3>2. QED
      BY <3>1, <2>2, <1>4, SMTT(30), Z3T(30) DEF MapInv, YoungestIsCurrent, YoungestOf
  <2>3. QED
    BY <2>1, <2>2
<1>7. MirrorsAgree'
  <2> SUFFICES ASSUME NEW s \in Subscriptions, NEW k \in Keys, Following(s)', Settled(s, k)'
               PROVE  mirror'[s][k] = data'[StorageOf[s]][k]
    BY Zenon DEF MirrorsAgree
  <2>1. ~Concerns(e, StorageOf[s], k)
    BY <1>5 DEF Settled
  <2>2. Following(s) /\ Settled(s, k)
    BY <2>1, <1>1, <1>4, Zenon DEF Following, Settled, Subscribed, CanSend, Silent
  <2>3. QED
    BY <2>1, <2>2, <1>1, <1>4, SMTT(30), Z3T(30) DEF MapInv, MirrorsAgree
<1>8. QED
  BY <1>3, <1>6, <1>7 DEF MapInv

\* The four map operations are changes of that kind.
LEMMA OperationInv ==
    ASSUME SingleWriter, MapInv, PubInv', NEW w \in Writers, NEW c \in Storages,
           \/ Clear(w, c)
           \/ \E k \in Keys : Delete(w, c, k)
           \/ \E k \in Keys, v \in Values : Set(w, c, k, v) \/ Insert(w, c, k, v)
    PROVE  MapInv'
<1> USE MapAssumption
<1>1. data[c] \in Maps
  BY DEF MapInv, TypeOK
<1>2. CASE Clear(w, c)
  <2> DEFINE e == Event(c, "CLEAR", Null, Null)
  <2>1. e \in MapEvents /\ e.storageId = c
    BY DEF Event, MapEvents, Updates, EventInfo, UpdateCodes
  <2>2. EmptyMap \in Maps /\ \A k \in Keys : Concerns(e, c, k) /\ Effect(e) = EmptyMap[k]
    BY DEF EmptyMap, Maps, Event, Concerns, Effect
  <2>3. Change(w, c, EmptyMap, e)
    BY <1>2 DEF Clear
  <2>4. QED
    BY <2>1, <2>2, <2>3, ChangeInv, SMTT(30), Z3T(30)
<1>3. ASSUME NEW k \in Keys, Delete(w, c, k) PROVE MapInv'
  <2> DEFINE e == Event(c, "DELETE", k, Null)
             m == [data[c] EXCEPT ![k] = Absent]
  <2>1. e \in MapEvents /\ e.storageId = c
    BY DEF Event, MapEvents, Updates, EventInfo, UpdateCodes
  <2>2. m \in Maps
    BY <1>1 DEF Maps
  <2>3. \A j \in Keys : IF Concerns(e, c, j) THEN Effect(e) = m[j] ELSE m[j] = data[c][j]
    BY <1>1 DEF Maps, Event, Concerns, Effect
  <2>4. Change(w, c, m, e)
    BY <1>3 DEF Delete
  <2> HIDE DEF e, m
  <2>5. QED
    BY <2>1, <2>2, <2>3, <2>4, ChangeInv, SMTT(30), Z3T(30)
<1>4. ASSUME NEW k \in Keys, NEW v \in Values, Set(w, c, k, v) \/ Insert(w, c, k, v)
      PROVE  MapInv'
  <2> DEFINE e == Event(c, "SET", k, v)
             m == [data[c] EXCEPT ![k] = v]
  <2>1. e \in MapEvents /\ e.storageId = c
    BY DEF Event, MapEvents, Updates, EventInfo, UpdateCodes
  <2>2. m \in Maps
    BY <1>1 DEF Maps
  <2>3. \A j \in Keys : IF Concerns(e, c, j) THEN Effect(e) = m[j] ELSE m[j] = data[c][j]
    BY <1>1 DEF Maps, Event, Concerns, Effect
  <2>4. Change(w, c, m, e)
    BY <1>4 DEF Set, Insert
  <2> HIDE DEF e, m
  <2>5. QED
    BY <2>1, <2>2, <2>3, <2>4, ChangeInv, SMTT(30), Z3T(30)
<1>5. QED
  BY <1>2, <1>3, <1>4

-----------------------------------------------------------------------------
(* The publisher thread: swapping the queues, taking an event, the walk. *)

\* Nobody is left in the walk between two events.
LEMMA BetweenEvents ==
    ASSUME MapInv, eventInfo = NoEvent
    PROVE  interestedSubscribers = <<>>
<1> SUFFICES ASSUME interestedSubscribers # <<>> PROVE FALSE
  OBVIOUS
<1>1. /\ Head(interestedSubscribers) \in Subscriptions
      /\ Head(interestedSubscribers) \in Range(interestedSubscribers)
  BY RangeHeadTail DEF MapInv, PubInv, PubTypeOK
<1>2. StorageOf[Head(interestedSubscribers)] = Null
  BY <1>1 DEF MapInv, PubInv, RightAudience, NoEvent
<1>3. QED
  BY <1>1, <1>2, MapAssumption, SubscriptionsAssumption

\* Swapping the queues preserves the invariant: the batch was empty.
LEMMA SwapInv ==
    ASSUME MapInv, PubInv', SwapEventQueue, UNCHANGED mapVars
    PROVE  MapInv'
<1>1. /\ localEventQueue = <<>> /\ localEventQueue' = eventQueue /\ eventQueue' = <<>>
      /\ UNCHANGED <<sessionState, subscribers, snapshotPending, eventInfo,
                     interestedSubscribers, data, publishing, mirror, writes>>
  BY DEF SwapEventQueue, mapVars
<1>2. interestedSubscribers = <<>>
  BY BetweenEvents DEF SwapEventQueue
<1>3. \A c \in Storages, k \in Keys : Silent(<<>>, c, k)
  BY DEF Silent
<1>4. TypeOK'
  BY <1>1 DEF MapInv, PubInv, TypeOK
<1>5. YoungestIsCurrent'
  <2> SUFFICES ASSUME NEW c \in Storages, NEW k \in Keys
               PROVE  /\ \A w \in Writers : Concerns(publishing[w], c, k)
                            => Effect(publishing[w]) = data[c][k]
                      /\ YoungestIs(<<>>, c, k, data[c][k])
                      /\ Published(c, k) => YoungestIs(eventQueue, c, k, data[c][k])
    BY <1>1, <1>2, Zenon DEF YoungestIsCurrent, YoungestOf, Published
  <2>1. QED
    BY <1>3, YoungestSilent DEF MapInv, YoungestIsCurrent, YoungestOf
<1>6. MirrorsAgree'
  <2> SUFFICES ASSUME NEW s \in Subscriptions, NEW k \in Keys, Following(s)', Settled(s, k)'
               PROVE  mirror'[s][k] = data'[StorageOf[s]][k]
    BY DEF MirrorsAgree
  <2>1. Following(s)
    BY <1>1, Zenon DEF Following, Subscribed, CanSend
  <2>2. Settled(s, k)
    BY <1>1, <1>3, SubscriptionsAssumption DEF Settled, Silent, Published
  <2>3. QED
    BY <2>1, <2>2, <1>1 DEF MapInv, MirrorsAgree
<1>7. QED
  BY <1>4, <1>5, <1>6 DEF MapInv

\* Taking an event preserves the invariant: every subscriber that follows its
\* storage is in the walk that begins.
LEMMA TakeInv ==
    ASSUME MapInv, PubInv', TakeEvent, UNCHANGED mapVars
    PROVE  MapInv'
<1> USE MapAssumption, SubscriptionsAssumption
<1> DEFINE e == Head(localEventQueue)
<1>1. /\ localEventQueue \in Seq(QueueEvents) /\ localEventQueue # <<>>
      /\ localEventQueue' = Tail(localEventQueue)
      /\ e \in QueueEvents /\ localEventQueue' \in Seq(QueueEvents)
  BY RangeHeadTail DEF MapInv, TypeOK, TakeEvent
<1>2. e.storageId \in Storages
  BY <1>1, EventTypes
<1>3. /\ interestedSubscribers' = subscribers[e.storageId]
      /\ eventInfo' = IF interestedSubscribers' = <<>> THEN NoEvent ELSE e
      /\ UNCHANGED <<sessionState, subscribers, snapshotPending, eventQueue,
                     data, publishing, mirror, writes>>
  BY Zenon DEF TakeEvent, mapVars
<1>4. TypeOK'
  BY <1>1, <1>3 DEF MapInv, PubInv, TypeOK
<1>5. \A c \in Storages, k \in Keys :
          Silent(localEventQueue, c, k)
          <=> ~Concerns(e, c, k) /\ Silent(localEventQueue', c, k)
  BY <1>1, SilentTail, Zenon
<1>6. YoungestIsCurrent'
  <2> SUFFICES ASSUME NEW c \in Storages, NEW k \in Keys
               PROVE  /\ \A w \in Writers : Concerns(publishing[w], c, k)
                            => Effect(publishing[w]) = data[c][k]
                      /\ Published(c, k) => YoungestIs(eventQueue, c, k, data[c][k])
                      /\ Published(c, k) /\ Silent(eventQueue, c, k)
                            => /\ YoungestIs(localEventQueue', c, k, data[c][k])
                               /\ Silent(localEventQueue', c, k) /\ Concerns(e, c, k)
                                     => Effect(e) = data[c][k]
    BY <1>3, Zenon DEF YoungestIsCurrent, YoungestOf, Published
  <2>1. ASSUME Published(c, k), Silent(eventQueue, c, k)
        PROVE  YoungestIs(localEventQueue, c, k, data[c][k])
    BY <2>1 DEF MapInv, YoungestIsCurrent, YoungestOf
  <2>2. QED
    BY <2>1, <1>1, YoungestTail DEF MapInv, YoungestIsCurrent, YoungestOf
<1>7. MirrorsAgree'
  <2> SUFFICES ASSUME NEW s \in Subscriptions, NEW k \in Keys, Following(s)', Settled(s, k)'
               PROVE  mirror'[s][k] = data'[StorageOf[s]][k]
    BY DEF MirrorsAgree
  <2>1. Following(s)
    BY <1>3 DEF Following, Subscribed, CanSend
  <2>2. ~Concerns(e, StorageOf[s], k)
    <3> SUFFICES ASSUME e.storageId = StorageOf[s] PROVE ~Concerns(e, StorageOf[s], k)
      BY Zenon DEF Concerns
    <3>1. s \in Range(interestedSubscribers')
      BY <2>1, <1>3 DEF Following, Subscribed
    <3>2. eventInfo' = e
      BY <3>1, <1>3, RangeEmpty, Zenon
    <3>3. QED
      BY <3>1, <3>2 DEF Settled, Concerns
  <2>3. Silent(localEventQueue', StorageOf[s], k)
    BY DEF Settled, Silent
  <2>4. Silent(localEventQueue, StorageOf[s], k)
    BY <2>2, <2>3, <1>5
  <2>5. ~Concerns(eventInfo, StorageOf[s], k)
    BY NotConcerned, Zenon DEF TakeEvent
  <2>6. Settled(s, k)
    BY <2>4, <2>5, <1>3 DEF Settled, Silent, Published
  <2>7. QED
    BY <2>1, <2>6, <1>3 DEF MapInv, MirrorsAgree
<1>8. QED
  BY <1>4, <1>6, <1>7 DEF MapInv

\* A step of the walk at subscriber t preserves the invariant if it leaves the
\* other subscribers alone and t in agreement.
LEMMA MapWalkInv ==
    ASSUME MapInv, PubInv', NEW t \in Subscriptions, AtSubscriber(t), NextSubscriber,
           UNCHANGED <<data, publishing, writes>>,
           mirror' \in [Subscriptions -> Maps],
           \A s \in Subscriptions \ {t} : /\ snapshotPending'[s] = snapshotPending[s]
                                          /\ mirror'[s] = mirror[s],
           \A k \in Keys : Following(t)' /\ Settled(t, k)'
                           => mirror'[t][k] = data[StorageOf[t]][k]
    PROVE  MapInv'
<1> USE MapAssumption, SubscriptionsAssumption
<1>1. /\ Range(interestedSubscribers) = {t} \cup Range(interestedSubscribers')
      /\ \A s \in Range(interestedSubscribers') : eventInfo' = eventInfo
  BY NextSubscriberFacts, Zenon DEF MapInv, PubInv, AtSubscriber
<1>2. /\ UNCHANGED <<sessionState, subscribers, eventQueue, localEventQueue,
                     data, publishing, writes>>
      /\ eventInfo' = IF interestedSubscribers' = <<>> THEN NoEvent ELSE eventInfo
      /\ interestedSubscribers # <<>>
  BY Zenon DEF NextSubscriber, AtSubscriber
<1>3. TypeOK'
  BY <1>2, Zenon DEF MapInv, PubInv, TypeOK
<1>4. YoungestIsCurrent'
  BY <1>2, YoungestKept, Zenon DEF MapInv
<1>5. MirrorsAgree'
  <2> SUFFICES ASSUME NEW s \in Subscriptions, NEW k \in Keys, Following(s)', Settled(s, k)'
               PROVE  mirror'[s][k] = data'[StorageOf[s]][k]
    BY ZenonT(30) DEF MirrorsAgree
  <2>0. CASE s = t
    BY <1>2, <2>0, Zenon
  <2> SUFFICES ASSUME s # t PROVE mirror[s][k] = data[StorageOf[s]][k]
    BY <1>2, <2>0, Zenon
  <2>1. Following(s)
    BY <1>2 DEF Following, Subscribed, CanSend
  <2>2. s \in Range(interestedSubscribers) => ~Concerns(eventInfo, StorageOf[s], k)
    BY <1>1, ZenonT(30) DEF Settled, Concerns
  <2>3. Settled(s, k)
    BY <2>2, <1>2, Zenon DEF Settled, Silent, Published
  <2>4. QED
    BY <2>1, <2>3 DEF MapInv, MirrorsAgree
<1>6. QED
  BY <1>3, <1>4, <1>5, Zenon DEF MapInv

\* The event of the walk does not concern key k: nothing is on its way to t after
\* the walk has passed it only if nothing was before.
LEMMA SettledBefore ==
    ASSUME MapInv, NEW t \in Subscriptions, AtSubscriber(t), NextSubscriber,
           UNCHANGED publishing, NEW k \in Keys, Settled(t, k)',
           ~Concerns(eventInfo, StorageOf[t], k)
    PROVE  Settled(t, k)
  BY DEF Settled, Silent, Published, NextSubscriber

\* A subscriber that is skipped is one the event does not concern, or one that
\* does not follow the map.
LEMMA SkipInv ==
    ASSUME MapInv, PubInv', NEW t \in Subscriptions, SkipSubscriber(t), UNCHANGED mapVars
    PROVE  MapInv'
<1>1. /\ AtSubscriber(t) /\ NextSubscriber
      /\ UNCHANGED <<data, publishing, writes, mirror, snapshotPending, sessionState,
                     subscribers>>
  BY DEF SkipSubscriber, NextSubscriber, mapVars
<1>2. mirror \in [Subscriptions -> Maps]
  BY DEF MapInv, TypeOK
<1>3. ASSUME NEW k \in Keys, Following(t)', Settled(t, k)'
      PROVE  mirror[t][k] = data[StorageOf[t]][k]
  <2>1. Following(t)
    BY <1>1, <1>3 DEF Following, Subscribed, CanSend
  <2>2. InSnapshotLoop
    BY <2>1 DEF SkipSubscriber, Following, CanSend, SessionGone
  <2>3. ~Concerns(eventInfo, StorageOf[t], k)
    BY <2>2 DEF InSnapshotLoop, Concerns
  <2>4. Settled(t, k)
    BY <1>1, <1>3, <2>3, SettledBefore
  <2>5. QED
    BY <2>1, <2>4 DEF MapInv, MirrorsAgree
<1>4. QED
  BY <1>1, <1>2, <1>3, MapWalkInv, Zenon

\* A subscriber without a snapshot is not held to agree with the map.
LEMMA WithoutSnapshotInv ==
    ASSUME MapInv, PubInv', NEW t \in Subscriptions, SubscribeWithoutSnapshot(t),
           UNCHANGED mapVars
    PROVE  MapInv'
<1>1. /\ AtSubscriber(t) /\ NextSubscriber /\ StartOf[t] = NoSnapshot
      /\ UNCHANGED <<data, publishing, writes, mirror>>
      /\ snapshotPending' = [snapshotPending EXCEPT ![t] = FALSE]
  BY Zenon DEF SubscribeWithoutSnapshot, mapVars
<1>2. mirror \in [Subscriptions -> Maps] /\ snapshotPending \in [Subscriptions -> BOOLEAN]
  BY DEF MapInv, PubInv, PubTypeOK, TypeOK
<1>3. ~Following(t)'
  BY <1>1 DEF Following
<1>4. QED
  BY <1>1, <1>2, <1>3, MapWalkInv, Zenon

\* A snapshot is the map itself.
LEMMA SnapshotInv ==
    ASSUME MapInv, PubInv', NEW t \in Subscriptions, MapSnapshot(t)
    PROVE  MapInv'
<1> USE SubscriptionsAssumption
<1>1. /\ AtSubscriber(t) /\ NextSubscriber
      /\ UNCHANGED <<data, publishing, writes, sessionState>>
      /\ snapshotPending' = [snapshotPending EXCEPT ![t] = FALSE]
      /\ mirror' = IF CanSend(t) THEN [mirror EXCEPT ![t] = data[StorageOf[t]]] ELSE mirror
  BY Zenon DEF MapSnapshot, SendSubscriptionSnapshot, NextSubscriber
<1>2. /\ mirror \in [Subscriptions -> Maps] /\ snapshotPending \in [Subscriptions -> BOOLEAN]
      /\ data \in [Storages -> Maps]
  BY DEF MapInv, PubInv, PubTypeOK, TypeOK
<1>3. mirror' \in [Subscriptions -> Maps]
  BY <1>1, <1>2
<1>4. Following(t)' => mirror'[t] = data[StorageOf[t]]
  BY <1>1, <1>2 DEF Following, CanSend
<1>5. \A s \in Subscriptions \ {t} : /\ snapshotPending'[s] = snapshotPending[s]
                                     /\ mirror'[s] = mirror[s]
  BY <1>1, <1>2
<1>6. QED
  BY <1>1, <1>3, <1>4, <1>5, MapWalkInv, Zenon

\* Applying an event sets the keys it concerns and no other.
LEMMA ApplyFacts ==
    ASSUME NEW m \in Maps, NEW e \in QueueEvents \cup {NoEvent}, NEW k \in Keys
    PROVE  /\ Apply(m, e) \in Maps
           /\ Apply(m, e)[k] = IF Concerns(e, e.storageId, k) THEN Effect(e) ELSE m[k]
<1> USE MapAssumption
<1>1. CASE e \in MapEvents
  <2>1. \/ e.eventCode = "SET" /\ e.k \in Keys /\ e.v \in Values
        \/ e.eventCode = "DELETE" /\ e.k \in Keys
        \/ e.eventCode = "CLEAR"
    BY <1>1 DEF MapEvents
  <2>2. CASE e.eventCode = "SET" /\ e.k \in Keys /\ e.v \in Values
    BY <2>2 DEF Apply, Concerns, Effect, Maps
  <2>3. CASE e.eventCode = "DELETE" /\ e.k \in Keys
    BY <2>3 DEF Apply, Concerns, Effect, Maps
  <2>4. CASE e.eventCode = "CLEAR"
    BY <2>4 DEF Apply, Concerns, Effect, Maps, EmptyMap
  <2>5. QED
    BY <2>1, <2>2, <2>3, <2>4
<1>2. CASE e \notin MapEvents
  <2>1. e.eventCode \in {"SNAPSHOT_END", "NONE"}
    BY <1>2, SMTT(30), Z3T(30) DEF QueueEvents, SnapshotEnd, NoEvent
  <2>2. QED
    BY <2>1 DEF Apply, Concerns
<1>3. QED
  BY <1>1, <1>2, Zenon

\* A subscriber that is sent an event takes over what it says.
LEMMA PublishEventInv ==
    ASSUME MapInv, PubInv', NEW t \in Subscriptions, MapPublish(t)
    PROVE  MapInv'
<1> USE SubscriptionsAssumption
<1>1. /\ AtSubscriber(t) /\ NextSubscriber /\ interestedSubscribers # <<>>
      /\ UNCHANGED <<data, publishing, writes, sessionState, subscribers, eventQueue,
                     localEventQueue, snapshotPending>>
      /\ mirror' = IF CanSend(t) THEN [mirror EXCEPT ![t] = Apply(mirror[t], eventInfo)]
                                 ELSE mirror
  BY Zenon DEF MapPublish, PublishEvent, NextSubscriber, AtSubscriber
<1>2. /\ mirror \in [Subscriptions -> Maps]
      /\ eventInfo \in QueueEvents \cup {NoEvent}
  BY DEF MapInv, TypeOK
<1>3. mirror' \in [Subscriptions -> Maps]
  <2>1. Apply(mirror[t], eventInfo) \in Maps \/ Keys = {}
    BY <1>2, ApplyFacts
  <2>2. Keys = {} => Apply(mirror[t], eventInfo) \in Maps
    <3> SUFFICES ASSUME Keys = {} PROVE Apply(mirror[t], eventInfo) \in Maps
      OBVIOUS
    <3>1. mirror[t] \in Maps
      BY <1>2
    <3>2. eventInfo.eventCode \notin {"SET", "DELETE"}
      BY <1>2, SMTT(30), Z3T(30) DEF QueueEvents, MapEvents, SnapshotEnd, NoEvent
    <3>3. QED
      BY <3>1, <3>2, Zenon DEF Apply, Maps, EmptyMap
  <2>3. QED
    BY <1>1, <1>2, <2>1, <2>2
<1>4. ASSUME NEW k \in Keys, Following(t)', Settled(t, k)'
      PROVE  mirror'[t][k] = data[StorageOf[t]][k]
  <2>1. Following(t)
    BY <1>1, <1>4 DEF Following, Subscribed, CanSend
  <2>2. mirror'[t] = Apply(mirror[t], eventInfo)
    BY <2>1, <1>1, <1>2, Zenon DEF Following
  <2>3. StorageOf[t] = eventInfo.storageId
    <3>1. t \in Range(interestedSubscribers)
      BY <1>1, NextSubscriberFacts, Zenon DEF MapInv, PubInv, AtSubscriber
    <3>2. QED
      BY <3>1, Zenon DEF MapInv, PubInv, RightAudience
  <2>4. mirror'[t][k] = IF Concerns(eventInfo, StorageOf[t], k) THEN Effect(eventInfo)
                                                                ELSE mirror[t][k]
    BY <2>2, <2>3, <1>2, ApplyFacts, SMTT(30), Z3T(30)
  <2>5. CASE Concerns(eventInfo, StorageOf[t], k)
    <3>1. /\ Published(StorageOf[t], k) /\ Silent(eventQueue, StorageOf[t], k)
          /\ Silent(localEventQueue, StorageOf[t], k)
      BY <1>1, <1>4 DEF Settled, Silent, Published
    <3>2. Effect(eventInfo) = data[StorageOf[t]][k]
      BY <3>1, <2>5, <1>1 DEF MapInv, YoungestIsCurrent, YoungestOf
    <3>3. QED
      BY <2>4, <2>5, <3>2, Zenon
  <2>6. CASE ~Concerns(eventInfo, StorageOf[t], k)
    <3>1. Settled(t, k)
      BY <1>1, <1>4, <2>6, SettledBefore
    <3>2. QED
      BY <2>1, <2>4, <2>6, <3>1, Zenon DEF MapInv, MirrorsAgree
  <2>7. QED
    BY <2>5, <2>6, Zenon
<1>5. \A s \in Subscriptions \ {t} : /\ snapshotPending'[s] = snapshotPending[s]
                                     /\ mirror'[s] = mirror[s]
  BY <1>1, <1>2, Zenon
<1>6. QED
  BY <1>1, <1>3, <1>4, <1>5, MapWalkInv, Zenon

-----------------------------------------------------------------------------
(* Publishing, sessions, and the theorems. *)

\* Handing an event to the sink preserves the invariant: it joins the queue, or
\* is dropped when the storage has no subscriber and so no copy.
LEMMA PublishInv ==
    ASSUME MapInv, PubInv', NEW w \in Writers, UpdateRevNumAndPublish(w)
    PROVE  MapInv'
<1> USE MapAssumption, SubscriptionsAssumption
<1> DEFINE e == publishing[w]
<1>1. e \in MapEvents /\ e \in QueueEvents /\ e.storageId \in Storages
  BY EventTypes DEF MapInv, TypeOK, UpdateRevNumAndPublish, QueueEvents
<1>2. /\ publishing' = [publishing EXCEPT ![w] = NoEvent]
      /\ UNCHANGED <<sessionState, subscribers, snapshotPending, localEventQueue,
                     eventInfo, interestedSubscribers, data, mirror, writes>>
  BY DEF UpdateRevNumAndPublish, OnAnyContainerEvent
<1>3. /\ eventQueue \in Seq(QueueEvents)
      /\ publishing \in [Writers -> MapEvents \cup {NoEvent}]
      /\ data \in [Storages -> Maps]
  BY DEF MapInv, TypeOK
<1>4. ASSUME NEW d \in Storages, NEW k \in Keys, ~Concerns(e, d, k)
      PROVE  Published(d, k)' => Published(d, k)
  BY <1>2, <1>3, <1>4 DEF Published
<1>5. \A d \in Storages, k \in Keys : \A u \in Writers :
          Concerns(publishing'[u], d, k) => Effect(publishing'[u]) = data[d][k]
  BY <1>2, <1>3, NotConcerned, Zenon DEF MapInv, YoungestIsCurrent, YoungestOf
<1>6. TypeOK' <=> eventQueue' \in Seq(QueueEvents)
  BY <1>2, <1>3 DEF MapInv, PubInv, TypeOK
<1>7. CASE subscribers[e.storageId] = <<>>
  <2>1. eventQueue' = eventQueue
    BY <1>7, Zenon DEF UpdateRevNumAndPublish, OnAnyContainerEvent
  <2>2. ASSUME NEW k \in Keys
        PROVE  /\ Silent(eventQueue, e.storageId, k) /\ Silent(localEventQueue, e.storageId, k)
               /\ interestedSubscribers # <<>> => ~Concerns(eventInfo, e.storageId, k)
    <3>1. ~EventsOf(e.storageId, eventQueue) /\ ~EventsOf(e.storageId, localEventQueue)
      BY <1>1, <1>7, Zenon DEF MapInv, PubInv, RightAudience
    <3>2. ASSUME interestedSubscribers # <<>> PROVE eventInfo.storageId # e.storageId
      <4>1. PICK s \in Subscriptions : s \in Range(interestedSubscribers)
        BY <3>2, RangeHeadTail, SMTT(30), Z3T(30) DEF MapInv, PubInv, PubTypeOK
      <4>2. StorageOf[s] = eventInfo.storageId /\ Subscribed(s)
        BY <4>1 DEF MapInv, PubInv, RightAudience
      <4>3. QED
        BY <4>2, <1>7, RangeEmpty, Zenon DEF Subscribed
    <3>3. QED
      BY <3>1, <3>2, NoEventsSilent DEF Concerns
  <2>3. YoungestIsCurrent'
    <3> SUFFICES ASSUME NEW d \in Storages, NEW k \in Keys PROVE YoungestOf(d, k)'
      BY Zenon DEF YoungestIsCurrent
    <3> SUFFICES   /\ Published(d, k)' => YoungestIs(eventQueue, d, k, data[d][k])
                   /\ Published(d, k)' /\ Silent(eventQueue, d, k)
                         => YoungestIs(localEventQueue, d, k, data[d][k])
                   /\ (/\ Published(d, k)' /\ Silent(eventQueue, d, k)
                       /\ Silent(localEventQueue, d, k)
                       /\ interestedSubscribers # <<>> /\ Concerns(eventInfo, d, k))
                         => Effect(eventInfo) = data[d][k]
      BY <1>2, <1>5, <2>1, Zenon DEF YoungestOf
    <3>1. CASE d = e.storageId
      BY <3>1, <2>2, YoungestSilent, Zenon
    <3>2. CASE d # e.storageId
      BY <3>2, <1>4, ZenonT(30) DEF MapInv, YoungestIsCurrent, YoungestOf, Concerns
    <3>3. QED
      BY <3>1, <3>2, Zenon
  <2>4. MirrorsAgree'
    <3> SUFFICES ASSUME NEW s \in Subscriptions, NEW k \in Keys, Following(s)', Settled(s, k)'
                 PROVE  mirror'[s][k] = data'[StorageOf[s]][k]
      BY Zenon DEF MirrorsAgree
    <3>1. Following(s) /\ StorageOf[s] # e.storageId
      BY <1>2, <1>7, RangeEmpty DEF Following, Subscribed, CanSend
    <3>2. Settled(s, k)
      BY <3>1, <1>2, <1>4, <2>1, Zenon DEF Settled, Silent, Concerns
    <3>3. QED
      BY <3>1, <3>2, <1>2, Zenon DEF MapInv, MirrorsAgree
  <2>5. QED
    BY <1>3, <1>6, <2>1, <2>3, <2>4 DEF MapInv
<1>8. CASE subscribers[e.storageId] # <<>>
  <2>1. eventQueue' = Append(eventQueue, e)
    BY <1>8 DEF UpdateRevNumAndPublish, OnAnyContainerEvent
  <2>2. eventQueue' \in Seq(QueueEvents)
    BY <2>1, <1>1, <1>3, SMT, Z3
  <2>3. \A d \in Storages, k \in Keys :
            Silent(eventQueue', d, k) <=> Silent(eventQueue, d, k) /\ ~Concerns(e, d, k)
    BY <2>1, <1>1, <1>3, SilentAppend
  <2>4. YoungestIsCurrent'
    <3> SUFFICES ASSUME NEW d \in Storages, NEW k \in Keys PROVE YoungestOf(d, k)'
      BY Zenon DEF YoungestIsCurrent
    <3> SUFFICES   /\ Published(d, k)' => YoungestIs(eventQueue', d, k, data[d][k])
                   /\ Published(d, k)' /\ Silent(eventQueue', d, k)
                         => YoungestIs(localEventQueue, d, k, data[d][k])
                   /\ (/\ Published(d, k)' /\ Silent(eventQueue', d, k)
                       /\ Silent(localEventQueue, d, k)
                       /\ interestedSubscribers # <<>> /\ Concerns(eventInfo, d, k))
                         => Effect(eventInfo) = data[d][k]
      BY <1>2, <1>5, Zenon DEF YoungestOf
    <3>1. Concerns(e, d, k) => Effect(e) = data[d][k]
      BY Zenon DEF MapInv, YoungestIsCurrent, YoungestOf
    <3>2. Published(d, k)' => YoungestIs(eventQueue', d, k, data[d][k])
      <4>1. ASSUME Published(d, k)', ~Concerns(e, d, k)
            PROVE  YoungestIs(eventQueue, d, k, data[d][k])
        BY <4>1, <1>4, ZenonT(30) DEF MapInv, YoungestIsCurrent, YoungestOf
      <4>2. QED
        BY <4>1, <3>1, <2>1, <1>1, <1>3, YoungestAppend, Zenon
    <3>3. QED
      BY <3>2, <2>3, <1>4, Zenon DEF MapInv, YoungestIsCurrent, YoungestOf
  <2>5. MirrorsAgree'
    <3> SUFFICES ASSUME NEW s \in Subscriptions, NEW k \in Keys, Following(s)', Settled(s, k)'
                 PROVE  mirror'[s][k] = data'[StorageOf[s]][k]
      BY DEF MirrorsAgree
    <3>1. Silent(eventQueue', StorageOf[s], k)
      BY DEF Settled, Silent
    <3>2. Silent(eventQueue, StorageOf[s], k) /\ ~Concerns(e, StorageOf[s], k)
      BY <3>1, <2>3
    <3>3. Following(s) /\ Settled(s, k)
      BY <3>2, <1>2, <1>4, Zenon DEF Following, Settled, Subscribed, CanSend, Silent
    <3>4. QED
      BY <3>3, <1>2, Zenon DEF MapInv, MirrorsAgree
  <2>6. QED
    BY <1>6, <2>2, <2>4, <2>5 DEF MapInv
<1>9. QED
  BY <1>7, <1>8

\* A new subscription waits for its snapshot and its SNAPSHOT_END concerns no key;
\* a connection that is lost or destroyed has nobody to agree with.
LEMMA SessionLifeInv ==
    ASSUME MapInv, PubInv', SessionLife, UNCHANGED mapVars
    PROVE  MapInv'
<1> USE MapAssumption, SubscriptionsAssumption
<1>0. UNCHANGED <<data, publishing, mirror, writes>>
  BY DEF mapVars
<1>1. ASSUME NEW r \in Subscriptions, SessionAsyncSubscribe(r) PROVE MapInv'
  <2> DEFINE e == SnapshotEnd(StorageOf[r])
  <2>1. /\ eventQueue' = Append(eventQueue, e)
        /\ subscribers' = [subscribers EXCEPT ![StorageOf[r]] = Append(@, r)]
        /\ UNCHANGED <<sessionState, snapshotPending, localEventQueue, eventInfo,
                       interestedSubscribers>>
    BY <1>1 DEF SessionAsyncSubscribe
  <2>2. e \in QueueEvents /\ eventQueue \in Seq(QueueEvents)
    BY DEF QueueEvents, MapInv, TypeOK
  <2>3. TypeOK'
    BY <1>0, <2>1, <2>2, SMT, Z3 DEF MapInv, PubInv, TypeOK
  <2>4. \A c \in Storages, k \in Keys :
            Silent(eventQueue', c, k) <=> Silent(eventQueue, c, k)
    BY <2>1, <2>2, SilentAppend, NotConcerned
  <2>5. YoungestIsCurrent'
    <3> SUFFICES ASSUME NEW c \in Storages, NEW k \in Keys
                 PROVE  /\ \A w \in Writers : Concerns(publishing[w], c, k)
                              => Effect(publishing[w]) = data[c][k]
                        /\ Published(c, k) => YoungestIs(eventQueue', c, k, data[c][k])
                        /\ Published(c, k) /\ Silent(eventQueue', c, k)
                              => YoungestIs(localEventQueue, c, k, data[c][k])
                        /\ (/\ Published(c, k) /\ Silent(eventQueue', c, k)
                            /\ Silent(localEventQueue, c, k)
                            /\ interestedSubscribers # <<>> /\ Concerns(eventInfo, c, k))
                              => Effect(eventInfo) = data[c][k]
      BY <1>0, <2>1, ZenonT(30) DEF YoungestIsCurrent, YoungestOf, Published
    <3>1. ASSUME Published(c, k) PROVE YoungestIs(eventQueue', c, k, data[c][k])
      <4>1. YoungestIs(eventQueue, c, k, data[c][k]) /\ ~Concerns(e, c, k)
        BY <3>1, NotConcerned, Zenon DEF MapInv, YoungestIsCurrent, YoungestOf
      <4> HIDE DEF e
      <4>2. QED
        BY <4>1, <2>1, <2>2, YoungestAppend
    <3>2. QED
      BY <3>1, <2>4, Zenon DEF MapInv, YoungestIsCurrent, YoungestOf
  <2>6. MirrorsAgree'
    <3> SUFFICES ASSUME NEW s \in Subscriptions, NEW k \in Keys, Following(s)', Settled(s, k)'
                 PROVE  mirror[s][k] = data[StorageOf[s]][k]
      BY <1>0 DEF MirrorsAgree
    <3>1. Following(s)
      BY <2>1, Zenon DEF Following, CanSend, MapInv, PubInv, RightAudience
    <3>2. Silent(eventQueue', StorageOf[s], k)
      BY Zenon DEF Settled, Silent
    <3>3. Settled(s, k)
      BY <3>2, <2>1, <2>4, <1>0, Zenon DEF Settled, Silent, Published
    <3>4. QED
      BY <3>1, <3>3, Zenon DEF MapInv, MirrorsAgree
  <2>7. QED
    BY <2>3, <2>5, <2>6 DEF MapInv
<1>2. ASSUME NEW u \in Sessions, InvalidateConnection(u) \/ DestroySession(u) PROVE MapInv'
  <2>1. /\ UNCHANGED <<subscribers, snapshotPending, eventQueue, localEventQueue,
                       eventInfo, interestedSubscribers>>
        /\ \A t \in Sessions : sessionState'[t] = "valid" => sessionState[t] = "valid"
    BY <1>2, Zenon DEF MapInv, PubInv, PubTypeOK, InvalidateConnection, DestroySession
  <2>2. TypeOK'
    BY <1>0, <2>1 DEF MapInv, PubInv, TypeOK
  <2>3. YoungestIsCurrent'
    BY <1>0, <2>1, YoungestKept DEF MapInv
  <2>4. \A s \in Subscriptions, k \in Keys :
            /\ Following(s)' => Following(s)
            /\ Settled(s, k)' => Settled(s, k)
    BY <1>0, <2>1, Zenon DEF Following, Subscribed, CanSend, Settled, Silent, Published
  <2>5. MirrorsAgree'
    BY <1>0, <2>4, Zenon DEF MapInv, MirrorsAgree
  <2>6. QED
    BY <2>2, <2>3, <2>5, Zenon DEF MapInv
<1>3. QED
  BY <1>1, <1>2 DEF SessionLife

-----------------------------------------------------------------------------
(* The theorems. *)

\* Every step of the server and its writers preserves the invariant.
LEMMA MapStepInv == SingleWriter /\ MapInv /\ [Next]_vars => MapInv'
<1> SUFFICES ASSUME SingleWriter, MapInv, [Next]_vars PROVE MapInv'
  OBVIOUS
<1>1. PubInv'
  BY MapStepIsPubStep, PubStepInv DEF MapInv
<1>2. ASSUME NEW w \in Writers, MapWriter(w) PROVE MapInv'
  BY <1>1, <1>2, OperationInv, PublishInv DEF MapWriter
<1>3. CASE MapPublisher
  BY <1>1, <1>3, SwapInv, TakeInv, SkipInv, WithoutSnapshotInv, SnapshotInv,
     PublishEventInv DEF MapPublisher
<1>4. CASE SessionLife /\ UNCHANGED mapVars
  BY <1>1, <1>4, SessionLifeInv
<1>5. CASE UNCHANGED vars
  <2>1. UNCHANGED <<sessionState, subscribers, snapshotPending, eventQueue, localEventQueue,
                    eventInfo, interestedSubscribers, data, publishing, mirror, writes>>
    BY <1>5, Zenon DEF vars, pubVars, mapVars
  <2>2. TypeOK'
    BY <1>1, <2>1 DEF MapInv, PubInv, TypeOK
  <2>3. YoungestIsCurrent'
    BY <2>1, YoungestKept DEF MapInv
  <2>4. MirrorsAgree'
    BY <2>1, Zenon DEF MapInv, MirrorsAgree, Following, Subscribed, CanSend, Settled, Silent,
                Published
  <2>5. QED
    BY <1>1, <2>2, <2>3, <2>4 DEF MapInv
<1>6. QED
  BY <1>2, <1>3, <1>4, <1>5 DEF Next

\* With one writer per map the copies of the subscribers agree with the server's
\* maps, key by key, whenever nothing about the key is on its way to them: the
\* snapshot and the updates that PublisherThread sends after it fit together,
\* wherever a write falls between subscription, snapshot and batch.
THEOREM MapMirrorsAgree == SingleWriter => (Spec => []MirrorsAgree)
<1> SUFFICES ASSUME SingleWriter PROVE Spec => []MirrorsAgree
  OBVIOUS
<1>1. MapInv => MirrorsAgree
  BY DEF MapInv
<1>2. MapInv /\ [Next]_vars => MapInv'
  BY MapStepInv
<1>3. QED
  BY <1>1, <1>2, MapInitInv, PTL DEF Spec

\* The state of the maps, the queue, the batch and the writers has its types.
THEOREM MapTypes == SingleWriter => (Spec => []TypeOK)
<1> SUFFICES ASSUME SingleWriter PROVE Spec => []TypeOK
  OBVIOUS
<1>1. MapInv => TypeOK
  BY DEF MapInv
<1>2. MapInv /\ [Next]_vars => MapInv'
  BY MapStepInv
<1>3. QED
  BY <1>1, <1>2, MapInitInv, PTL DEF Spec

\* Of the events about one key that are under way from UpdateRevNumAndPublish to
\* the publisher's walk, the youngest carries the value the map holds.
THEOREM MapYoungestIsCurrent == SingleWriter => (Spec => []YoungestIsCurrent)
<1> SUFFICES ASSUME SingleWriter PROVE Spec => []YoungestIsCurrent
  OBVIOUS
<1>1. MapInv => YoungestIsCurrent
  BY DEF MapInv
<1>2. MapInv /\ [Next]_vars => MapInv'
  BY MapStepInv
<1>3. QED
  BY <1>1, <1>2, MapInitInv, PTL DEF Spec
==============================================================================
