------------------------------ MODULE MapPubSub ------------------------------
(***************************************************************************)
(* Map containers (MapStorage) written by sessions and mirrored by         *)
(* subscribers through the publisher.                                      *)
(*                                                                         *)
(* A map operation changes data_ under the storage's mutex, releases it,   *)
(* and only then publishes (UpdateRevNumAndPublish): between the two steps *)
(* other sessions and the publisher run.  revNum_ is read by nobody on     *)
(* this path and is left out; a value stands for value and metadata.       *)
(***************************************************************************)
EXTENDS Publisher

CONSTANTS
    Writers,    \* sessions that run map commands, one command at a time each
    Owners,     \* Owners[c]: the writers that write to storage c
    Absent,     \* no record under this key
    MaxWrites   \* bound on the number of map operations

ASSUME MapAssumption ==
    /\ Owners \in [Storages -> SUBSET Writers]
    /\ Absent \notin Values
    /\ Null \notin Keys \cup Values \cup Storages
    /\ MaxWrites \in Nat

VARIABLES
    data,       \* MapStorage::data_
    publishing, \* the event a writer has still to hand to the sink
    mirror,     \* the copy a subscriber builds from what it is sent
    writes

mapVars == <<data, publishing, mirror, writes>>
vars == <<pubVars, mapVars>>

Maps == [Keys -> Values \cup {Absent}]
EmptyMap == [k \in Keys |-> Absent]

MapEvents ==
    {e \in Updates : \/ e.eventCode = "SET" /\ e.k \in Keys /\ e.v \in Values
                     \/ e.eventCode = "DELETE" /\ e.k \in Keys
                     \/ e.eventCode = "CLEAR"}

QueueEvents == MapEvents \cup {SnapshotEnd(c) : c \in Storages}

TypeOK ==
    /\ PubTypeOK
    /\ eventQueue \in Seq(QueueEvents)
    /\ localEventQueue \in Seq(QueueEvents)
    /\ eventInfo \in QueueEvents \cup {NoEvent}
    /\ data \in [Storages -> Maps]
    /\ publishing \in [Writers -> MapEvents \cup {NoEvent}]
    /\ \A w \in Writers :
          publishing[w] # NoEvent => w \in Owners[publishing[w].storageId]
    /\ mirror \in [Subscriptions -> Maps]
    /\ writes \in 0 .. MaxWrites

Init ==
    /\ PubInit
    /\ data = [c \in Storages |-> EmptyMap]
    /\ publishing = [w \in Writers |-> NoEvent]
    /\ mirror = [s \in Subscriptions |-> EmptyMap]
    /\ writes = 0

Event(c, code, k, v) == [storageId |-> c, eventCode |-> code, k |-> k, v |-> v]

-----------------------------------------------------------------------------
(* MapStorage's operations, up to the release of its mutex. *)

\* The new contents of c and the event w will publish for it.
Change(w, c, contents, event) ==
    /\ w \in Owners[c]
    /\ publishing[w] = NoEvent
    /\ writes < MaxWrites
    /\ writes' = writes + 1
    /\ data' = [data EXCEPT ![c] = contents]
    /\ publishing' = [publishing EXCEPT ![w] = event]
    /\ UNCHANGED <<pubVars, mirror>>

Set(w, c, k, v) ==
    Change(w, c, [data[c] EXCEPT ![k] = v], Event(c, "SET", k, v))

InsertAsInsert(w, c, k, v) ==  \* mutant: published as INSERT, which maps do not know
    /\ data[c][k] = Absent
    /\ Change(w, c, [data[c] EXCEPT ![k] = v], Event(c, "INSERT", k, v))

Insert(w, c, k, v) ==
    /\ data[c][k] = Absent
    /\ Change(w, c, [data[c] EXCEPT ![k] = v], Event(c, "SET", k, v))

Delete(w, c, k) ==
    /\ data[c][k] # Absent
    /\ Change(w, c, [data[c] EXCEPT ![k] = Absent], Event(c, "DELETE", k, Null))

Clear(w, c) == Change(w, c, EmptyMap, Event(c, "CLEAR", Null, Null))

UpdateRevNumAndPublish(w) ==
    /\ publishing[w] # NoEvent
    /\ OnAnyContainerEvent(publishing[w])
    /\ publishing' = [publishing EXCEPT ![w] = NoEvent]
    /\ UNCHANGED <<data, mirror, writes>>

-----------------------------------------------------------------------------
(* What a subscriber makes of the messages it is sent. *)

Apply(m, e) ==
    CASE e.eventCode = "SET"    -> [m EXCEPT ![e.k] = e.v]
      [] e.eventCode = "DELETE" -> [m EXCEPT ![e.k] = Absent]
      [] e.eventCode = "CLEAR"  -> EmptyMap
      [] OTHER                  -> m

CanSend(s) == sessionState[SessionOf[s]] = "valid"

MapSnapshot(s) ==
    /\ SendSubscriptionSnapshot(s)
    /\ mirror' = IF CanSend(s) THEN [mirror EXCEPT ![s] = data[StorageOf[s]]]
                               ELSE mirror
    /\ UNCHANGED <<data, publishing, writes>>

MapPublish(s) ==
    /\ PublishEvent(s)
    /\ mirror' = IF CanSend(s) THEN [mirror EXCEPT ![s] = Apply(@, eventInfo)]
                               ELSE mirror
    /\ UNCHANGED <<data, publishing, writes>>

MapWriter(w) ==
    \/ \E c \in Storages : Clear(w, c)
    \/ \E c \in Storages, k \in Keys : Delete(w, c, k)
    \/ \E c \in Storages, k \in Keys, v \in Values : Set(w, c, k, v) \/ Insert(w, c, k, v)
    \/ UpdateRevNumAndPublish(w)

MapPublisher ==
    \/ (SwapEventQueue \/ TakeEvent) /\ UNCHANGED mapVars
    \/ \E s \in Subscriptions :
          \/ (SkipSubscriber(s) \/ SubscribeWithoutSnapshot(s)) /\ UNCHANGED mapVars
          \/ MapSnapshot(s)
          \/ MapPublish(s)

SessionLife ==
    \/ \E s \in Subscriptions : SessionAsyncSubscribe(s)
    \/ \E t \in Sessions : InvalidateConnection(t) \/ DestroySession(t)

Next ==
    \/ \E w \in Writers : MapWriter(w)
    \/ MapPublisher
    \/ SessionLife /\ UNCHANGED mapVars

\* The publisher thread runs; a command that changed the map runs to its end.
Spec ==
    /\ Init
    /\ [][Next]_vars
    /\ WF_vars(MapPublisher)
    /\ \A w \in Writers : WF_vars(UpdateRevNumAndPublish(w))

-----------------------------------------------------------------------------
(* Properties. *)

Concerns(e, c, k) ==
    /\ e.storageId = c
    /\ \/ e.eventCode = "CLEAR"
       \/ e.eventCode \in {"SET", "DELETE"} /\ e.k = k

Effect(e) == IF e.eventCode = "SET" THEN e.v ELSE Absent

\* No event that touches key k of storage c is in the sequence q.
Silent(q, c, k) == \A i \in DOMAIN q : ~Concerns(q[i], c, k)

Published(c, k) == \A w \in Writers : ~Concerns(publishing[w], c, k)

\* A subscriber that was sent a snapshot and is still connected.
Following(s) ==
    /\ Subscribed(s)
    /\ ~snapshotPending[s]
    /\ StartOf[s] # NoSnapshot
    /\ CanSend(s)

\* Nothing about key k is on its way to s.
Settled(s, k) ==
    LET c == StorageOf[s]
    IN  /\ Published(c, k)
        /\ Silent(eventQueue, c, k)
        /\ Silent(localEventQueue, c, k)
        /\ ~(Concerns(eventInfo, c, k) /\ s \in Range(interestedSubscribers))

\* Key by key, the copy of a connected subscriber that got its snapshot is the
\* server's map as soon as no event about that key is on its way to it: no
\* update is lost, applied late or applied in the wrong order for good.
MirrorsAgree ==
    \A s \in Subscriptions, k \in Keys :
        Following(s) /\ Settled(s, k) => mirror[s][k] = data[StorageOf[s]][k]

\* The youngest event about key k of storage c in q, if there is one, sets it to x.
YoungestIs(q, c, k, x) ==
    \A i \in DOMAIN q :
        (/\ Concerns(q[i], c, k)
         /\ \A j \in DOMAIN q : j > i => ~Concerns(q[j], c, k))
        => Effect(q[i]) = x

\* What makes it so: of the events about one key that are under way, from the
\* writers through the queue and the batch to the walk, the youngest carries the
\* value the map holds.
YoungestOf(c, k) ==
    /\ \A w \in Writers : Concerns(publishing[w], c, k)
          => Effect(publishing[w]) = data[c][k]
    /\ Published(c, k) => YoungestIs(eventQueue, c, k, data[c][k])
    /\ Published(c, k) /\ Silent(eventQueue, c, k)
          => YoungestIs(localEventQueue, c, k, data[c][k])
    /\ (/\ Published(c, k) /\ Silent(eventQueue, c, k) /\ Silent(localEventQueue, c, k)
        /\ interestedSubscribers # <<>> /\ Concerns(eventInfo, c, k))
          => Effect(eventInfo) = data[c][k]

YoungestIsCurrent == \A c \in Storages, k \in Keys : YoungestOf(c, k)

\* Once a map is no longer written, every subscriber that stays connected ends
\* up with the server's contents and keeps them.
EventuallyConsistent ==
    \A s \in Subscriptions :
        Subscribed(s) /\ StartOf[s] # NoSnapshot
        ~> [](mirror[s] = data[StorageOf[s]] \/ ~CanSend(s))
=============================================================================
