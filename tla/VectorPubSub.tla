----------------------------- MODULE VectorPubSub -----------------------------
(***************************************************************************)
(* Vector containers (VectorStorage) next to the lists.  An operation      *)
(* changes data_ under a mutex that is not recursive, releases it and      *)
(* publishes afterwards; some arguments are read with no lock at all.      *)
(***************************************************************************)
EXTENDS ListPubSub

CONSTANTS
    Writers,  \* the io threads that use the vectors
    Thread,   \* the publisher's thread
    NoOne,    \* a mutex that is free
    Kinds     \* whether the containers of a behaviour are lists or vectors

ASSUME VectorAssumption ==
    /\ Thread \notin Writers /\ NoOne \notin Writers \cup {Thread}
    /\ Kinds \subseteq {"list", "vector"}

VARIABLES
    kind,     \* "list" or "vector"
    mutex,    \* VectorStorage::mutex_
    vpc,      \* where each writer is
    pending   \* the event each writer is about to publish

vectorVars == <<kind, mutex, vpc, pending>>
allVars == <<vars, vectorVars>>

InitVector ==
    /\ Init
    /\ kind \in Kinds
    /\ mutex = [c \in Storages |-> NoOne]
    /\ vpc = [w \in Writers |-> "idle"]
    /\ pending = [w \in Writers |-> NoEvent]

-----------------------------------------------------------------------------
(* VectorStorage's operations. *)

\* The 1-based position of a key: data_.at throws for one that is not there.
RecordNumber(c, index) == IF index < 0 THEN Size(c) + index + 1 ELSE index + 1
HasRecord(c, index) == RecordNumber(c, index) \in 1 .. Size(c)

\* The change under the lock.  published has the event as the lock would have it, told the
\* one the writer goes on with.
Change(w, c, contents, e, told, next) ==
    /\ kind = "vector" /\ mutex[c] = NoOne
    /\ Len(published[c]) < MaxWrites
    /\ data' = [data EXCEPT ![c] = contents]
    /\ published' = [published EXCEPT ![c] = Append(@, e)]
    /\ pending' = [pending EXCEPT ![w] = told]
    /\ vpc' = [vpc EXCEPT ![w] = next]
    /\ UNCHANGED <<pubVars, mirror, received, snapshotAt, kind, mutex>>

Event(c, code, k, v) == [storageId |-> c, eventCode |-> code, k |-> k, v |-> v]

\* An operation that has read nothing before.
ChangeOnly(w, c, contents, e, next) == vpc[w] = "idle" /\ Change(w, c, contents, e, e, next)

VectorPushBack(w, c, v) ==
    ChangeOnly(w, c, Append(data[c], v), Event(c, "INSERT", Size(c), v), "size")
VectorPushFront(w, c, v) ==
    ChangeOnly(w, c, <<v>> \o data[c], Event(c, "INSERT", 0, v), "publish")

\* PopBack and PopFront look for an empty vector, and PopBack at its size, before they lock.
StartPop(w, c) ==
    /\ kind = "vector" /\ vpc[w] = "idle" /\ data[c] # <<>>
    /\ \/ /\ pending' = [pending EXCEPT ![w] = Event(c, "DELETE", Size(c) - 1, Null)]
          /\ vpc' = [vpc EXCEPT ![w] = "popBack"]
       \/ /\ pending' = [pending EXCEPT ![w] = Event(c, "DELETE", 0, Null)]
          /\ vpc' = [vpc EXCEPT ![w] = "popFront"]
    /\ UNCHANGED <<vars, kind, mutex>>

\* Popping a vector another thread has emptied is undefined, so the model stops short of it.
Pop(w) ==
    LET e == pending[w]
        c == e.storageId
    IN  \/ /\ vpc[w] = "popBack" /\ data[c] # <<>>
           /\ Change(w, c, AllButLast(data[c]), [e EXCEPT !.k = Size(c) - 1], e, "publish")
        \/ /\ vpc[w] = "popFront" /\ data[c] # <<>>
           /\ Change(w, c, Tail(data[c]), e, e, "publish")

VectorSet(w, c, index, v) ==
    /\ HasRecord(c, index)
    /\ ChangeOnly(w, c, Assigned(data[c], RecordNumber(c, index), v),
                  Event(c, "SET", index, v), "publish")

VectorClear(w, c) == ChangeOnly(w, c, <<>>, Event(c, "CLEAR", Null, Null), "publish")

\* Insert and Delete call GetRecord with mutex_ held, which locks it again: they never return.
InsertOrDelete(w, c, index) ==
    /\ kind = "vector" /\ vpc[w] = "idle" /\ mutex[c] = NoOne
    /\ index >= -Size(c)
    /\ mutex' = [mutex EXCEPT ![c] = w]
    /\ vpc' = [vpc EXCEPT ![w] = "stuck"]
    /\ UNCHANGED <<vars, kind, pending>>

ReadWholeSize(w) ==  \* mutant: the size instead of the last index
    /\ vpc[w] = "size"
    /\ pending' = [pending EXCEPT ![w].k = Size(pending[w].storageId)]
    /\ vpc' = [vpc EXCEPT ![w] = "publish"]
    /\ UNCHANGED <<vars, kind, mutex>>

\* PushBack reads data_.size() for its event after the lock is gone.
ReadSize(w) ==
    /\ vpc[w] = "size"
    /\ pending' = [pending EXCEPT ![w].k = Size(pending[w].storageId) - 1]
    /\ vpc' = [vpc EXCEPT ![w] = "publish"]
    /\ UNCHANGED <<vars, kind, mutex>>

\* Publish locks mutex_ for the sink and calls it unlocked.
Publish(w) ==
    /\ vpc[w] = "publish" /\ mutex[pending[w].storageId] = NoOne
    /\ OnAnyContainerEvent(pending[w])
    /\ vpc' = [vpc EXCEPT ![w] = "idle"]
    /\ pending' = [pending EXCEPT ![w] = NoEvent]
    /\ UNCHANGED <<listVars, kind, mutex>>

\* Query calls GetRecordCount with mutex_ held: the publisher never comes back from the
\* snapshot of a vector.
QuerySnapshot(s) ==
    LET c == StorageOf[s]
    IN  /\ kind = "vector" /\ mutex[c] = NoOne
        /\ AtSubscriber(s) /\ InSnapshotLoop /\ snapshotPending[s]
        /\ StartOf[s] # NoSnapshot /\ ~SessionGone(s)
        /\ mutex' = [mutex EXCEPT ![c] = Thread]
        /\ UNCHANGED <<vars, kind, vpc, pending>>

VectorWriter(w) ==
    \/ Publish(w) \/ ReadSize(w) \/ Pop(w)
    \/ \E c \in Storages :
        \/ StartPop(w, c) \/ VectorClear(w, c)
        \/ \E v \in NewValues : VectorPushBack(w, c, v) \/ VectorPushFront(w, c, v)
        \/ \E i \in Indexes : InsertOrDelete(w, c, i)
        \/ \E i \in Indexes, v \in NewValues : VectorSet(w, c, i, v)

PublisherFree == \A c \in Storages : mutex[c] # Thread

NextVector ==
    \/ kind = "list" /\ Next /\ UNCHANGED vectorVars
    \/ kind = "vector" /\ SessionLife /\ UNCHANGED <<listVars, vectorVars>>
    \/ /\ kind = "vector" /\ PublisherFree
       /\ (SwapEventQueue \/ TakeEvent) /\ UNCHANGED <<listVars, vectorVars>>
    \/ /\ kind = "vector" /\ PublisherFree
       /\ \E s \in Subscriptions :
             \/ SkipSubscriber(s) /\ UNCHANGED listVars
             \/ ListNoSnapshot(s)
             \/ ListPublish(s)
       /\ UNCHANGED vectorVars
    \/ \E s \in Subscriptions : QuerySnapshot(s)
    \/ \E w \in Writers : VectorWriter(w)

SpecVector ==
    /\ InitVector
    /\ [][NextVector]_allVars
    /\ WF_allVars(ListPublisher /\ UNCHANGED vectorVars)
    /\ \A w \in Writers : WF_allVars(VectorWriter(w))

-----------------------------------------------------------------------------
(* Properties. *)

\* The events writers have still to publish.
Unpublished(c) == {w \in Writers : vpc[w] \in {"size", "publish"} /\ pending[w].storageId = c}

\* A subscriber is sent every change of the container once, in the order the changes were
\* made and with the index they were made at, also where the event is published after the
\* lock that covered the change is gone.
EventsInOrder ==
    \A s \in Subscriptions : Receiving(s) /\ Unpublished(StorageOf[s]) = {} => AllSent(s)

\* Nobody is in a list of subscribers twice, and the publisher walks only with an event.
WalkOnce ==
    /\ \A c \in Storages : IsInjective(subscribers[c])
    /\ IsInjective(interestedSubscribers)
    /\ eventInfo = NoEvent <=> interestedSubscribers = <<>>

\* A writer of a vector goes on with the last change it made.
WriterInv ==
    /\ kind \in Kinds
    /\ vpc \in [Writers -> {"idle", "popBack", "popFront", "size", "publish", "stuck"}]
    /\ pending \in [Writers -> EventInfo \cup {NoEvent}]
    /\ \A w \in Writers :
          LET e == pending[w]
              c == e.storageId
          IN  /\ kind = "list" => vpc[w] = "idle"
              /\ vpc[w] \in {"popBack", "popFront", "size", "publish"} => e \in ListEvents
              /\ vpc[w] \in {"popBack", "popFront"} => e.eventCode = "DELETE"
              /\ vpc[w] = "popBack" => e.k = Size(c) - 1
              /\ vpc[w] \in {"size", "publish"} => published[c] # <<>>
              /\ vpc[w] = "size" => LastOf(published[c]) = [e EXCEPT !.k = Size(c) - 1]
              /\ vpc[w] = "publish" => LastOf(published[c]) = e

\* The updates of a storage that have been handed to the publisher, or to nobody.
Announced(c) == IF Unpublished(c) = {} THEN published[c] ELSE AllButLast(published[c])

\* What is queued, and what a subscriber was sent and has on its way, are the most recent
\* of these.
QueueFollows(c) == \E n \in 0 .. Len(Announced(c)) : Queued(c) = Rest(Announced(c), n)
SentFollows(s) ==
    \E n \in 0 .. Len(Announced(StorageOf[s])) :
       /\ Sent(s) = Rest(Announced(StorageOf[s]), n)
       /\ ~snapshotPending[s] => n <= snapshotAt[s]

\* A subscriber that waits for its snapshot was sent nothing.
StreamInv ==
    /\ \A c \in Storages : QueueFollows(c)
    /\ \A s \in Subscriptions :
          /\ snapshotPending[s] => received[s] = <<>> /\ mirror[s] = <<>>
          /\ Subscribed(s) /\ CanSend(s) => SentFollows(s)

\* The lists do not outgrow the indexes, and every change has one where it needs one.
IndexInv ==
    \A c \in Storages :
       /\ Len(data[c]) <= Len(Contents[c]) + Len(published[c])
       /\ Len(published[c]) <= MaxWrites
       /\ \A i \in DOMAIN published[c] : published[c][i] \in ListEvents

\* The snapshot of a vector is never sent.
NoVectorSnapshot ==
    kind = "vector" => \A s \in Subscriptions : StartOf[s] # NoSnapshot => snapshotPending[s]

VectorInv ==
    /\ TypeOK /\ RightAudience /\ PendingHasSnapshotEnd
    /\ WalkOnce /\ WriterInv /\ StreamInv /\ IndexInv /\ NoVectorSnapshot

\* The suite's test of volatile_vector: an operation returns.
OperationsReturn == \A w \in Writers : vpc[w] # "idle" ~> vpc[w] = "idle"
==============================================================================
