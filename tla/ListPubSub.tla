------------------------------ MODULE ListPubSub ------------------------------
(***************************************************************************)
(* List containers (ListStorage) and the copies subscribers keep of them.  *)
(*                                                                         *)
(* Every list operation changes data_ and hands the event to the sink      *)
(* under the storage's (recursive) mutex: one atomic step, whichever       *)
(* session runs it.  The publisher takes a subscriber's snapshot with      *)
(* Query when it reaches the SNAPSHOT_END that the subscription queued,    *)
(* which may be after further changes.                                     *)
(***************************************************************************)
EXTENDS Publisher, ContainerIndex, SeqFold, StdList

CONSTANTS
    Contents,   \* what the lists hold when the behaviour starts
    NewValues,  \* the values clients write
    Indexes,    \* the indexes clients pass, negative ones included
    MaxWrites   \* bound on the number of list operations

ASSUME ListAssumption ==
    /\ Contents \in [Storages -> Seq(Values)]
    /\ NewValues \subseteq Values
    /\ Indexes \subseteq CInt
    /\ MaxWrites \in Nat
    /\ NoSnapshot # 0
    /\ \A s \in Subscriptions : StartOf[s] \in CInt \cup {NoSnapshot}
    /\ \A c \in Storages :
          /\ Len(Contents[c]) + MaxWrites <= MaxInt
          /\ (0 .. Len(Contents[c]) + MaxWrites) \cup Indexes \subseteq Keys

VARIABLES
    data,       \* ListStorage::data_
    mirror,     \* the list a subscriber builds from what it is sent
    published,  \* history: every update of a storage, dropped ones included
    received,   \* history: the updates sent to a subscriber after its snapshot
    snapshotAt  \* history: Len(published) when the snapshot was taken or waived

listVars == <<data, mirror, published, received, snapshotAt>>
vars == <<pubVars, listVars>>

TypeOK ==
    /\ PubTypeOK
    /\ data \in [Storages -> Seq(Values)]
    /\ mirror \in [Subscriptions -> Seq(Values \cup {Null})]
    /\ published \in [Storages -> Seq(EventInfo)]
    /\ received \in [Subscriptions -> Seq(EventInfo)]
    /\ snapshotAt \in [Subscriptions -> Nat]

Init ==
    /\ PubInit
    /\ data = Contents
    /\ mirror = [s \in Subscriptions |-> <<>>]
    /\ published = [c \in Storages |-> <<>>]
    /\ received = [s \in Subscriptions |-> <<>>]
    /\ snapshotAt = [s \in Subscriptions |-> 0]

-----------------------------------------------------------------------------
(* ListStorage's operations. *)

Size(c) == Len(data[c])

UpdateRevNumAndPublish(c, contents, code, k, v) ==
    LET e == [storageId |-> c, eventCode |-> code, k |-> k, v |-> v]
    IN  /\ Len(published[c]) < MaxWrites
        /\ data' = [data EXCEPT ![c] = contents]
        /\ published' = [published EXCEPT ![c] = Append(@, e)]
        /\ OnAnyContainerEvent(e)
        /\ UNCHANGED <<mirror, received, snapshotAt>>

PushBack(c, v) ==
    UpdateRevNumAndPublish(c, Append(data[c], v), "PUSH_BACK", Size(c), v)

PushFront(c, v) ==
    UpdateRevNumAndPublish(c, <<v>> \o data[c], "PUSH_FRONT", 0, v)

PopBackOldSize(c) ==  \* mutant: the index is the size before the pop
    /\ data[c] # <<>>
    /\ UpdateRevNumAndPublish(c, AllButLast(data[c]), "DELETE", Size(c), Null)

PopBack(c) ==
    /\ data[c] # <<>>
    /\ UpdateRevNumAndPublish(c, AllButLast(data[c]), "DELETE", Size(c) - 1, Null)

PopFront(c) ==
    /\ data[c] # <<>>
    /\ UpdateRevNumAndPublish(c, Tail(data[c]), "DELETE", 0, Null)

\* The 1-based position of the iterator GetOffset returns, end() for an empty
\* list.
GetOffset(c, index) ==
    LET i == NormalizeIndex(index, Size(c))
    IN  IF i = OutOfBounds THEN OutOfBounds ELSE i + 1

\* Index 0 of an empty list passes GetOffset, and Set then writes through
\* end(): undefined, so the model stops short of it.
Set(c, index, v) ==
    /\ GetOffset(c, index) # OutOfBounds
    /\ data[c] # <<>>
    /\ UpdateRevNumAndPublish(c, Assigned(data[c], GetOffset(c, index), v), "SET", index, v)

Insert(c, index, v) ==
    \/ /\ index = 0
       /\ UpdateRevNumAndPublish(c, <<v>> \o data[c], "INSERT", index, v)
    \/ /\ index # 0 /\ index = Size(c)
       /\ UpdateRevNumAndPublish(c, Append(data[c], v), "INSERT", index, v)
    \/ /\ index # 0 /\ index # Size(c)
       /\ GetOffset(c, index) # OutOfBounds
       /\ UpdateRevNumAndPublish(c, Inserted(data[c], GetOffset(c, index), v), "INSERT", index, v)

Delete(c, index) ==
    /\ GetOffset(c, index) # OutOfBounds
    /\ data[c] # <<>>
    /\ UpdateRevNumAndPublish(c, Erased(data[c], GetOffset(c, index)), "DELETE",
                              NormalizeIndex(index, Size(c)), Null)

Clear(c) == UpdateRevNumAndPublish(c, <<>>, "CLEAR", Null, Null)

\* Query(start, 0): the values of the snapshot.
Query(c, start) ==
    LET limits == NormalizeQueryLimits(start, 0, Size(c))
    IN  SubSeq(data[c], limits.start + 1, limits.end)

-----------------------------------------------------------------------------
(* What a subscriber makes of an event: the Python test client's ListMirror. *)

InRange(l, k) == -Len(l) <= k /\ k < Len(l)
At(l, k) == IF k < 0 THEN Len(l) + k + 1 ELSE k + 1

\* list.insert of Python, which never fails.
PyInsert(l, k, v) ==
    CASE k >= Len(l)  -> Append(l, v)
      [] k <= -Len(l) -> <<v>> \o l
      [] OTHER        -> Inserted(l, At(l, k), v)

\* An index error in the callback leaves the copy as it is.
Apply(l, e) ==
    CASE e.eventCode = "PUSH_BACK"  -> Append(l, e.v)
      [] e.eventCode = "PUSH_FRONT" -> <<e.v>> \o l
      [] e.eventCode = "INSERT"     -> PyInsert(l, e.k, e.v)
      [] e.eventCode = "CLEAR"      -> <<>>
      [] e.eventCode = "DELETE" /\ InRange(l, e.k) -> Erased(l, At(l, e.k))
      [] e.eventCode = "SET" /\ InRange(l, e.k)    -> Assigned(l, At(l, e.k), e.v)
      [] OTHER -> l

CanSend(s) == sessionState[SessionOf[s]] = "valid"

\* The snapshot goes out as PUSH_BACK events.
ListSnapshot(s) ==
    /\ SendSubscriptionSnapshot(s)
    /\ mirror' = IF CanSend(s)
                 THEN [mirror EXCEPT ![s] = @ \o Query(StorageOf[s], StartOf[s])]
                 ELSE mirror
    /\ snapshotAt' = [snapshotAt EXCEPT ![s] = Len(published[StorageOf[s]])]
    /\ UNCHANGED <<data, published, received>>

ListNoSnapshot(s) ==
    /\ SubscribeWithoutSnapshot(s)
    /\ snapshotAt' = [snapshotAt EXCEPT ![s] = Len(published[StorageOf[s]])]
    /\ UNCHANGED <<data, mirror, published, received>>

ListPublish(s) ==
    /\ PublishEvent(s)
    /\ mirror' = IF CanSend(s) THEN [mirror EXCEPT ![s] = Apply(@, eventInfo)]
                               ELSE mirror
    /\ received' = IF CanSend(s) THEN [received EXCEPT ![s] = Append(@, eventInfo)]
                                 ELSE received
    /\ UNCHANGED <<data, published, snapshotAt>>

ListWriter ==
    \E c \in Storages :
        \/ PopBack(c) \/ PopFront(c) \/ Clear(c)
        \/ \E v \in NewValues : PushBack(c, v) \/ PushFront(c, v)
        \/ \E i \in Indexes : Delete(c, i)
        \/ \E i \in Indexes, v \in NewValues : Set(c, i, v) \/ Insert(c, i, v)

ListPublisher ==
    \/ (SwapEventQueue \/ TakeEvent) /\ UNCHANGED listVars
    \/ \E s \in Subscriptions :
          \/ SkipSubscriber(s) /\ UNCHANGED listVars
          \/ ListNoSnapshot(s)
          \/ ListSnapshot(s)
          \/ ListPublish(s)

SessionLife ==
    \/ \E s \in Subscriptions : SessionAsyncSubscribe(s)
    \/ \E t \in Sessions : InvalidateConnection(t) \/ DestroySession(t)

Next == ListWriter \/ ListPublisher \/ (SessionLife /\ UNCHANGED listVars)

Spec == Init /\ [][Next]_vars /\ WF_vars(ListPublisher)

-----------------------------------------------------------------------------
(* Properties. *)

\* The updates of storage c among the events of q, in their order.
IsUpdateOf(c, e) == e.storageId = c /\ e.eventCode \in UpdateCodes
Keep(c) ==
    [p \in Seq(EventInfo) \X EventInfo |-> IF IsUpdateOf(c, p[2]) THEN Append(p[1], p[2]) ELSE p[1]]
UpdatesOf(c, q) == Fold(Keep(c), <<>>, q)

\* Every change but Clear has an index.
ListEvents == {e \in Updates : e.eventCode # "CLEAR" => e.k \in Int}

\* A copy after the events of q.
Mirroring == [p \in Seq(Values \cup {Null}) \X ListEvents |-> Apply(p[1], p[2])]
Replay(l, q) == Fold(Mirroring, l, q)

\* The updates on their way to s, oldest first: in the walk that has not reached s, and in
\* the queues.
Now(s) ==
    IF s \in Range(interestedSubscribers) THEN UpdatesOf(StorageOf[s], <<eventInfo>>) ELSE <<>>
Queued(c) == UpdatesOf(c, localEventQueue) \o UpdatesOf(c, eventQueue)
UnderWay(s) == Now(s) \o Queued(StorageOf[s])

Receiving(s) == Subscribed(s) /\ ~snapshotPending[s] /\ CanSend(s)

Sent(s) == received[s] \o UnderWay(s)

\* What s was sent and what is on its way to it are the most recent updates of
\* the storage, at least those since the snapshot.
AllSent(s) == \E n \in 0 .. snapshotAt[s] : Sent(s) = Rest(published[StorageOf[s]], n)

\* None of the updates sent was already part of the snapshot.
NoOverlap(s) ==
    Len(Sent(s)) = Len(published[StorageOf[s]]) - snapshotAt[s]

\* A subscriber whose snapshot was taken with no update of the list waiting
\* behind it reconstructs the list: its copy plus what is on its way is the
\* list, at every moment, whatever indexes the operations used (but for
\* INT_MIN, which NormalizeIndex takes for the first element).
CleanMirror ==
    \A s \in Subscriptions :
        Receiving(s) /\ StartOf[s] = 0 /\ NoOverlap(s)
        => Replay(mirror[s], UnderWay(s)) = data[StorageOf[s]]

\* "Snapshot plus updates": a subscriber that has been sent everything holds
\* the list the server holds.
MirrorsAgree ==
    \A s \in Subscriptions :
        Receiving(s) /\ StartOf[s] = 0 /\ UnderWay(s) = <<>>
        => mirror[s] = data[StorageOf[s]]
=============================================================================
