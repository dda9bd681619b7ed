-------------------------- MODULE VectorPubSubProofs --------------------------
(***************************************************************************)
(* Lists and vectors: the results.  The steps are those of                 *)
(* VectorStepProofs; here is the induction principle they rest on, from    *)
(* the library of well-founded relations.                                  *)
(***************************************************************************)
EXTENDS VectorStepProofs, WellFoundedInduction

\* Induction over the natural numbers: of the numbers that are not in the set, there
\* would be a smallest one.
LEMMA InductionHolds == NaturalInduction
<1>. SUFFICES ASSUME NEW S, 0 \in S, \A n \in Nat : n \in S => n + 1 \in S
              PROVE  Nat \subseteq S
    BY DEF NaturalInduction
<1>. DEFINE T == Nat \ S
<1>. DEFINE R == {ss \in Nat \X Nat : ss[1] < ss[2]}
<1>. SUFFICES ASSUME T # {} PROVE FALSE
    OBVIOUS
<1>1. IsWellFoundedOn(R, Nat)
    BY NatLessThanWellFounded DEF OpToRel
<1>2. \E m \in T : \A k \in T : ~ (<<k, m>> \in R)
  <2>1. T \subseteq Nat
      OBVIOUS
  <2>. HIDE DEF T, R
  <2>. QED BY <1>1, <2>1, WFMin, Zenon
<1>3. PICK m \in T : \A k \in T : ~ (<<k, m>> \in R)
    BY <1>2
<1>4. m \in Nat /\ m # 0
    OBVIOUS
<1>5. m - 1 \in Nat /\ m - 1 + 1 = m /\ <<m - 1, m>> \in R
    BY <1>4
<1>. QED BY <1>3, <1>4, <1>5

-----------------------------------------------------------------------------
(* The publisher and the sessions preserve the invariant. *)

\* What a step of theirs cannot disturb, and what is left to show of it.
LEMMA PublisherKeeps ==
    ASSUME VectorInv, PubNext, UNCHANGED <<data, published, vectorVars>>
    PROVE  /\ \A c \in Storages : /\ Announced(c) \in Seq(EventInfo) /\ Announced(c)' = Announced(c)
                                  /\ Len(Announced(c)) <= Len(published[c])
           /\ TypeOK' /\ WalkOnce' /\ StreamInv' /\ NoVectorSnapshot' => VectorInv'
<1>. USE DEF VectorInv
<1>1. UNCHANGED <<kind, mutex, vpc, pending>>
    BY DEF vectorVars
<1>2. PubInv'
    BY VectorInvPub, PubStepInv
<1>3. WriterInv'
    BY <1>1, Zenon DEF WriterInv, Size
<1>4. IndexInv'
    BY Zenon DEF IndexInv
<1>5. \A c \in Storages : Announced(c)' = Announced(c)
    BY <1>1, Zenon DEF Announced, Unpublished
<1>. QED BY <1>2, <1>3, <1>4, <1>5, AnnouncedType, SMTT(30), ZenonT(30) DEF PubInv

\* Sessions.
LEMMA SessionInv ==
    ASSUME VectorInv, SessionLife, UNCHANGED <<listVars, vectorVars>>
    PROVE  VectorInv'
<1>. USE DEF VectorInv
<1>1. UNCHANGED <<data, mirror, published, received, snapshotAt, vectorVars, kind>>
    BY DEF listVars, vectorVars
<1>2. PubInv /\ PubNext
    BY VectorInvPub DEF SessionLife, PubNext
<1>3. PubInv' /\ snapshotPending' = snapshotPending
    BY <1>2, PubStepInv DEF SessionLife, SessionAsyncSubscribe, InvalidateConnection, DestroySession
<1>4. TypeOK' /\ NoVectorSnapshot'
    BY <1>1, <1>3, Zenon DEF TypeOK, PubInv, NoVectorSnapshot
<1>5. \A c \in Storages : Announced(c)' = Announced(c)
    BY <1>1, <1>2, PublisherKeeps, Zenon
<1>6. ASSUME NEW t \in Subscriptions, SessionAsyncSubscribe(t) PROVE WalkOnce' /\ StreamInv'
    BY <1>1, <1>2, <1>5, <1>6, InductionHolds, SubscribeStreams, SubscribeStream, SMTT(30), ZenonT(30)
<1>7. ASSUME NEW t \in Sessions, InvalidateConnection(t) \/ DestroySession(t)
      PROVE  WalkOnce' /\ StreamInv'
  <2>1. /\ UNCHANGED <<subscribers, snapshotPending, eventQueue, localEventQueue, eventInfo,
                       interestedSubscribers>>
        /\ \A u \in Sessions : sessionState'[u] = "valid" => sessionState[u] = "valid"
      BY <1>7 DEF InvalidateConnection, DestroySession, TypeOK, PubTypeOK
  <2>2. \A c \in Storages : Queued(c)' = Queued(c)
      BY <2>1, Zenon DEF Queued
  <2>3. \A s \in Subscriptions : Now(s)' = Now(s)
      BY <2>1, Zenon DEF Now
  <2>4. \A s \in Subscriptions : Subscribed(s)' /\ CanSend(s)' => Subscribed(s) /\ CanSend(s)
      BY <2>1, SubscriptionsAssumption DEF Subscribed, CanSend
  <2>. QED BY <1>1, <1>5, <2>1, <2>2, <2>3, <2>4, StreamKept, Zenon DEF WalkOnce
<1>8. WalkOnce' /\ StreamInv'
    BY <1>6, <1>7 DEF SessionLife
<1>. QED BY <1>1, <1>2, <1>4, <1>8, PublisherKeeps, SMTT(30), ZenonT(30)

\* The publisher takes a batch, or an event of it.
LEMMA BatchInv ==
    ASSUME VectorInv, SwapEventQueue \/ TakeEvent, UNCHANGED <<listVars, vectorVars>>
    PROVE  VectorInv'
<1>. USE DEF VectorInv
<1>1. UNCHANGED <<data, mirror, published, received, snapshotAt, vectorVars, kind>>
    BY DEF listVars, vectorVars
<1>2. PubInv /\ PubNext /\ PubTypeOK
    BY VectorInvPub DEF PubNext, PublisherThread, PubInv
<1>3. PubInv' /\ snapshotPending' = snapshotPending /\ subscribers' = subscribers
      /\ sessionState' = sessionState
    BY <1>2, PubStepInv DEF SwapEventQueue, TakeEvent
<1>4. TypeOK' /\ NoVectorSnapshot'
    BY <1>1, <1>3, Zenon DEF TypeOK, PubInv, NoVectorSnapshot
<1>5. \A c \in Storages : Announced(c) \in Seq(EventInfo) /\ Announced(c)' = Announced(c)
    BY <1>1, <1>2, PublisherKeeps, Zenon
<1>6. CASE SwapEventQueue
  <2>1. WalkOnce'
      BY <1>6, Zenon DEF SwapEventQueue, WalkOnce
  <2>2. \A s \in Subscriptions : Subscribed(s)' /\ CanSend(s)' => Subscribed(s) /\ CanSend(s)
      BY <1>3, Zenon DEF Subscribed, CanSend
  <2>3. StreamInv'
      BY <1>1, <1>2, <1>3, <1>5, <1>6, <2>2, InductionHolds, SwapStreams, StreamKept, SMTT(30), ZenonT(30)
  <2>. QED BY <1>1, <1>2, <1>4, <2>1, <2>3, PublisherKeeps, SMTT(30), ZenonT(30)
<1>7. CASE TakeEvent
  <2>1. PICK h \in EventInfo : h = Head(localEventQueue) /\ h # NoEvent /\ h.storageId \in Storages
    <3>1. localEventQueue \in Seq(EventInfo) /\ localEventQueue # <<>>
        BY <1>2, <1>7 DEF PubTypeOK, TakeEvent
    <3>2. Head(localEventQueue) \in EventInfo
        BY <3>1, SMTT(30), Z3T(30)
    <3>. QED BY <3>2, SMT, Z3 DEF EventInfo, NoEvent, UpdateCodes
  <2>2. WalkOnce'
      BY <1>7, <2>1, Zenon DEF TakeEvent, WalkOnce
  <2>3. StreamInv'
      BY <1>1, <1>2, <1>5, <1>7, InductionHolds, TakeStream, SMTT(30), ZenonT(30)
  <2>. QED BY <1>1, <1>2, <1>4, <2>2, <2>3, PublisherKeeps, SMTT(30), ZenonT(30)
<1>. QED BY <1>6, <1>7

\* The publisher passes over a subscriber.
LEMMA SkipInv ==
    ASSUME VectorInv, NEW t \in Subscriptions, SkipSubscriber(t), UNCHANGED <<listVars, vectorVars>>
    PROVE  VectorInv'
<1>. USE DEF VectorInv
<1>1. UNCHANGED <<data, mirror, published, received, snapshotAt, vectorVars, kind>>
    BY DEF listVars, vectorVars
<1>2. PubInv /\ PubNext
    BY VectorInvPub, Zenon DEF PubNext, PublisherThread
<1>3. PubInv' /\ snapshotPending' = snapshotPending /\ AtSubscriber(t) /\ NextSubscriber
    BY <1>2, PubStepInv DEF SkipSubscriber
<1>4. TypeOK' /\ NoVectorSnapshot'
    BY <1>1, <1>3, Zenon DEF TypeOK, PubInv, NoVectorSnapshot
<1>5. \A c \in Storages : Announced(c) \in Seq(EventInfo) /\ Announced(c)' = Announced(c)
    BY <1>1, <1>2, PublisherKeeps, Zenon
<1>6. WalkOnce'
    BY <1>2, <1>3, InductionHolds, WalkStreams, SMTT(30), ZenonT(30)
<1>7. StreamInv'
    BY <1>2, <1>5, InductionHolds, SkipStream, SMTT(30), ZenonT(30)
<1>. QED BY <1>1, <1>2, <1>4, <1>6, <1>7, PublisherKeeps, SMTT(30), ZenonT(30)

\* It takes one for served, with a snapshot or without.
LEMMA ServedInv ==
    ASSUME VectorInv, NEW t \in Subscriptions,
           ListNoSnapshot(t) \/ (kind = "list" /\ ListSnapshot(t)), UNCHANGED vectorVars
    PROVE  VectorInv'
<1>. USE DEF VectorInv
<1>1. /\ UNCHANGED <<data, published, received, vectorVars, kind>>
      /\ snapshotAt' = [snapshotAt EXCEPT ![t] = Len(published[StorageOf[t]])]
    BY Zenon DEF ListNoSnapshot, ListSnapshot, vectorVars
<1>2. /\ AtSubscriber(t) /\ InSnapshotLoop /\ NextSubscriber
      /\ snapshotPending' = [snapshotPending EXCEPT ![t] = FALSE]
    BY Zenon DEF ListNoSnapshot, ListSnapshot, SubscribeWithoutSnapshot, SendSubscriptionSnapshot
<1>3. PubInv /\ PubNext
    BY VectorInvPub, Zenon DEF PubNext, PublisherThread, ListNoSnapshot, ListSnapshot
<1>4. PubInv'
    BY <1>3, PubStepInv, Zenon
<1>5. StorageOf[t] \in Storages /\ Len(published[StorageOf[t]]) \in Nat
    BY SubscriptionsAssumption, SMTT(30), Z3T(30) DEF TypeOK
<1>6. mirror' \in [Subscriptions -> Seq(Values \cup {Null})]
      /\ \A s \in Subscriptions \ {t} : mirror'[s] = mirror[s]
  <2>1. CASE mirror' = mirror
      BY <2>1, Zenon DEF TypeOK
  <2>2. CASE mirror' # mirror
    <3>1. /\ StartOf[t] # NoSnapshot
          /\ mirror' = [mirror EXCEPT ![t] = mirror[t] \o Query(StorageOf[t], StartOf[t])]
        BY <2>2, Zenon DEF ListNoSnapshot, ListSnapshot, SendSubscriptionSnapshot
    <3>2. StartOf[t] \in CInt
        BY <3>1, ListAssumption
    <3>3. PICK q \in Seq(Values) : q = Query(StorageOf[t], StartOf[t])
        BY <1>5, <3>2, QueryType, SMTT(30), ZenonT(30)
    <3>4. PICK m \in Seq(Values \cup {Null}) : m = mirror[t]
        BY DEF TypeOK
    <3>5. q \in Seq(Values \cup {Null})
        BY <3>3, SMT, Z3
    <3>6. m \o q \in Seq(Values \cup {Null})
        BY <3>4, <3>5
    <3>. QED BY <3>1, <3>3, <3>4, <3>6, SMTT(30), ZenonT(30) DEF TypeOK
  <2>. QED BY <2>1, <2>2, Zenon
<1>7. TypeOK'
    BY <1>1, <1>4, <1>5, <1>6, Zenon DEF TypeOK, PubInv
<1>8. NoVectorSnapshot'
    BY <1>1, <1>2, SMTT(30), ZenonT(30) DEF NoVectorSnapshot, ListNoSnapshot, SubscribeWithoutSnapshot, TypeOK, PubTypeOK
<1>9. \A c \in Storages : /\ Announced(c) \in Seq(EventInfo) /\ Announced(c)' = Announced(c)
                          /\ Len(Announced(c)) <= Len(published[c])
    BY <1>1, <1>3, PublisherKeeps, Zenon
<1>10. WalkOnce'
    BY <1>2, <1>3, InductionHolds, WalkStreams, SMTT(30), ZenonT(30)
<1>11. StreamInv'
    BY <1>1, <1>2, <1>3, <1>6, <1>9, InductionHolds, ServedStream, Zenon
<1>. QED BY <1>1, <1>3, <1>7, <1>8, <1>10, <1>11, PublisherKeeps, SMTT(30), ZenonT(30)

\* What a subscriber that can be reached has on its way are changes with an index.
LEMMA UnderWayType ==
    ASSUME VectorInv, NEW s \in Subscriptions, Subscribed(s), CanSend(s)
    PROVE  Sent(s) \in Seq(ListEvents) /\ received[s] \in Seq(ListEvents) /\ UnderWay(s) \in Seq(ListEvents)
<1>. USE DEF VectorInv
<1>. DEFINE c == StorageOf[s]
<1>1. c \in Storages
    BY SubscriptionsAssumption
<1>2. PICK p \in Seq(EventInfo) : p = published[c]
    BY <1>1 DEF TypeOK
<1>3. \A i \in 1 .. Len(p) : p[i] \in ListEvents
  <2>1. DOMAIN p = 1 .. Len(p)
      BY <1>2, SMT, Z3
  <2>. QED BY <1>1, <1>2, <2>1, ZenonT(30) DEF IndexInv
<1>4. PICK a \in Seq(EventInfo) : a = Announced(c)
    BY <1>1, AnnouncedType
<1>5. \A i \in 1 .. Len(a) : a[i] \in ListEvents
  <2>1. CASE Unpublished(c) = {}
      BY <1>2, <1>3, <1>4, <2>1, SMTT(30), ZenonT(30) DEF Announced
  <2>2. CASE Unpublished(c) # {}
    <3>1. a = SubSeq(p, 1, Len(p) - 1) /\ p # <<>>
        BY <1>2, <1>4, <2>2, Zenon DEF Announced, AllButLast, Unpublished, WriterInv
    <3>2. \A i \in 1 .. Len(a) : i \in 1 .. Len(p) /\ a[i] = p[i]
        BY <3>1, SMTT(30), Z3T(30)
    <3>. QED BY <1>3, <3>2, SMTT(30), ZenonT(30)
  <2>. QED BY <2>1, <2>2, SMTT(30), ZenonT(30)
<1>6. PICK n \in 0 .. Len(a) : Sent(s) = Rest(a, n)
    BY <1>4, Zenon DEF StreamInv, SentFollows
<1>7. PICK x \in Seq(EventInfo) : x = Rest(a, n) /\ \A i \in 1 .. Len(x) : x[i] \in ListEvents
  <2>1. /\ Rest(a, n) \in Seq(EventInfo) /\ Len(Rest(a, n)) = Len(a) - n
        /\ \A i \in 1 .. Len(a) - n : Rest(a, n)[i] = a[n + i]
      BY RestFacts
  <2>2. \A i \in 1 .. Len(a) - n : n + i \in 1 .. Len(a)
      OBVIOUS
  <2>. QED BY <1>5, <2>1, <2>2, SMTT(30), ZenonT(30)
<1>8. PICK r \in Seq(EventInfo) : r = received[s]
    BY InductionHolds, SentType, Zenon
<1>9. PICK u \in Seq(EventInfo) : u = UnderWay(s)
    BY InductionHolds, StreamTypes, SMTT(30), ZenonT(30) DEF TypeOK
<1>10. x = r \o u
    BY <1>6, <1>7, <1>8, <1>9, SMTT(30), ZenonT(30) DEF Sent
<1>11. /\ \A i \in 1 .. Len(r) : i \in 1 .. Len(x) /\ r[i] = x[i]
       /\ \A i \in 1 .. Len(u) : Len(r) + i \in 1 .. Len(x) /\ u[i] = x[Len(r) + i]
    BY <1>10, SMTT(30), Z3T(30)
<1>12. /\ \A i \in 1 .. Len(r) : r[i] \in ListEvents
       /\ \A i \in 1 .. Len(u) : u[i] \in ListEvents
    BY <1>7, <1>11, Zenon
<1>13. ASSUME NEW y \in Seq(EventInfo), \A i \in 1 .. Len(y) : y[i] \in ListEvents
       PROVE  y \in Seq(ListEvents)
  <2>1. Len(y) \in Nat /\ y = [i \in 1 .. Len(y) |-> y[i]]
      OBVIOUS
  <2>2. y \in [1 .. Len(y) -> ListEvents]
      BY <1>13, <2>1, Zenon
  <2>3. \A m \in Nat : \A z \in [1 .. m -> ListEvents] : z \in Seq(ListEvents)
      OBVIOUS
  <2>. QED BY <2>1, <2>2, <2>3, Zenon
<1>. QED BY <1>6, <1>7, <1>8, <1>9, <1>12, <1>13, ZenonT(30)

\* It sends the event.
LEMMA PublishEventInv ==
    ASSUME VectorInv, NEW t \in Subscriptions, ListPublish(t), UNCHANGED vectorVars
    PROVE  VectorInv'
<1>. USE DEF VectorInv
<1>1. UNCHANGED <<data, published, snapshotAt, vectorVars, kind, snapshotPending>>
    BY DEF ListPublish, PublishEvent, vectorVars
<1>2. AtSubscriber(t) /\ NextSubscriber /\ ~InSnapshotLoop
    BY DEF ListPublish, PublishEvent
<1>3. PubInv /\ PubNext
    BY VectorInvPub DEF PubNext, PublisherThread, ListPublish
<1>4. PubInv'
    BY <1>3, PubStepInv, Zenon
<1>5. WalkOnce' /\ Subscribed(t) /\ eventInfo \in EventInfo
    BY <1>2, <1>3, InductionHolds, WalkStreams, SMTT(30), ZenonT(30)
<1>6. CanSend(t) => eventInfo \in ListEvents
  <2>. SUFFICES ASSUME CanSend(t) PROVE eventInfo \in ListEvents
      OBVIOUS
  <2>1. PICK u \in Seq(ListEvents) : u = UnderWay(t)
      BY <1>5, UnderWayType
  <2>2. PICK q \in Seq(EventInfo) : UnderWay(t) = Cat(<<eventInfo>>, q)
      BY <1>2, <1>3, InductionHolds, WalkSent, Zenon
  <2>3. u = <<eventInfo>> \o q
      BY <2>1, <2>2 DEF Cat
  <2>4. u[1] = eventInfo /\ 1 \in 1 .. Len(u)
      BY <1>5, <2>3, SMT, Z3
  <2>. QED BY <2>4, SMT, Z3
<1>7. /\ mirror' \in [Subscriptions -> Seq(Values \cup {Null})]
      /\ received' \in [Subscriptions -> Seq(EventInfo)]
  <2>1. CASE CanSend(t)
    <3>1. Apply(mirror[t], eventInfo) \in Seq(Values \cup {Null})
        BY <1>6, <2>1, ApplyType, Zenon DEF TypeOK
    <3>2. Append(received[t], eventInfo) \in Seq(EventInfo)
        BY <1>5, SMTT(30), Z3T(30) DEF TypeOK
    <3>. QED BY <2>1, <3>1, <3>2, SMTT(30), ZenonT(30) DEF ListPublish, TypeOK
  <2>2. CASE ~CanSend(t)
      BY <2>2 DEF ListPublish, TypeOK
  <2>. QED BY <2>1, <2>2, Zenon
<1>8. TypeOK' /\ NoVectorSnapshot'
    BY <1>1, <1>4, <1>7, Zenon DEF TypeOK, PubInv, NoVectorSnapshot
<1>9. \A c \in Storages : Announced(c) \in Seq(EventInfo) /\ Announced(c)' = Announced(c)
    BY <1>1, <1>3, PublisherKeeps, Zenon
<1>10. StreamInv'
    BY <1>3, <1>9, InductionHolds, PublishStream, SMTT(30), ZenonT(30)
<1>. QED BY <1>1, <1>3, <1>5, <1>8, <1>10, PublisherKeeps, SMTT(30), ZenonT(30)

-----------------------------------------------------------------------------
(* The results. *)

\* A container stays what it is, and the writers of vectors write no list.
LEMMA KindKept ==
    ASSUME [NextVector]_allVars
    PROVE  kind' = kind
<1>1. ASSUME NEW w \in Writers, VectorWriter(w) PROVE kind' = kind
    BY <1>1, ZenonT(30)
    DEF VectorWriter, Publish, ReadSize, Pop, StartPop, VectorClear, VectorPushBack,
        VectorPushFront, VectorSet, InsertOrDelete, ChangeOnly, Change
<1>. QED BY <1>1 DEF NextVector, allVars, vectorVars, QuerySnapshot

LEMMA ListHasNoVectorWriter ==
    ASSUME VectorInv, kind = "list", NEW w \in Writers, VectorWriter(w)
    PROVE  FALSE
<1>1. \A x \in Writers : vpc[x] = "idle"
    BY Zenon DEF VectorInv, WriterInv
<1>. QED
    BY <1>1, SMT, Z3
    DEF VectorWriter, Publish, ReadSize, Pop, StartPop, VectorClear, VectorPushBack,
        VectorPushFront, VectorSet, InsertOrDelete, ChangeOnly, Change

\* Every step preserves the invariant.
LEMMA VectorStep ==
    ASSUME kind = "list" \/ OneWriter, VectorInv, [NextVector]_allVars
    PROVE  VectorInv'
<1>1. CASE kind = "list" /\ ListWriter /\ UNCHANGED vectorVars
  <2>1. PICK c \in Storages : \E contents, code, k, v :
            Tells(c, contents, code, k, v) /\ UpdateRevNumAndPublish(c, contents, code, k, v)
      BY <1>1, ListWriterTells, Zenon DEF VectorInv
  <2>. QED BY <1>1, <2>1, InductionHolds, ListWriteInv, Zenon
<1>2. CASE kind = "list" /\ ListPublisher /\ UNCHANGED vectorVars
    BY <1>2, BatchInv, SkipInv, ServedInv, PublishEventInv, Zenon DEF ListPublisher
<1>3. CASE SessionLife /\ UNCHANGED <<listVars, vectorVars>>
    BY <1>3, SessionInv, Zenon
<1>4. CASE (SwapEventQueue \/ TakeEvent) /\ UNCHANGED <<listVars, vectorVars>>
    BY <1>4, BatchInv, Zenon
<1>5. ASSUME NEW s \in Subscriptions, UNCHANGED vectorVars,
             (SkipSubscriber(s) /\ UNCHANGED listVars) \/ ListNoSnapshot(s) \/ ListPublish(s)
      PROVE  VectorInv'
    BY <1>5, SkipInv, ServedInv, PublishEventInv, Zenon
<1>6. CASE UNCHANGED <<vars, kind, vpc, pending>>
  <2>1. UNCHANGED <<data, published, kind, vpc, pending>>
      BY <1>6, Zenon DEF vars, listVars
  <2>2. WriterInv' /\ \A c \in Storages : Announced(c)' = Announced(c)
      BY <2>1, Zenon DEF VectorInv, WriterInv, Size, Announced, Unpublished
  <2>. QED BY <1>6, <2>2, WriterOnly, Zenon
<1>7. ASSUME NEW w \in Writers, VectorWriter(w) PROVE VectorInv'
  <2>1. OneWriter
      BY <1>7, ListHasNoVectorWriter, Zenon
  <2>. QED
      BY <1>7, <2>1, InductionHolds, PublishInv, ReadSizeInv, PopInv, StartPopInv, ChangeOnlyInv,
         InsertOrDeleteInv, Zenon DEF VectorWriter
<1>8. CASE UNCHANGED allVars
    BY <1>6, <1>8, Zenon DEF allVars, vectorVars
<1>9. CASE \E s \in Subscriptions : QuerySnapshot(s)
    BY <1>6, <1>9, Zenon DEF QuerySnapshot
<1>10. CASE kind = "list" /\ Next /\ UNCHANGED vectorVars
    BY <1>1, <1>2, <1>3, <1>10, Zenon DEF Next
<1>. QED BY <1>3, <1>4, <1>5, <1>7, <1>8, <1>9, <1>10, Zenon DEF NextVector

\* Nothing is announced twice, left out or out of order.
LEMMA InvInOrder == VectorInv => EventsInOrder
<1>. SUFFICES ASSUME VectorInv, NEW s \in Subscriptions, Receiving(s), Unpublished(StorageOf[s]) = {}
              PROVE  AllSent(s)
    BY DEF EventsInOrder
<1>1. Announced(StorageOf[s]) = published[StorageOf[s]]
    BY DEF Announced
<1>2. PICK n \in 0 .. Len(published[StorageOf[s]]) :
          Sent(s) = Rest(published[StorageOf[s]], n) /\ n <= snapshotAt[s]
    BY <1>1, Zenon DEF VectorInv, StreamInv, SentFollows, Receiving
<1>3. snapshotAt[s] \in Nat /\ Len(published[StorageOf[s]]) \in Nat
    BY SubscriptionsAssumption, SMTT(30), Z3T(30) DEF VectorInv, TypeOK
<1>4. n \in 0 .. snapshotAt[s]
    BY <1>2, <1>3, SMT, Z3
<1>. QED BY <1>2, <1>4, Zenon DEF AllSent

\* For any number of lists with any number of writers, and of vectors with one: each
\* change is announced to every subscriber once, in the order of the changes and with the
\* index of the change.  OnAnyContainerEvent is called under the lock of a list, but after
\* that of a vector is gone, hence the hypothesis.
THEOREM ChangesInOrder == OneWriter => (SpecVector => []EventsInOrder)
<1>. SUFFICES ASSUME OneWriter PROVE SpecVector => []EventsInOrder
    OBVIOUS
<1>1. InitVector => VectorInv
    BY InductionHolds, InitVectorInv
<1>2. VectorInv /\ [NextVector]_allVars => VectorInv'
    BY VectorStep
<1>. QED BY <1>1, <1>2, InvInOrder, PTL DEF SpecVector

-----------------------------------------------------------------------------
(* The copies. *)

\* CleanMirror, for one subscriber.
Clean(s) ==
    Receiving(s) /\ StartOf[s] = 0 /\ NoOverlap(s)
    => Replay(mirror[s], UnderWay(s)) = data[StorageOf[s]]

LEMMA MirroringType ==
    /\ Mirroring \in Folder(ListEvents, Seq(Values \cup {Null}))
    /\ \A l \in Seq(Values \cup {Null}), e \in ListEvents : Mirroring[<<l, e>>] = Apply(l, e)
<1>. DEFINE D == Seq(Values \cup {Null}) \X ListEvents
<1>1. ASSUME NEW l \in Seq(Values \cup {Null}), NEW e \in ListEvents
      PROVE  Mirroring[<<l, e>>] = Apply(l, e)
    BY DEF Mirroring
<1>2. \A p \in D : Apply(p[1], p[2]) \in Seq(Values \cup {Null})
    BY ApplyType, Zenon
<1>3. Mirroring \in [D -> Seq(Values \cup {Null})]
    BY <1>2, Zenon DEF Mirroring
<1>. QED BY <1>1, <1>3, Zenon DEF Folder

\* A copy that meets the list after what is on its way still does when the next change of
\* the list is announced to it,
LEMMA ReplayAppend ==
    ASSUME NEW l \in Seq(Values \cup {Null}), NEW q \in Seq(ListEvents), NEW e \in ListEvents
    PROVE  Replay(l, Append(q, e)) = Apply(Replay(l, q), e)
<1>1. PICK f \in Folder(ListEvents, Seq(Values \cup {Null})) : f = Mirroring
    BY MirroringType
<1>2. Fold(f, l, q) \in Seq(Values \cup {Null})
    BY InductionHolds, FoldType, Zenon
<1>3. Fold(f, l, Append(q, e)) = f[<<Fold(f, l, q), e>>]
    BY InductionHolds, FoldAppend, SMT, Z3
<1>. QED BY <1>1, <1>2, <1>3, MirroringType, Zenon DEF Replay

\* and when it gets the first of these.
LEMMA ReplayFirst ==
    ASSUME NEW l \in Seq(Values \cup {Null}), NEW q \in Seq(EventInfo), NEW e \in EventInfo,
           NEW u \in Seq(ListEvents), u = Cat(<<e>>, q)
    PROVE  e \in ListEvents /\ Replay(l, u) = Replay(Apply(l, e), q)
<1>1. u # <<>> /\ Head(u) = e /\ Tail(u) = q /\ e \in ListEvents
  <2>1. PICK one \in Seq(EventInfo) : one = <<e>> /\ Len(one) = 1 /\ one[1] = e
      BY Singleton, Zenon
  <2>2. u = one \o q
      BY <2>1 DEF Cat
  <2>3. Len(u) = Len(q) + 1 /\ u[1] = e /\ \A i \in 1 .. Len(q) : u[i + 1] = q[i]
      BY <2>1, <2>2, SMTT(30), Z3T(30)
  <2>4. u # <<>> /\ Head(u) = e /\ e \in ListEvents /\ e \in EventInfo
      BY <2>3, SMT, Z3
  <2>5. PICK w \in Seq(ListEvents) : w = Tail(u)
      BY <2>4, RangeHeadTail, Zenon
  <2>6. Len(w) = Len(q) /\ \A i \in 1 .. Len(q) : w[i] = q[i]
    <3>1. Len(w) = Len(u) - 1 /\ \A i \in 1 .. Len(u) - 1 : w[i] = u[i + 1]
        BY <2>4, <2>5, TailFacts, SMTT(30), Z3T(30)
    <3>2. Len(u) - 1 = Len(q)
        BY <2>3, SMT, Z3
    <3>. QED BY <2>3, <3>1, <3>2, Zenon
  <2>7. w \in Seq(EventInfo)
      BY <2>5 DEF ListEvents, Updates
  <2>8. w = q
      BY <2>6, <2>7, SameElements, Zenon
  <2>. QED BY <2>4, <2>5, <2>8, Zenon
<1>2. PICK f \in Folder(ListEvents, Seq(Values \cup {Null})) : f = Mirroring
    BY MirroringType, Zenon
<1>3. Fold(f, l, u) = Fold(f, f[<<l, Head(u)>>], Tail(u))
    BY <1>1, InductionHolds, FoldFirst, SMTT(30), Z3T(30)
<1>4. Mirroring[<<l, e>>] = Apply(l, e)
    BY <1>1, MirroringType, Zenon
<1>. QED BY <1>1, <1>2, <1>3, <1>4, Zenon DEF Replay

\* A step that leaves alone what the copy is made of.
LEMMA CleanKept ==
    ASSUME CleanMirror, UNCHANGED <<data, published>>, NEW s \in Subscriptions,
           Receiving(s)' => /\ Receiving(s) /\ UnderWay(s)' = UnderWay(s)
                            /\ received'[s] = received[s] /\ mirror'[s] = mirror[s]
                            /\ snapshotAt'[s] = snapshotAt[s]
    PROVE  Clean(s)'
<1>. SUFFICES ASSUME Receiving(s)', StartOf[s] = 0, NoOverlap(s)'
              PROVE  Replay(mirror'[s], UnderWay(s)') = data'[StorageOf[s]]
    BY Zenon DEF Clean
<1>1. Sent(s)' = Sent(s)
    BY Zenon DEF Sent
<1>2. NoOverlap(s)
    BY <1>1, ZenonT(30) DEF NoOverlap
<1>. QED BY <1>2, Zenon DEF CleanMirror

\* A change of a list.
LEMMA WriteClean ==
    ASSUME VectorInv, VectorInv', CleanMirror, MinInt \notin Indexes, NEW c \in Storages,
           NEW contents, NEW code, NEW k, NEW v, Tells(c, contents, code, k, v),
           UpdateRevNumAndPublish(c, contents, code, k, v), NEW s \in Subscriptions
    PROVE  Clean(s)'
<1>. USE DEF VectorInv
<1>1. PICK e \in ListEvents : e = Event(c, code, k, v) /\ e \in Updates /\ e.storageId = c
    BY TellsEvent, SMTT(30), Z3T(30)
<1>2. /\ OnAnyContainerEvent(e)
      /\ data' = [data EXCEPT ![c] = contents]
      /\ published' = [published EXCEPT ![c] = Append(published[c], e)]
      /\ UNCHANGED <<mirror, received, snapshotAt>>
    BY <1>1 DEF UpdateRevNumAndPublish, Event
<1>. SUFFICES ASSUME Receiving(s)', StartOf[s] = 0, NoOverlap(s)'
              PROVE  Replay(mirror'[s], UnderWay(s)') = data'[StorageOf[s]]
    BY Zenon DEF Clean
<1>3. Receiving(s) /\ Subscribed(s) /\ CanSend(s) /\ StorageOf[s] \in Storages
    BY <1>2, SubscriptionsAssumption, ZenonT(30) DEF Receiving, Subscribed, CanSend, OnAnyContainerEvent
<1>4. IF StorageOf[s] = c
      THEN UnderWay(s)' = Append(UnderWay(s), e) /\ Sent(s)' = Append(Sent(s), e)
      ELSE UnderWay(s)' = UnderWay(s) /\ Sent(s)' = Sent(s)
    BY <1>1, <1>2, <1>3, InductionHolds, EventSent, SMTT(30), ZenonT(30)
<1>5. CASE StorageOf[s] # c
  <2>1. data'[StorageOf[s]] = data[StorageOf[s]] /\ published'[StorageOf[s]] = published[StorageOf[s]]
      BY <1>2, <1>3, <1>5, Zenon DEF TypeOK
  <2>2. NoOverlap(s)
      BY <1>2, <1>4, <1>5, <2>1, Zenon DEF NoOverlap
  <2>. QED BY <1>2, <1>3, <1>4, <1>5, <2>1, <2>2, Zenon DEF CleanMirror
<1>6. CASE StorageOf[s] = c
  <2>1. data'[c] = contents /\ published'[c] = Append(published[c], e)
      BY <1>2 DEF TypeOK
  <2>2. PICK u \in Seq(ListEvents) : u = UnderWay(s)
      BY <1>3, UnderWayType, Zenon
  <2>3. NoOverlap(s)
    <3>1. PICK x \in Seq(ListEvents), p \in Seq(EventInfo) : x = Sent(s) /\ p = published[c]
        BY <1>3, UnderWayType, Zenon DEF TypeOK
    <3>2. Len(Append(x, e)) = Len(Append(p, e)) - snapshotAt[s]
        BY <1>2, <1>4, <1>6, <2>1, <3>1, ZenonT(30) DEF NoOverlap
    <3>3. Len(Append(x, e)) = Len(x) + 1 /\ Len(Append(p, e)) = Len(p) + 1
          /\ Len(x) \in Nat /\ Len(p) \in Nat /\ snapshotAt[s] \in Nat
        BY <1>1, <3>1, SMTT(30), Z3T(30) DEF TypeOK
    <3>4. Len(x) = Len(p) - snapshotAt[s]
        BY <3>2, <3>3, SMTT(30), Z3T(30)
    <3>. QED BY <1>6, <3>1, <3>4, ZenonT(30) DEF NoOverlap
  <2>4. Replay(mirror[s], u) = data[c]
      BY <1>3, <1>6, <2>2, <2>3, Zenon DEF CleanMirror
  <2>5. Replay(mirror[s], Append(u, e)) = Apply(data[c], e)
    <3>1. PICK m \in Seq(Values \cup {Null}) : m = mirror[s]
        BY Zenon DEF TypeOK
    <3>2. Replay(m, Append(u, e)) = Apply(Replay(m, u), e)
        BY ReplayAppend, Zenon
    <3>. QED BY <2>4, <3>1, <3>2, ZenonT(30)
  <2>6. Apply(data[c], e) = contents
      BY <1>1, Zenon DEF Tells
  <2>. QED BY <1>2, <1>4, <1>6, <2>1, <2>2, <2>5, <2>6, Zenon
<1>. QED BY <1>5, <1>6, Zenon

\* Sessions, and the publisher when it takes a batch or an event.
LEMMA QuietClean ==
    ASSUME VectorInv, CleanMirror, UNCHANGED listVars,
           SessionLife \/ SwapEventQueue \/ TakeEvent, NEW s \in Subscriptions
    PROVE  Clean(s)'
<1>. USE DEF VectorInv
<1>1. UNCHANGED <<data, mirror, published, received, snapshotAt>>
    BY DEF listVars
<1>2. PubInv /\ PubTypeOK
    BY VectorInvPub DEF PubInv
<1>. SUFFICES ASSUME Receiving(s)' PROVE Receiving(s) /\ UnderWay(s)' = UnderWay(s)
    BY <1>1, CleanKept, Zenon
<1>3. ASSUME NEW t \in Subscriptions, SessionAsyncSubscribe(t)
      PROVE  Receiving(s) /\ UnderWay(s)' = UnderWay(s)
  <2>1. /\ Queued(StorageOf[s])' = Queued(StorageOf[s]) /\ Now(s)' = Now(s)
        /\ s # t => Subscribed(s)' = Subscribed(s)
        /\ snapshotPending[t]
      BY <1>2, <1>3, InductionHolds, SubscribeStreams, SMTT(30), ZenonT(30)
  <2>2. s # t
      BY <1>3, <2>1, Zenon DEF SessionAsyncSubscribe, Receiving
  <2>. QED BY <1>3, <2>1, <2>2, ZenonT(30) DEF SessionAsyncSubscribe, Receiving, CanSend, UnderWay
<1>4. ASSUME NEW t \in Sessions, InvalidateConnection(t) \/ DestroySession(t)
      PROVE  Receiving(s) /\ UnderWay(s)' = UnderWay(s)
  <2>1. /\ UNCHANGED <<subscribers, snapshotPending, eventQueue, localEventQueue, eventInfo,
                       interestedSubscribers>>
        /\ \A u \in Sessions : sessionState'[u] = "valid" => sessionState[u] = "valid"
      BY <1>2, <1>4, SMTT(30), ZenonT(30) DEF InvalidateConnection, DestroySession, PubTypeOK
  <2>2. Receiving(s)
      BY <2>1, SubscriptionsAssumption, Zenon DEF Receiving, Subscribed, CanSend
  <2>3. UnderWay(s)' = UnderWay(s)
      BY <2>1, Zenon DEF UnderWay, Queued, Now
  <2>. QED BY <2>2, <2>3, Zenon
<1>5. CASE SwapEventQueue
  <2>1. Queued(StorageOf[s])' = Queued(StorageOf[s]) /\ Now(s)' = Now(s)
      BY <1>2, <1>5, InductionHolds, SwapStreams, SMTT(30), ZenonT(30)
  <2>. QED BY <1>5, <2>1, Zenon DEF SwapEventQueue, Receiving, Subscribed, CanSend, UnderWay
<1>6. CASE TakeEvent
  <2>1. Receiving(s)
      BY <1>6, Zenon DEF TakeEvent, Receiving, Subscribed, CanSend
  <2>. QED BY <1>2, <1>6, <2>1, InductionHolds, TakeStreams, SMTT(30), ZenonT(30) DEF Receiving
<1>. QED BY <1>3, <1>4, <1>5, <1>6, SMTT(30), ZenonT(30) DEF SessionLife

\* The publisher at subscriber t, for the others.
LEMMA OthersClean ==
    ASSUME VectorInv, CleanMirror, NEW t \in Subscriptions, AtSubscriber(t), NextSubscriber,
           UNCHANGED <<data, published>>, NEW s \in Subscriptions, s # t,
           snapshotPending'[s] = snapshotPending[s], received'[s] = received[s],
           mirror'[s] = mirror[s], snapshotAt'[s] = snapshotAt[s]
    PROVE  Clean(s)'
<1>1. Queued(StorageOf[s])' = Queued(StorageOf[s]) /\ Now(s)' = Now(s)
    BY InductionHolds, VectorInvPub, WalkStreams, Zenon DEF VectorInv
<1>2. Receiving(s)' => Receiving(s) /\ UnderWay(s)' = UnderWay(s)
    BY <1>1, Zenon DEF Receiving, Subscribed, CanSend, UnderWay, NextSubscriber
<1>. QED BY <1>2, CleanKept, ZenonT(30)

\* The publisher passes over t, or takes it for served without a snapshot.
LEMMA SkipClean ==
    ASSUME VectorInv, CleanMirror, NEW t \in Subscriptions,
           (SkipSubscriber(t) /\ UNCHANGED listVars) \/ ListNoSnapshot(t), NEW s \in Subscriptions
    PROVE  Clean(s)'
<1>. USE DEF VectorInv
<1>1. AtSubscriber(t) /\ NextSubscriber /\ UNCHANGED <<data, mirror, published, received>>
    BY Zenon DEF SkipSubscriber, ListNoSnapshot, SubscribeWithoutSnapshot, listVars
<1>2. CASE s # t
  <2>1. snapshotPending'[s] = snapshotPending[s] /\ snapshotAt'[s] = snapshotAt[s]
      BY <1>2, SMTT(30), ZenonT(30) DEF SkipSubscriber, ListNoSnapshot, SubscribeWithoutSnapshot, listVars, TypeOK, PubTypeOK
  <2>. QED BY <1>1, <1>2, <2>1, OthersClean, SMTT(30), ZenonT(30)
<1>3. CASE s = t /\ ListNoSnapshot(t)
    BY <1>3, ListAssumption, Zenon DEF ListNoSnapshot, SubscribeWithoutSnapshot, Clean
<1>4. CASE s = t /\ SkipSubscriber(t) /\ UNCHANGED listVars
  <2>. SUFFICES ASSUME Receiving(s)' PROVE Receiving(s) /\ UnderWay(s)' = UnderWay(s)
      BY <1>1, <1>4, CleanKept, ZenonT(30) DEF listVars
  <2>1. Receiving(s) /\ ~SessionGone(t)
      BY <1>4 DEF SkipSubscriber, NextSubscriber, Receiving, Subscribed, CanSend, SessionGone
  <2>2. InSnapshotLoop
      BY <1>4, <2>1, Zenon DEF SkipSubscriber, Receiving
  <2>3. UnderWay(s)' = UnderWay(s)
      BY <1>1, <1>4, <2>2, InductionHolds, VectorInvPub, WalkSent, Zenon
  <2>. QED BY <2>1, <2>3, Zenon
<1>. QED BY <1>2, <1>3, <1>4, ZenonT(30)

\* A snapshot of the whole list, with no change of it on its way, is the list.
LEMMA SnapshotClean ==
    ASSUME VectorInv, VectorInv', CleanMirror, NEW t \in Subscriptions, ListSnapshot(t),
           NEW s \in Subscriptions
    PROVE  Clean(s)'
<1>. USE DEF VectorInv
<1>. DEFINE c == StorageOf[t]
<1>1. /\ AtSubscriber(t) /\ InSnapshotLoop /\ NextSubscriber /\ snapshotPending[t]
      /\ snapshotPending' = [snapshotPending EXCEPT ![t] = FALSE]
      /\ UNCHANGED <<data, published, received>>
      /\ snapshotAt' = [snapshotAt EXCEPT ![t] = Len(published[c])]
    BY DEF ListSnapshot, SendSubscriptionSnapshot
<1>2. CASE s # t
  <2>1. snapshotPending'[s] = snapshotPending[s] /\ snapshotAt'[s] = snapshotAt[s]
        /\ mirror'[s] = mirror[s]
      BY <1>1, <1>2, SMTT(30), ZenonT(30) DEF ListSnapshot, TypeOK, PubTypeOK
  <2>. QED BY <1>1, <1>2, <2>1, OthersClean, ZenonT(30)
<1>3. CASE s = t
  <2>. SUFFICES ASSUME Receiving(t)', StartOf[t] = 0, NoOverlap(t)'
                PROVE  Replay(mirror'[t], UnderWay(t)') = data'[c]
      BY <1>3, Zenon DEF Clean
  <2>1. CanSend(t) /\ c \in Storages /\ data[c] \in Seq(Values)
      BY <1>1, SubscriptionsAssumption, ZenonT(30) DEF Receiving, CanSend, NextSubscriber, TypeOK
  <2>2. mirror[t] = <<>> /\ received[t] = <<>>
      BY <1>1, ZenonT(30) DEF StreamInv
  <2>3. mirror'[t] = data[c]
    <3>1. mirror'[t] = mirror[t] \o Query(c, 0)
        BY <2>1, ZenonT(30) DEF ListSnapshot, TypeOK
    <3>2. Query(c, 0) = data[c]
        BY <2>1, QueryAll, Zenon
    <3>3. \A x \in Seq(Values) : <<>> \o x = x
        BY SMT, Z3
    <3>. QED BY <2>1, <2>2, <3>1, <3>2, <3>3, Zenon
  <2>4. UnderWay(t)' = <<>>
    <3>1. PICK u \in Seq(EventInfo) : u = UnderWay(t)' /\ Sent(t)' = Cat(<<>>, u)
        BY <1>1, <2>2, InductionHolds, VectorInvPub, WalkSent, Zenon
    <3>2. Sent(t)' = u
        BY <3>1, CatLaws, SMTT(30), ZenonT(30)
    <3>3. snapshotAt'[t] = Len(published'[c]) /\ Len(published'[c]) \in Nat
        BY <1>1, <2>1, SMTT(30), ZenonT(30) DEF TypeOK
    <3>4. Len(u) = Len(published'[c]) - snapshotAt'[t]
        BY <3>2, ZenonT(30) DEF NoOverlap
    <3>5. Len(u) = 0
        BY <3>3, <3>4, SMTT(30), Z3T(30)
    <3>. QED BY <3>1, <3>5, NoElements, SMTT(30), ZenonT(30)
  <2>5. Replay(data[c], <<>>) = data[c]
      BY InductionHolds, FoldEmpty DEF Replay
  <2>. QED BY <1>1, <2>3, <2>4, <2>5, Zenon
<1>. QED BY <1>2, <1>3, Zenon

\* What moves from the changes on their way to those sent is not counted twice.
LEMMA SentOne ==
    ASSUME NEW S, NEW r \in Seq(S), NEW q \in Seq(S), NEW e \in S
    PROVE  Len(Cat(Append(r, e), q)) = Len(Cat(r, Cat(<<e>>, q)))
<1>1. PICK one \in Seq(S) : one = <<e>> /\ Len(one) = 1
    BY Singleton, Zenon
<1>2. Append(r, e) \in Seq(S) /\ Len(Append(r, e)) = Len(r) + 1
    OBVIOUS
<1>3. \A x, y \in Seq(S) : Cat(x, y) \in Seq(S) /\ Len(Cat(x, y)) = Len(x) + Len(y)
    BY DEF Cat
<1>4. Len(Cat(Append(r, e), q)) = (Len(r) + 1) + Len(q)
    BY <1>2, <1>3, Zenon
<1>5. Len(Cat(r, Cat(one, q))) = Len(r) + (1 + Len(q))
  <2>1. PICK u \in Seq(S) : u = Cat(one, q) /\ Len(u) = Len(one) + Len(q)
      BY <1>1, <1>3, Zenon
  <2>2. Len(Cat(r, u)) = Len(r) + Len(u)
      BY <1>3, <2>1, Zenon
  <2>. QED BY <1>1, <2>1, <2>2, Zenon
<1>6. \A x, y \in Nat : (x + 1) + y = x + (1 + y)
    OBVIOUS
<1>7. Len(r) \in Nat /\ Len(q) \in Nat
    OBVIOUS
<1>. QED BY <1>1, <1>4, <1>5, <1>6, <1>7, Zenon

\* The publisher sends t the first of the changes on their way.
LEMMA PublishClean ==
    ASSUME VectorInv, CleanMirror, NEW t \in Subscriptions, ListPublish(t), NEW s \in Subscriptions
    PROVE  Clean(s)'
<1>. USE DEF VectorInv
<1>. DEFINE c == StorageOf[t]
<1>1. /\ AtSubscriber(t) /\ ~InSnapshotLoop /\ NextSubscriber /\ snapshotPending' = snapshotPending
      /\ UNCHANGED <<data, published, snapshotAt>>
    BY Zenon DEF ListPublish, PublishEvent
<1>2. CASE s # t
  <2>1. mirror'[s] = mirror[s] /\ received'[s] = received[s]
      BY <1>2 DEF ListPublish, TypeOK
  <2>. QED BY <1>1, <1>2, <2>1, OthersClean, SMTT(30), ZenonT(30)
<1>3. CASE s = t
  <2>. SUFFICES ASSUME Receiving(t)', StartOf[t] = 0, NoOverlap(t)'
                PROVE  Replay(mirror'[t], UnderWay(t)') = data'[c]
      BY <1>3, Zenon DEF Clean
  <2>1. CanSend(t) /\ Receiving(t) /\ Subscribed(t)
      BY <1>1, Zenon DEF Receiving, CanSend, NextSubscriber, Subscribed
  <2>2. PICK q \in Seq(EventInfo), r \in Seq(EventInfo) :
            /\ r = received[t]
            /\ UnderWay(t) = Cat(<<eventInfo>>, q)
            /\ Sent(t) = Cat(r, UnderWay(t))
            /\ UnderWay(t)' = q
            /\ Sent(t)' = Cat(received'[t], q)
      BY <1>1, InductionHolds, VectorInvPub, WalkSent, Zenon
  <2>3. eventInfo \in EventInfo
      BY <1>1, InductionHolds, VectorInvPub, WalkStreams, Zenon
  <2>4. /\ received'[t] = Append(r, eventInfo)
        /\ mirror'[t] = Apply(mirror[t], eventInfo)
      BY <2>1, <2>2, SMTT(30), ZenonT(30) DEF ListPublish, TypeOK
  <2>5. NoOverlap(t)
    <3>1. Len(Cat(Append(r, eventInfo), q)) = Len(Cat(r, Cat(<<eventInfo>>, q)))
        BY <2>2, <2>3, SentOne, ZenonT(30)
    <3>2. Len(Sent(t)') = Len(Sent(t))
        BY <2>2, <2>4, <3>1, Zenon
    <3>. QED BY <1>1, <3>2, Zenon DEF NoOverlap
  <2>6. Replay(mirror[t], UnderWay(t)) = data[c]
      BY <2>1, <2>5, Zenon DEF CleanMirror
  <2>7. Replay(mirror[t], UnderWay(t)) = Replay(Apply(mirror[t], eventInfo), q)
    <3>1. PICK u \in Seq(ListEvents) : u = UnderWay(t)
        BY <2>1, UnderWayType, ZenonT(30)
    <3>2. PICK m \in Seq(Values \cup {Null}) : m = mirror[t]
        BY DEF TypeOK
    <3>3. u = Cat(<<eventInfo>>, q)
        BY <2>2, <3>1, Zenon
    <3>4. Replay(m, u) = Replay(Apply(m, eventInfo), q)
        BY <2>2, <2>3, <3>1, <3>2, <3>3, ReplayFirst, ZenonT(30)
    <3>. QED BY <3>1, <3>2, <3>4, ZenonT(30)
  <2>. QED BY <1>1, <2>2, <2>4, <2>6, <2>7, Zenon
<1>. QED BY <1>2, <1>3, Zenon

\* Every step leaves the copies of a list clean.
LEMMA CleanStep ==
    ASSUME kind = "list", MinInt \notin Indexes, VectorInv, CleanMirror, [NextVector]_allVars
    PROVE  CleanMirror'
<1>1. VectorInv'
    BY VectorStep
<1>2. (Next /\ UNCHANGED vectorVars) \/ UNCHANGED allVars
    BY ListHasNoVectorWriter, Zenon DEF NextVector, QuerySnapshot
<1>3. ASSUME NEW s \in Subscriptions PROVE Clean(s)'
  <2>1. CASE ListWriter
    <3>1. PICK c \in Storages : \E contents, code, k, v :
              Tells(c, contents, code, k, v) /\ UpdateRevNumAndPublish(c, contents, code, k, v)
        BY <2>1, ListWriterTells, Zenon DEF VectorInv
    <3>. QED BY <1>1, <3>1, WriteClean, Zenon
  <2>2. CASE ListPublisher
      BY <1>1, <2>2, QuietClean, SkipClean, SnapshotClean, PublishClean, Zenon DEF ListPublisher
  <2>3. CASE SessionLife /\ UNCHANGED listVars
      BY <2>3, QuietClean, Zenon
  <2>4. CASE UNCHANGED allVars
    <3>1. UNCHANGED <<pubVars, data, mirror, published, received, snapshotAt>>
        BY <2>4, ZenonT(30) DEF allVars, vars, listVars
    <3>2. Receiving(s)' => Receiving(s) /\ UnderWay(s)' = UnderWay(s)
        BY <3>1 DEF pubVars, Receiving, Subscribed, CanSend, UnderWay, Queued, Now
    <3>. QED BY <3>1, <3>2, CleanKept, Zenon
  <2>. QED BY <1>2, <2>1, <2>2, <2>3, <2>4, ZenonT(30) DEF Next
<1>. QED BY <1>3, Zenon DEF Clean, CleanMirror

\* A subscriber of a vector that wants a snapshot never gets anything.
LEMMA VectorSnapshotStep ==
    ASSUME kind = "vector", snapshotPending \in [Subscriptions -> BOOLEAN], NoVectorSnapshot,
           [NextVector]_allVars
    PROVE  snapshotPending' \in [Subscriptions -> BOOLEAN] /\ NoVectorSnapshot'
<1>1. kind' = kind
    BY KindKept
<1>2. CASE UNCHANGED snapshotPending
    BY <1>1, <1>2, ZenonT(30) DEF NoVectorSnapshot
<1>3. CASE SessionLife
    BY <1>2, <1>3, Zenon
    DEF SessionLife, SessionAsyncSubscribe, InvalidateConnection, DestroySession
<1>4. CASE SwapEventQueue \/ TakeEvent
    BY <1>2, <1>4, Zenon DEF SwapEventQueue, TakeEvent
<1>5. ASSUME NEW s \in Subscriptions, SkipSubscriber(s) \/ ListNoSnapshot(s) \/ ListPublish(s)
      PROVE  snapshotPending' \in [Subscriptions -> BOOLEAN] /\ NoVectorSnapshot'
  <2>1. CASE ListNoSnapshot(s)
      BY <1>1, <2>1, Zenon DEF ListNoSnapshot, SubscribeWithoutSnapshot, NoVectorSnapshot
  <2>2. CASE SkipSubscriber(s) \/ ListPublish(s)
      BY <1>2, <2>2, SMTT(30), ZenonT(30) DEF SkipSubscriber, ListPublish, PublishEvent
  <2>. QED BY <1>5, <2>1, <2>2, SMTT(30), ZenonT(30)
<1>6. CASE UNCHANGED vars
    BY <1>2, <1>6, SMTT(30), ZenonT(30) DEF vars, pubVars
<1>7. ASSUME NEW w \in Writers, VectorWriter(w) PROVE UNCHANGED snapshotPending
    BY <1>7, ZenonT(30)
    DEF VectorWriter, Publish, OnAnyContainerEvent, ReadSize, Pop, StartPop, VectorClear,
        VectorPushBack, VectorPushFront, VectorSet, InsertOrDelete, ChangeOnly, Change, vars, pubVars
<1>. QED
    BY <1>2, <1>3, <1>4, <1>5, <1>6, <1>7, ZenonT(30) DEF NextVector, QuerySnapshot, allVars

\* For any number of lists, writers, subscribers and values, and every index but the least
\* integer, whose absolute value overflows in NormalizeIndex: a subscriber whose snapshot
\* was taken with no change of the list waiting behind it has, at every moment, the list
\* once it has applied what is on its way.  No snapshot of a vector is ever sent.
THEOREM CopiesReconstruct == MinInt \notin Indexes => (SpecVector => []CleanMirror)
<1>. SUFFICES ASSUME MinInt \notin Indexes PROVE SpecVector => []CleanMirror
    OBVIOUS
<1>. DEFINE ListInv == kind = "list" /\ VectorInv /\ CleanMirror
            WaitInv == /\ kind = "vector" /\ NoVectorSnapshot
                       /\ snapshotPending \in [Subscriptions -> BOOLEAN]
<1>1. InitVector => ListInv \/ WaitInv
  <2>1. InitVector => VectorInv
      BY InductionHolds, InitVectorInv
  <2>2. InitVector => CleanMirror
      BY Zenon DEF InitVector, Init, PubInit, CleanMirror, Receiving
  <2>3. VectorInv => NoVectorSnapshot /\ kind \in {"list", "vector"}
      BY VectorAssumption, SMTT(30), ZenonT(30) DEF VectorInv, WriterInv
  <2>4. VectorInv => snapshotPending \in [Subscriptions -> BOOLEAN]
      BY DEF VectorInv, TypeOK, PubTypeOK
  <2>. QED BY <2>1, <2>2, <2>3, <2>4, Zenon
<1>2. ListInv /\ [NextVector]_allVars => ListInv'
    BY KindKept, VectorStep, CleanStep, SMTT(30), ZenonT(30)
<1>3. WaitInv /\ [NextVector]_allVars => WaitInv'
    BY KindKept, VectorSnapshotStep, Zenon
<1>4. WaitInv => CleanMirror
    BY ListAssumption DEF NoVectorSnapshot, CleanMirror, Receiving
<1>. QED BY <1>1, <1>2, <1>3, <1>4, PTL DEF SpecVector
==============================================================================
