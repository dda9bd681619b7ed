--------------------------- MODULE BinarySendProofs ---------------------------
(***************************************************************************)
(* For any threads, calls, sizes of messages and size of the send buffer,  *)
(* with or without write errors: a session has one write under way at      *)
(* most, and one that is sent no snapshot is an Outbox that takes no more  *)
(* off pendingSendSize_ than it added.  SendInv is inductive, under it     *)
(* every step of BinarySend is a step of the Outbox or none, and SizeInv   *)
(* is inductive with it.                                                   *)
(***************************************************************************)
EXTENDS BinarySend, FiniteSetTheorems, TLAPS

-----------------------------------------------------------------------------
(* One write at a time. *)

PcType == pc \in [Threads -> Pcs]

\* Nothing is under way at first.
LEMMA InitWrite == Init => PcType /\ WriteInv
    BY CallsAssumption DEF Init, PcType, Pcs, WriteInv, OneWriteAtATime

\* A thread is always somewhere in the session's code.
LEMMA PcStep == PcType /\ [Next]_vars => PcType'
<1>. SUFFICES ASSUME PcType, [Next]_vars PROVE PcType'
    BY Zenon
<1>. USE DEF PcType, Pcs, Goto
<1>1. ASSUME NEW t \in Threads, Step(t) PROVE PcType'
    BY <1>1, Zenon DEF Step, SendBinaryMessage, PushMessage, SendBinaryMessages, ReadTail, LinkTail,
                Flush, InvalidateConnection, Invalidate, UnsubscribeAll, Return
<1>2. CASE OnBinaryMessageSent
    BY <1>2, CallsAssumption DEF OnBinaryMessageSent
<1>3. CASE OnWriteError
    BY <1>3, CallsAssumption, Zenon DEF OnWriteError, Invalidate
<1>4. CASE Completion
    BY <1>4, CallsAssumption DEF Completion, DecreasePendingSendSize, ClearInProgress, Resume
<1>5. CASE UNCHANGED vars
    BY <1>5 DEF vars
<1>. QED BY <1>1, <1>2, <1>3, <1>4, <1>5 DEF Next, Finished

\* Whoever calls SendPendingBinaryData, it starts a write only if none is in progress.
LEMMA PendingStarts ==
    ASSUME NEW q, SendPendingBinaryData(q), OneWriteAtATime
    PROVE  OneWriteAtATime' /\ (binarySendInProgress => UNCHANGED <<binarySendInProgress, inFlight>>)
    BY DEF SendPendingBinaryData, OneWriteAtATime

\* One write at a time, action by action.
LEMMA WriteStep == PcType /\ WriteInv /\ [Next]_vars => WriteInv'
<1>. SUFFICES ASSUME PcType, WriteInv, [Next]_vars PROVE WriteInv'
    OBVIOUS
<1>. USE DEF PcType, Pcs, WriteInv, Goto
<1>1. ASSUME NEW t \in Threads, Step(t) PROVE WriteInv'
  <2>1. pc'[Strand] \in {"decrease", "sendNext"} => pc'[Strand] = pc[Strand]
      BY <1>1, CallsAssumption, Zenon
      DEF Step, SendBinaryMessage, PushMessage, SendBinaryMessages, ReadTail, LinkTail,
          Flush, InvalidateConnection, Invalidate, UnsubscribeAll, Return
  <2>2. \/ UNCHANGED <<binarySendInProgress, inFlight>>
        \/ \E q : SendPendingBinaryData(q)
      BY <1>1
      DEF Step, SendBinaryMessage, PushMessage, SendBinaryMessages, ReadTail, LinkTail,
          Flush, InvalidateConnection, UnsubscribeAll, queueVars
  <2>3. CASE UNCHANGED <<binarySendInProgress, inFlight>>
      BY <2>1, <2>3 DEF OneWriteAtATime
  <2>4. CASE \E q : SendPendingBinaryData(q)
      BY <2>1, <2>4, PendingStarts
  <2>. QED BY <2>2, <2>3, <2>4
<1>2. CASE OnBinaryMessageSent
    BY <1>2, CallsAssumption DEF OnBinaryMessageSent, OneWriteAtATime
<1>3. CASE OnWriteError
    BY <1>3, CallsAssumption DEF OnWriteError, Invalidate, OneWriteAtATime
<1>4. CASE Completion
  <2>1. CASE DecreasePendingSendSize
      BY <2>1, CallsAssumption DEF DecreasePendingSendSize, OneWriteAtATime
  <2>2. CASE ClearInProgress
      BY <2>2, CallsAssumption DEF ClearInProgress, OneWriteAtATime
  <2>3. CASE Resume
      BY <2>3, CallsAssumption, PendingStarts DEF Resume
  <2>. QED BY <1>4, <2>1, <2>2, <2>3 DEF Completion
<1>5. CASE UNCHANGED vars
    BY <1>5 DEF vars, queueVars, OneWriteAtATime
<1>. QED BY <1>1, <1>2, <1>3, <1>4, <1>5 DEF Next, Finished

\* Whatever the threads call and whether or not writes fail, async_write is never called
\* while another one of the session is under way.
THEOREM NoSecondWrite == Spec => []OneWriteAtATime
<1>1. PcType /\ WriteInv /\ [Next]_vars => (PcType /\ WriteInv)'
    BY PcStep, WriteStep
<1>2. WriteInv => OneWriteAtATime
    BY DEF WriteInv
<1>. QED BY InitWrite, <1>1, <1>2, PTL DEF Spec

-----------------------------------------------------------------------------
(* The queue. *)

SendTypes ==
    /\ todo \in [Threads -> Seq(Call)]
    /\ DOMAIN read = Threads
    /\ valid \in BOOLEAN
    /\ pendingBinarySendData \in Seq(Messages)
    /\ writing \in Seq(Messages)
    /\ sent \in Seq(Messages)
    /\ accepted \in Seq(Messages)

\* The send buffer takes a prefix of the queue.
LEMMA FitBounds ==
    ASSUME NEW q \in Seq(Messages)
    PROVE  Fit(q) \in 0 .. Len(q)
<1>. DEFINE S == {n \in DOMAIN q : TotalSize(SubSeq(q, 1, n)) <= SendBufferSize}
<1>1. S \in SUBSET (1 .. Len(q)) /\ Len(q) \in Nat
    OBVIOUS
<1>2. IsFiniteSet(1 .. Len(q)) /\ Cardinality(1 .. Len(q)) = Len(q)
  <2>1. PICK len \in Nat : len = Len(q)
      BY <1>1, Zenon
  <2>2. 1 \in Int /\ len \in Int
      OBVIOUS
  <2>3. IsFiniteSet(1 .. len) /\ Cardinality(1 .. len) = IF 1 > len THEN 0 ELSE len - 1 + 1
      BY <2>2, FS_Interval, Zenon
  <2>4. Cardinality(1 .. len) = len
      BY <2>3
  <2>. QED BY <2>1, <2>3, <2>4, Zenon
<1>3. Cardinality(S) \in Nat /\ Cardinality(S) <= Len(q)
    BY <1>1, <1>2, FS_Subset, FS_CardinalityType
<1>. QED BY <1>1, <1>3 DEF Fit

\* A prefix and what is left make the queue.
LEMMA SplitSeq ==
    ASSUME NEW q \in Seq(Messages), NEW n \in 0 .. Len(q)
    PROVE  /\ SubSeq(q, 1, n) \in Seq(Messages)
           /\ SubSeq(q, n + 1, Len(q)) \in Seq(Messages)
           /\ SubSeq(q, 1, n) \o SubSeq(q, n + 1, Len(q)) = q
           /\ Len(SubSeq(q, 1, n)) = n
<1>1. Len(q) \in Nat /\ n \in 1 - 1 .. Len(q) /\ 1 \in 1 .. Len(q) + 1 /\ Len(q) \in n .. Len(q)
    OBVIOUS
<1>2. (\A i \in 1 .. n : q[i] \in Messages) /\ (\A i \in n + 1 .. Len(q) : q[i] \in Messages)
    BY <1>1
<1>3. SubSeq(q, 1, n) \in Seq(Messages) /\ Len(SubSeq(q, 1, n)) = n
    BY <1>1, <1>2
<1>4. SubSeq(q, n + 1, Len(q)) \in Seq(Messages)
    BY <1>1, <1>2
<1>5. SubSeq(q, 1, n) \o SubSeq(q, n + 1, Len(q)) = q
  <2>1. \A u, w \in Seq(Messages) : Len(u) = Len(w) /\ (\A i \in 1 .. Len(u) : u[i] = w[i]) => u = w
      OBVIOUS
  <2>2. PICK u \in Seq(Messages), w \in Seq(Messages) :
            u = SubSeq(q, 1, n) /\ w = SubSeq(q, n + 1, Len(q))
      BY <1>3, <1>4, Zenon
  <2>3. /\ Len(u) = n /\ \A i \in 1 .. n : u[i] = q[i]
        /\ Len(w) = Len(q) - n /\ \A i \in 1 .. Len(q) - n : w[i] = q[n + i]
      BY <1>1, <2>2
  <2>4. \A x, y \in Seq(Messages) : x \o y \in Seq(Messages)
      OBVIOUS
  <2>5. PICK r \in Seq(Messages) : r = u \o w
      BY <2>2, <2>4, Zenon
  <2>6. u \in Seq(Messages) /\ w \in Seq(Messages) /\ r \in Seq(Messages) /\ r = u \o w
      BY <2>2, <2>5, Zenon
  <2>7. /\ Len(r) = Len(u) + Len(w)
        /\ \A i \in 1 .. Len(u) : r[i] = u[i]
        /\ \A i \in Len(u) + 1 .. Len(u) + Len(w) : r[i] = w[i - Len(u)]
      BY <2>6
  <2>8. Len(r) = Len(q) /\ \A i \in 1 .. n : r[i] = q[i]
      BY <1>1, <2>3, <2>7
  <2>9. \A i \in n + 1 .. Len(q) : r[i] = q[i]
      BY <1>1, <2>3, <2>7, SMTT(30), Z3T(30)
  <2>10. \A i \in 1 .. Len(r) : r[i] = q[i]
      BY <1>1, <2>8, <2>9
  <2>. QED BY <2>1, <2>2, <2>5, <2>8, <2>10, Zenon
<1>. QED BY <1>5, <1>3, <1>4, Zenon

\* Concatenation is associative.
LEMMA Associative ==
    ASSUME NEW r \in Seq(Messages), NEW q \in Seq(Messages), NEW u \in Seq(Messages)
    PROVE  (r \o q) \o u = r \o (q \o u)
    BY SMTT(30), Z3T(30)

\* What is appended to a concatenation is appended to its second part.
LEMMA AppendToConcat ==
    ASSUME NEW r \in Seq(Messages), NEW q \in Seq(Messages), NEW m \in Messages
    PROVE  Append(r \o q, m) = r \o Append(q, m)
<1>1. PICK last \in Seq(Messages) : last = <<m>>
  <2>1. <<m>> = Append(<<>>, m) /\ <<>> \in Seq(Messages)
      OBVIOUS
  <2>2. \A u \in Seq(Messages) : Append(u, m) \in Seq(Messages)
      OBVIOUS
  <2>. QED BY <2>1, <2>2, Zenon
<1>2. r \o q \in Seq(Messages)
    OBVIOUS
<1>3. \A u \in Seq(Messages) : Append(u, m) = u \o last
  <2>1. \A u \in Seq(Messages) : Append(u, m) = u \o <<m>>
      OBVIOUS
  <2>. QED BY <1>1, <2>1, Zenon
<1>4. (r \o q) \o last = r \o (q \o last)
    BY Associative, Zenon
<1>5. Append(r \o q, m) = (r \o q) \o last /\ Append(q, m) = q \o last
    BY <1>2, <1>3, Zenon
<1>. QED BY <1>4, <1>5, Zenon

\* A concatenation begins with its first part.
LEMMA PrefixOfConcat ==
    ASSUME NEW r \in Seq(Messages), NEW q \in Seq(Messages)
    PROVE  /\ r \o q \in Seq(Messages)
           /\ Len(r \o q) = Len(r) + Len(q)
           /\ SubSeq(r \o q, 1, Len(r)) = r
<1>1. r \o q \in Seq(Messages) /\ Len(r \o q) = Len(r) + Len(q)
    OBVIOUS
<1>2. CASE r = <<>>
    BY <1>2
<1>3. CASE r # <<>>
  <2>1. 1 \in 1 .. Len(r) /\ Len(r) \in 1 .. Len(r)
      BY <1>3
  <2>2. SubSeq(r \o q, 1, Len(r)) = SubSeq(r, 1, Len(r))
      BY <2>1
  <2>. QED BY <1>1, <2>2
<1>. QED BY <1>1, <1>2, <1>3

\* Concatenation as a symbol of its own, of which the provers know what CatLaws says.
Cat(r, q) == r \o q

LEMMA CatLaws ==
    /\ \A r, q \in Seq(Messages) :
          /\ Cat(r, q) \in Seq(Messages)
          /\ Len(Cat(r, q)) = Len(r) + Len(q)
          /\ SubSeq(Cat(r, q), 1, Len(r)) = r
          /\ \A u \in Seq(Messages) : Cat(Cat(r, q), u) = Cat(r, Cat(q, u))
    /\ \A r \in Seq(Messages) : Cat(r, <<>>) = r /\ Cat(<<>>, r) = r
<1>1. ASSUME NEW r \in Seq(Messages), NEW q \in Seq(Messages)
      PROVE  /\ Cat(r, q) \in Seq(Messages)
             /\ Len(Cat(r, q)) = Len(r) + Len(q)
             /\ SubSeq(Cat(r, q), 1, Len(r)) = r
    BY PrefixOfConcat DEF Cat
<1>2. ASSUME NEW r \in Seq(Messages), NEW q \in Seq(Messages), NEW u \in Seq(Messages)
      PROVE  Cat(Cat(r, q), u) = Cat(r, Cat(q, u))
    BY Associative, Zenon DEF Cat
<1>3. ASSUME NEW r \in Seq(Messages) PROVE Cat(r, <<>>) = r /\ Cat(<<>>, r) = r
    BY DEF Cat
<1>. QED BY <1>1, <1>2, <1>3, Zenon

LEMMA CatAppend ==
    ASSUME NEW r \in Seq(Messages), NEW q \in Seq(Messages), NEW m \in Messages
    PROVE  Append(Cat(r, q), m) = Cat(r, Append(q, m))
    BY AppendToConcat, Zenon DEF Cat

\* A prefix and what is left of a queue, in these terms.
LEMMA CatSplit ==
    ASSUME NEW q \in Seq(Messages), NEW n \in 0 .. Len(q)
    PROVE  /\ SubSeq(q, 1, n) \in Seq(Messages)
           /\ SubSeq(q, n + 1, Len(q)) \in Seq(Messages)
           /\ Cat(SubSeq(q, 1, n), SubSeq(q, n + 1, Len(q))) = q
    BY SplitSeq, Zenon DEF Cat

\* SendPendingBinaryData moves messages from the queue to the send buffer and loses none.
LEMMA PendingMoves ==
    ASSUME NEW q \in Seq(Messages), SendPendingBinaryData(q),
           writing \in Seq(Messages), OneWriteAtATime, writing # <<>> => inFlight
    PROVE  /\ writing' \in Seq(Messages)
           /\ pendingBinarySendData' \in Seq(Messages)
           /\ Cat(writing', pendingBinarySendData') = Cat(writing, q)
           /\ writing' # <<>> => inFlight'
           /\ ~valid => pendingBinarySendData' = q
<1>1. CASE ~binarySendInProgress /\ valid /\ q # <<>>
  <2>1. /\ writing' = SubSeq(q, 1, Fit(q))
        /\ pendingBinarySendData' = SubSeq(q, Fit(q) + 1, Len(q))
        /\ inFlight'
      BY <1>1 DEF SendPendingBinaryData
  <2>2. writing = <<>>
      BY <1>1 DEF OneWriteAtATime
  <2>3. Cat(writing, q) = q
      BY <2>2, CatLaws
  <2>4. PICK n \in 0 .. Len(q) : n = Fit(q)
      BY FitBounds
  <2>. QED BY <1>1, <2>1, <2>3, <2>4, CatSplit
<1>2. CASE ~(~binarySendInProgress /\ valid /\ q # <<>>)
    BY <1>2 DEF SendPendingBinaryData
<1>. QED BY <1>1, <1>2

\* A push of a thread that saw the queue as it is puts the message at its end.
LEMMA PushAtEnd ==
    ASSUME pendingBinarySendData \in Seq(Messages), NEW m
    PROVE  PushBack(pendingBinarySendData, m) = {Append(pendingBinarySendData, m)}
<1>. DEFINE q == pendingBinarySendData
<1>1. CASE q = <<>>
    BY <1>1 DEF PushBack
<1>2. CASE q # <<>>
  <2>1. Len(q) \in DOMAIN q /\ q[Len(q)] = LastOf(q)
      BY <1>2 DEF LastOf
  <2>. QED BY <1>2, <2>1 DEF PushBack
<1>. QED BY <1>1, <1>2

\* What a call to SendBinaryMessage carries.
LEMMA MessageOfCall ==
    ASSUME SendTypes, NEW t \in Threads, Calling(t, "message")
    PROVE  Head(todo[t])[2] \in Messages
<1>1. todo[t] \in Seq(Call) /\ todo[t] # <<>>
    BY DEF SendTypes, Calling
<1>2. PICK c \in Call : c = Head(todo[t])
    BY <1>1
<1>3. c[1] = "message"
    BY <1>2 DEF Calling
<1>4. c \in {"message"} \X Messages
    BY <1>3 DEF Call
<1>. QED BY <1>2, <1>4

-----------------------------------------------------------------------------
(* A session that is sent no snapshot. *)

SendInv == PcType /\ WriteInv /\ SendTypes /\ NoSnapshots /\ QueueInv

\* Nothing is queued at first.
LEMMA InitSend == Init /\ NoSnapshots => SendInv
<1>. SUFFICES ASSUME Init, NoSnapshots PROVE SendInv
    OBVIOUS
<1>1. PICK x \in Scenarios : todo = x.calls
    BY DEF Init
<1>2. todo \in [Threads -> Seq(Call)]
    BY <1>1, CallsAssumption
<1>3. SendTypes
    BY <1>2, SMT, Z3 DEF Init, SendTypes
<1>4. (sent \o writing) \o <<>> = accepted /\ <<>> \in Seq(Messages)
    BY SMT, Z3 DEF Init
<1>5. Conserved
    BY <1>4, Zenon DEF Init, Conserved
<1>6. LockInv
    BY CallsAssumption DEF Init, LockInv
<1>7. QueueInv
    BY <1>5, <1>6 DEF QueueInv, Init
<1>. QED BY <1>3, <1>7, InitWrite DEF SendInv

\* A thread that returns, or goes on with a call, has no snapshot to send.
LEMMA ReturnStep ==
    ASSUME PcType, SendTypes, NoSnapshots, NEW t \in Threads, todo[t] # <<>>, Return(t)
    PROVE  /\ NoSnapshots' /\ todo' \in [Threads -> Seq(Call)]
           /\ pc' = [pc EXCEPT ![t] = "idle"]
           /\ \A u \in Threads \ {t} : pc'[u] = pc[u] /\ todo'[u] = todo[u]
<1>1. todo[t] \in Seq(Call)
    BY DEF SendTypes
<1>2. \A i \in DOMAIN Tail(todo[t]) : i + 1 \in DOMAIN todo[t] /\ Tail(todo[t])[i] = todo[t][i + 1]
    BY <1>1
<1>3. todo'[t] = Tail(todo[t]) /\ \A u \in Threads \ {t} : todo'[u] = todo[u]
    BY DEF Return, SendTypes
<1>4. pc'[t] = "idle" /\ \A u \in Threads \ {t} : pc'[u] = pc[u]
    BY DEF Return, Goto, PcType
<1>5. ASSUME NEW u \in Threads
      PROVE  /\ \A i \in DOMAIN todo'[u] : todo'[u][i][1] # "messages"
             /\ pc'[u] \notin {"readTail", "linkTail", "flush"}
  <2>1. CASE u = t
    <3>1. \A i \in DOMAIN Tail(todo[t]) : Tail(todo[t])[i][1] # "messages"
        BY <1>2, Zenon DEF NoSnapshots
    <3>2. \A i \in DOMAIN todo'[u] : todo'[u][i][1] # "messages"
        BY <1>3, <2>1, <3>1, Zenon
    <3>. QED BY <1>4, <2>1, <3>2
  <2>2. CASE u # t
      BY <1>3, <1>4, <2>2, SMT, Z3 DEF NoSnapshots
  <2>. QED BY <2>1, <2>2
<1>6. Tail(todo[t]) \in Seq(Call)
    BY <1>1
<1>. QED BY <1>3, <1>4, <1>5, <1>6 DEF NoSnapshots, Return, Goto, SendTypes

LEMMA GotoStep ==
    ASSUME PcType, SendTypes, NoSnapshots, NEW t \in Threads,
           NEW p \in {"push", "unsubscribe", "abort", "decrease", "sendNext", "resume", "idle"},
           Goto(t, p), UNCHANGED todo
    PROVE  /\ NoSnapshots' /\ pc'[t] = p
           /\ \A u \in Threads \ {t} : pc'[u] = pc[u]
    BY DEF PcType, NoSnapshots, Goto

-----------------------------------------------------------------------------
(* Every step is a step of the Outbox. *)

OutboxStep == [Box!Next]_(Box!vars)
Good == NoSnapshots' /\ SendTypes' /\ QueueInv' /\ OutboxStep

contents == <<valid, pendingBinarySendData, writing, sent, accepted, inFlight>>

\* Conserved, in terms of Cat.
Conserves(rest) ==
    /\ accepted = Cat(Cat(sent, writing), rest)
    /\ pendingBinarySendData = IF valid THEN rest ELSE <<>>

LEMMA ConservedByCat ==
    /\ Conserved <=> \E rest \in Seq(Messages) : Conserves(rest)
    /\ Conserved' <=> \E rest \in Seq(Messages) : Conserves(rest)'
    BY DEF Conserved, Conserves, Cat

\* A step that leaves the messages alone.
LEMMA SameContents ==
    ASSUME SendInv, UNCHANGED contents
    PROVE  OutboxStep /\ Conserved' /\ (writing # <<>> => inFlight)'
    BY Zenon DEF SendInv, QueueInv, Conserved, contents, OutboxStep, Box!vars

\* What was sent is the beginning of what was accepted.
LEMMA SentIsPrefix ==
    ASSUME SendInv
    PROVE  sent = SubSeq(accepted, 1, Len(sent)) /\ Len(sent) \in Len(sent) .. Len(accepted)
<1>. USE DEF SendInv
<1>1. PICK rest \in Seq(Messages) : Conserves(rest)
    BY ConservedByCat DEF QueueInv
<1>2. PICK left \in Seq(Messages) : left = Cat(writing, rest)
    BY CatLaws DEF SendTypes
<1>3. accepted = Cat(sent, left)
    BY <1>1, <1>2, CatLaws, SMT, Z3 DEF SendTypes, Conserves
<1>4. sent \in Seq(Messages) /\ Len(sent) \in Nat /\ Len(left) \in Nat
    BY DEF SendTypes
<1>5. SubSeq(accepted, 1, Len(sent)) = sent /\ Len(accepted) = Len(sent) + Len(left)
    BY <1>3, <1>4, CatLaws, Zenon
<1>. QED BY <1>4, <1>5

\* SendBinaryMessage: a thread takes writeLock and looks at the queue.
LEMMA SendBinaryMessageStep ==
    ASSUME SendInv, NEW t \in Threads, SendBinaryMessage(t) PROVE Good
<1>. USE DEF SendInv
<1>1. UNCHANGED contents
    BY DEF SendBinaryMessage, contents, queueVars
<1>2. CASE valid
  <2>1. /\ writeLock = NoOne /\ writeLock' = t /\ Calling(t, "message")
        /\ ReadQueue(t) /\ Goto(t, "push") /\ UNCHANGED todo
      BY <1>2 DEF SendBinaryMessage
  <2>2. NoSnapshots' /\ pc'[t] = "push" /\ \A u \in Threads \ {t} : pc'[u] = pc[u]
      BY <2>1, GotoStep
  <2>3. read'[t].list = pendingBinarySendData /\ DOMAIN read' = Threads
      BY <2>1 DEF ReadQueue, SendTypes
  <2>4. SendTypes'
      BY <1>1, <2>1, <2>3 DEF SendTypes, contents
  <2>5. \A u \in Threads : pc[u] \notin {"push", "unsubscribe", "abort"}
      BY <2>1, CallsAssumption DEF QueueInv, LockInv
  <2>6. LockInv'
      BY <1>1, <1>2, <2>1, <2>2, <2>3, <2>5 DEF LockInv, contents, Calling
  <2>. QED BY <1>1, <2>2, <2>4, <2>6, SameContents DEF Good, QueueInv
<1>3. CASE ~valid
  <2>1. Calling(t, "message") /\ Return(t) /\ UNCHANGED <<writeLock, read>> /\ pc[t] = "idle"
      BY <1>3 DEF SendBinaryMessage
  <2>2. todo[t] # <<>>
      BY <2>1 DEF Calling
  <2>3. /\ NoSnapshots' /\ todo' \in [Threads -> Seq(Call)] /\ pc'[t] = "idle"
        /\ \A u \in Threads \ {t} : pc'[u] = pc[u] /\ todo'[u] = todo[u]
      BY <2>1, <2>2, ReturnStep DEF PcType
  <2>4. SendTypes'
      BY <1>1, <2>1, <2>3 DEF SendTypes, contents
  <2>5. LockInv'
      BY <1>1, <1>3, <2>1, <2>3 DEF QueueInv, LockInv, contents
  <2>. QED BY <1>1, <2>3, <2>4, <2>5, SameContents DEF Good, QueueInv
<1>. QED BY <1>2, <1>3 DEF SendTypes

\* PushMessage: the message is the last of the queue, and of what the Outbox accepted.
LEMMA PushMessageStep ==
    ASSUME SendInv, NEW t \in Threads, PushMessage(t) PROVE Good
<1>. USE DEF SendInv
<1>1. valid /\ Calling(t, "message") /\ read[t].list = pendingBinarySendData /\ writeLock = t
    BY DEF PushMessage, QueueInv, LockInv
<1>2. todo[t] # <<>> /\ \E m \in Messages : m = Head(todo[t])[2]
    BY <1>1, MessageOfCall DEF Calling
<1>. PICK m \in Messages : m = Head(todo[t])[2]
    BY <1>2
<1>3. PICK q \in Seq(Messages) : q = Append(pendingBinarySendData, m)
  <2>1. \A u \in Seq(Messages) : Append(u, m) \in Seq(Messages)
      OBVIOUS
  <2>. QED BY <2>1, Zenon DEF SendTypes
<1>4. SendPendingBinaryData(q)
  <2>1. PushBack(read[t].list, m) = {q}
      BY <1>1, <1>3, PushAtEnd DEF SendTypes
  <2>. QED BY <2>1 DEF PushMessage
<1>5. /\ accepted' = Append(accepted, m) /\ writeLock' = NoOne /\ Return(t)
      /\ UNCHANGED <<valid, sent, read>>
    BY DEF PushMessage
<1>6. /\ NoSnapshots' /\ todo' \in [Threads -> Seq(Call)] /\ pc'[t] = "idle"
      /\ \A u \in Threads \ {t} : pc'[u] = pc[u] /\ todo'[u] = todo[u]
    BY <1>2, <1>5, ReturnStep DEF PcType
<1>7. /\ writing' \in Seq(Messages) /\ pendingBinarySendData' \in Seq(Messages)
      /\ Cat(writing', pendingBinarySendData') = Cat(writing, q)
      /\ writing' # <<>> => inFlight'
    BY <1>3, <1>4, PendingMoves, Zenon DEF SendTypes, WriteInv, QueueInv
<1>8. SendTypes'
    BY <1>2, <1>5, <1>6, <1>7, SMT, Z3 DEF SendTypes
<1>9. LockInv'
    BY <1>1, <1>5, <1>6, CallsAssumption, Zenon DEF QueueInv, LockInv
<1>10. Conserved'
  <2>1. accepted = Cat(Cat(sent, writing), pendingBinarySendData)
      BY <1>1, ConservedByCat DEF QueueInv, Conserves
  <2>2. accepted' = Cat(Cat(sent, writing), q)
    <3>1. PICK all \in Seq(Messages) : all = Cat(sent, writing)
        BY CatLaws DEF SendTypes
    <3>2. pendingBinarySendData \in Seq(Messages) /\ all \in Seq(Messages) /\ m \in Messages
        BY DEF SendTypes
    <3>3. Append(Cat(all, pendingBinarySendData), m) = Cat(all, Append(pendingBinarySendData, m))
        BY <3>2, CatAppend, Zenon
    <3>. QED BY <1>3, <1>5, <2>1, <3>1, <3>3
  <2>3. accepted' = Cat(Cat(sent, writing'), pendingBinarySendData')
      BY <1>7, <2>2, CatLaws, SMT, Z3 DEF SendTypes
  <2>. QED BY <1>1, <1>5, <1>7, <2>3, ConservedByCat, Zenon DEF Conserves
<1>11. OutboxStep
    BY <1>1, <1>2, <1>5 DEF OutboxStep, Box!Next, Box!Accept
<1>. QED BY <1>6, <1>7, <1>8, <1>9, <1>10, <1>11, Zenon DEF Good, QueueInv

\* Resume: after a write, what waits in the queue goes on its way.
LEMMA ResumeStep ==
    ASSUME SendInv, Resume PROVE Good
<1>. USE DEF SendInv
<1>1. /\ Goto(Strand, "idle") /\ UNCHANGED <<todo, writeLock, valid, sent, read, accepted>>
      /\ pc[Strand] = "resume" /\ writeLock = NoOne /\ SendPendingBinaryData(pendingBinarySendData)
    BY DEF Resume
<1>2. NoSnapshots' /\ pc'[Strand] = "idle" /\ \A u \in Threads \ {Strand} : pc'[u] = pc[u]
    BY <1>1, GotoStep, CallsAssumption
<1>3. /\ writing' \in Seq(Messages) /\ pendingBinarySendData' \in Seq(Messages)
      /\ Cat(writing', pendingBinarySendData') = Cat(writing, pendingBinarySendData)
      /\ writing' # <<>> => inFlight'
      /\ ~valid => pendingBinarySendData' = pendingBinarySendData
    BY <1>1, PendingMoves DEF SendTypes, WriteInv, QueueInv
<1>4. SendTypes'
    BY <1>1, <1>3, Zenon DEF SendTypes
<1>5. LockInv'
    BY <1>1, <1>2, CallsAssumption DEF QueueInv, LockInv
<1>6. Conserved'
  <2>1. CASE valid
    <3>1. accepted = Cat(Cat(sent, writing), pendingBinarySendData)
        BY <2>1, ConservedByCat DEF QueueInv, Conserves
    <3>2. accepted = Cat(Cat(sent, writing'), pendingBinarySendData')
        BY <1>3, <3>1, CatLaws, SMT, Z3 DEF SendTypes
    <3>. QED BY <1>1, <1>3, <2>1, <3>2, ConservedByCat DEF Conserves
  <2>2. CASE ~valid
    <3>1. UNCHANGED <<writing, pendingBinarySendData>>
        BY <1>1, <2>2 DEF SendPendingBinaryData
    <3>. QED BY <1>1, <2>2, <3>1, Zenon DEF QueueInv, Conserved
  <2>. QED BY <2>1, <2>2
<1>7. OutboxStep
    BY <1>1 DEF OutboxStep, Box!vars
<1>. QED BY <1>2, <1>3, <1>4, <1>5, <1>6, <1>7 DEF Good, QueueInv

\* DecreasePendingSendSize and the reset of binarySendInProgress_ leave the messages alone.
LEMMA CompletionStep ==
    ASSUME SendInv, DecreasePendingSendSize \/ ClearInProgress PROVE Good
<1>. USE DEF SendInv
<1>1. UNCHANGED <<contents, todo, writeLock, read>>
    BY DEF DecreasePendingSendSize, ClearInProgress, contents, lockVars
<1>2. /\ pc[Strand] \in {"decrease", "sendNext"}
      /\ \E p \in {"sendNext", "resume"} : Goto(Strand, p)
    BY DEF DecreasePendingSendSize, ClearInProgress
<1>3. /\ NoSnapshots' /\ pc'[Strand] \in {"sendNext", "resume"}
      /\ \A u \in Threads \ {Strand} : pc'[u] = pc[u]
    BY <1>1, <1>2, GotoStep, CallsAssumption
<1>4. SendTypes'
    BY <1>1 DEF SendTypes, contents
<1>5. LockInv'
    BY <1>1, <1>2, <1>3 DEF QueueInv, LockInv, contents, Calling
<1>. QED BY <1>1, <1>3, <1>4, <1>5, SameContents, Zenon DEF Good, QueueInv

\* OnBinaryMessageSent: what was written is what comes next of the accepted messages.
LEMMA MessageSentStep ==
    ASSUME SendInv, OnBinaryMessageSent PROVE Good
<1>. USE DEF SendInv
<1>1. /\ Goto(Strand, "decrease") /\ pc[Strand] = "idle" /\ sent' = sent \o writing /\ writing' = <<>>
      /\ UNCHANGED <<todo, writeLock, valid, pendingBinarySendData, accepted>>
    BY DEF OnBinaryMessageSent
<1>2. NoSnapshots' /\ pc'[Strand] = "decrease" /\ \A u \in Threads \ {Strand} : pc'[u] = pc[u]
    BY <1>1, GotoStep, CallsAssumption
<1>3. DOMAIN read' = Threads /\ \A u \in Threads \ {Strand} : read'[u] = read[u]
    BY DEF OnBinaryMessageSent, SendTypes
<1>4. PICK all \in Seq(Messages) : all = Cat(sent, writing) /\ sent' = all
    BY <1>1, CatLaws, Zenon DEF SendTypes, Cat
<1>5. SendTypes'
    BY <1>1, <1>3, <1>4, SMTT(30), Z3T(30) DEF SendTypes
<1>6. LockInv'
    BY <1>1, <1>2, <1>3, SMT, Z3 DEF QueueInv, LockInv, Calling
<1>7. PICK rest \in Seq(Messages) :
            accepted = Cat(all, rest) /\ pendingBinarySendData = IF valid THEN rest ELSE <<>>
    BY <1>4, ConservedByCat DEF QueueInv, Conserves
<1>8. Conserved'
  <2>1. Cat(all, <<>>) = all
      BY CatLaws
  <2>. QED BY <1>1, <1>4, <1>7, <2>1, ConservedByCat DEF Conserves
<1>9. OutboxStep
  <2>1. sent' = SubSeq(accepted, 1, Len(all)) /\ Len(accepted) = Len(all) + Len(rest)
      BY <1>4, <1>7, CatLaws, Zenon
  <2>2. Len(all) = Len(sent) + Len(writing)
      BY <1>4, CatLaws DEF SendTypes
  <2>3. CASE writing = <<>>
    <3>1. sent' = sent
        BY <1>4, <2>3, CatLaws DEF SendTypes
    <3>. QED BY <1>1, <3>1 DEF OutboxStep, Box!vars
  <2>4. CASE writing # <<>>
    <3>1. Len(writing) \in Nat \ {0} /\ Len(sent) \in Nat /\ Len(rest) \in Nat
        BY <2>4 DEF SendTypes
    <3>2. Len(all) \in Len(sent) + 1 .. Len(accepted) /\ Len(sent) < Len(accepted)
        BY <2>1, <2>2, <3>1
    <3>. QED BY <1>1, <2>1, <3>2 DEF OutboxStep, Box!Next, Box!Deliver
  <2>. QED BY <2>3, <2>4
<1>. QED BY <1>1, <1>2, <1>5, <1>6, <1>8, <1>9 DEF Good, QueueInv

\* InvalidateConnection: the Outbox closes; what was queued is not sent.
LEMMA InvalidateStep ==
    ASSUME SendInv, NEW t \in Threads, InvalidateConnection(t) PROVE Good
<1>. USE DEF SendInv
<1>1. /\ pc[t] = "idle" /\ Calling(t, "invalidate") /\ writeLock = NoOne
      /\ UNCHANGED <<inFlight, writing, sent, read, accepted>>
    BY DEF InvalidateConnection
<1>2. todo[t] # <<>>
    BY <1>1, Zenon DEF Calling
<1>3. CASE valid
  <2>1. /\ valid' = FALSE /\ writeLock' = t /\ pendingBinarySendData' = <<>>
        /\ Goto(t, "unsubscribe") /\ UNCHANGED todo
      BY <1>3 DEF InvalidateConnection, Invalidate
  <2>2. NoSnapshots' /\ pc'[t] = "unsubscribe" /\ \A u \in Threads \ {t} : pc'[u] = pc[u]
      BY <2>1, GotoStep
  <2>3. SendTypes'
    <3>1. <<>> \in Seq(Messages)
        OBVIOUS
    <3>. QED BY <1>1, <2>1, <3>1, Zenon DEF SendTypes
  <2>4. \A u \in Threads : pc[u] \notin {"push", "unsubscribe", "abort"}
      BY <1>1, CallsAssumption, Zenon DEF QueueInv, LockInv
  <2>5. LockInv'
      BY <1>2, <2>1, <2>2, <2>4 DEF LockInv
  <2>6. Conserved'
      BY <1>1, <2>1, Zenon DEF QueueInv, Conserved
  <2>7. OutboxStep
    <3>1. sent' = SubSeq(accepted, 1, Len(sent)) /\ Len(sent) \in Len(sent) .. Len(accepted)
        BY <1>1, SentIsPrefix
    <3>. QED BY <1>1, <1>3, <2>1, <3>1 DEF OutboxStep, Box!Next, Box!Close
  <2>. QED BY <1>1, <2>2, <2>3, <2>5, <2>6, <2>7 DEF Good, QueueInv
<1>4. CASE ~valid
  <2>1. Return(t) /\ UNCHANGED <<writeLock, contents>>
      BY <1>1, <1>4, Zenon DEF InvalidateConnection, contents
  <2>2. /\ NoSnapshots' /\ todo' \in [Threads -> Seq(Call)] /\ pc'[t] = "idle"
        /\ \A u \in Threads \ {t} : pc'[u] = pc[u] /\ todo'[u] = todo[u]
      BY <1>2, <2>1, ReturnStep, Zenon DEF PcType
  <2>3. SendTypes'
      BY <1>1, <2>1, <2>2, Zenon DEF SendTypes, contents
  <2>4. LockInv'
      BY <1>1, <1>4, <2>1, <2>2, Zenon DEF QueueInv, LockInv, contents
  <2>. QED BY <2>1, <2>2, <2>3, <2>4, SameContents, Zenon DEF Good, QueueInv
<1>. QED BY <1>3, <1>4

\* UnsubscribeAll: writeLock is free again.
LEMMA UnsubscribeStep ==
    ASSUME SendInv, NEW t \in Threads, UnsubscribeAll(t) PROVE Good
<1>. USE DEF SendInv
<1>1. /\ UNCHANGED <<contents, read>> /\ writeLock' = NoOne /\ writeLock = t
      /\ pc[t] \in {"unsubscribe", "abort"}
    BY Zenon DEF UnsubscribeAll, contents, queueVars, QueueInv, LockInv
<1>2. /\ NoSnapshots' /\ todo' \in [Threads -> Seq(Call)] /\ pc'[t] = "idle"
      /\ \A u \in Threads \ {t} : pc'[u] = pc[u] /\ todo'[u] = todo[u]
  <2>1. CASE pc[t] = "unsubscribe"
    <3>1. Return(t) /\ todo[t] # <<>>
        BY <2>1, Zenon DEF UnsubscribeAll, QueueInv, LockInv
    <3>. QED BY <3>1, ReturnStep DEF PcType
  <2>2. CASE pc[t] = "abort"
    <3>1. Goto(t, "idle") /\ UNCHANGED todo
        BY <2>2, Zenon DEF UnsubscribeAll
    <3>. QED BY <3>1, GotoStep DEF SendTypes
  <2>. QED BY <1>1, <2>1, <2>2, Zenon
<1>3. SendTypes'
    BY <1>1, <1>2 DEF SendTypes, contents
<1>4. LockInv'
    BY <1>1, <1>2, CallsAssumption, Zenon DEF QueueInv, LockInv
<1>. QED BY <1>1, <1>2, <1>3, <1>4, SameContents, Zenon DEF Good, QueueInv

\* OnBinaryMessageSent with an error: the Outbox delivers what the socket took, and closes.
LEMMA WriteErrorStep ==
    ASSUME SendInv, OnWriteError PROVE Good
<1>. USE DEF SendInv
<1>1. /\ pc[Strand] = "idle" /\ writeLock = NoOne /\ writing' = <<>>
      /\ UNCHANGED <<todo, read, accepted>>
    BY DEF OnWriteError
<1>2. PICK took \in Seq(Messages), lost \in Seq(Messages) :
            sent' = Cat(sent, took) /\ Cat(took, lost) = writing
  <2>1. PICK n \in 0 .. Len(writing) : sent' = Cat(sent, SubSeq(writing, 1, n))
      BY DEF OnWriteError, Cat
  <2>2. PICK a, b : a = SubSeq(writing, 1, n) /\ b = SubSeq(writing, n + 1, Len(writing))
      BY Zenon
  <2>3. writing \in Seq(Messages)
      BY DEF SendTypes
  <2>4. a \in Seq(Messages) /\ b \in Seq(Messages) /\ Cat(a, b) = writing
      BY <2>1, <2>2, <2>3, CatSplit, Zenon
  <2>. QED BY <2>1, <2>2, <2>4, Zenon
<1>3. sent \in Seq(Messages) /\ Len(sent) \in Nat
    BY DEF SendTypes
<1>4. PICK rest \in Seq(Messages) : Conserves(rest)
    BY ConservedByCat DEF QueueInv
<1>5. PICK all \in Seq(Messages), left \in Seq(Messages) :
            /\ all = Cat(sent, took) /\ left = Cat(lost, rest)
            /\ Len(all) = Len(sent) + Len(took)
    BY <1>3, CatLaws
<1>6. /\ sent' = all /\ all = SubSeq(accepted, 1, Len(all))
      /\ Len(all) \in Len(sent) .. Len(accepted) /\ accepted = Cat(all, left)
  <2>1. sent' = all
      BY <1>2, <1>5
  <2>2. accepted = Cat(all, left)
    <3>1. Cat(sent, writing) = Cat(all, lost)
        BY <1>2, <1>3, <1>5, CatLaws, SMT, Z3
    <3>2. accepted = Cat(Cat(all, lost), rest)
        BY <1>4, <3>1, Zenon DEF Conserves
    <3>3. Cat(Cat(all, lost), rest) = Cat(all, Cat(lost, rest))
        BY CatLaws, SMT, Z3
    <3>. QED BY <1>5, <3>2, <3>3, Zenon
  <2>3. all = SubSeq(accepted, 1, Len(all)) /\ Len(accepted) = Len(all) + Len(left)
      BY <2>2, CatLaws, Zenon
  <2>4. Len(left) \in Nat /\ Len(took) \in Nat
      OBVIOUS
  <2>. QED BY <1>3, <1>5, <2>1, <2>2, <2>3, <2>4, SMT, Z3
<1>7. /\ valid' = FALSE /\ pendingBinarySendData' = <<>>
      /\ IF valid THEN writeLock' = Strand /\ Goto(Strand, "abort") ELSE UNCHANGED <<writeLock, pc>>
    BY <1>4 DEF OnWriteError, Invalidate, SendTypes, Conserves
<1>8. SendTypes'
  <2>1. <<>> \in Seq(Messages)
      OBVIOUS
  <2>. QED BY <1>1, <1>6, <1>7, <2>1, Zenon DEF SendTypes
<1>9. Conserved'
  <2>1. Cat(all, <<>>) = all
      BY CatLaws
  <2>. QED BY <1>1, <1>6, <1>7, <2>1, ConservedByCat DEF Conserves
<1>10. \A u \in Threads : pc[u] \notin {"push", "unsubscribe", "abort"}
    BY <1>1, CallsAssumption DEF QueueInv, LockInv
<1>11. NoSnapshots' /\ LockInv' /\ OutboxStep
  <2>1. CASE valid
    <3>1. NoSnapshots' /\ pc'[Strand] = "abort" /\ \A u \in Threads \ {Strand} : pc'[u] = pc[u]
        BY <1>1, <1>7, <2>1, GotoStep, CallsAssumption, Zenon
    <3>2. LockInv'
        BY <1>7, <1>10, <2>1, <3>1 DEF LockInv
    <3>3. OutboxStep
        BY <1>1, <1>6, <1>7, <2>1, Zenon DEF OutboxStep, Box!Next, Box!Close
    <3>. QED BY <3>1, <3>2, <3>3, Zenon
  <2>2. CASE ~valid
    <3>1. NoSnapshots' /\ LockInv'
        BY <1>1, <1>7, <1>10, <2>2 DEF NoSnapshots, LockInv, QueueInv
    <3>2. CASE took = <<>>
      <4>1. sent' = sent
          BY <1>2, <1>3, <3>2, CatLaws
      <4>. QED BY <1>1, <1>7, <2>2, <3>1, <4>1, Zenon DEF OutboxStep, Box!vars, SendTypes
    <3>3. CASE took # <<>>
      <4>1. Len(all) \in Len(sent) + 1 .. Len(accepted) /\ Len(sent) < Len(accepted)
          BY <1>3, <1>5, <1>6, <3>3 DEF SendTypes
      <4>. QED BY <1>1, <1>6, <1>7, <2>2, <3>1, <4>1, Zenon
               DEF OutboxStep, Box!Next, Box!Deliver, SendTypes
    <3>. QED BY <3>2, <3>3, Zenon
  <2>. QED BY <2>1, <2>2 DEF SendTypes
<1>. QED BY <1>1, <1>8, <1>9, <1>11 DEF Good, QueueInv

\* No step of a snapshot is possible.
LEMMA NoSnapshotStep ==
    ASSUME SendInv, NEW t \in Threads
    PROVE  ~SendBinaryMessages(t) /\ ~ReadTail(t) /\ ~LinkTail(t) /\ ~Flush(t)
<1>1. ~SendBinaryMessages(t)
  <2>1. SUFFICES ASSUME Calling(t, "messages") PROVE FALSE
      BY DEF SendBinaryMessages
  <2>2. todo[t] \in Seq(Call) /\ todo[t] # <<>>
      BY <2>1 DEF Calling, SendInv, SendTypes
  <2>3. 1 \in DOMAIN todo[t] /\ Head(todo[t]) = todo[t][1]
      BY <2>2, SMTT(30), Z3T(30)
  <2>. QED BY <2>1, <2>3, Zenon DEF Calling, SendInv, NoSnapshots
<1>2. ~ReadTail(t) /\ ~LinkTail(t) /\ ~Flush(t)
    BY DEF ReadTail, LinkTail, Flush, SendInv, NoSnapshots
<1>. QED BY <1>1, <1>2

\* All of it.
LEMMA SendStep == SendInv /\ [Next]_vars => SendInv' /\ OutboxStep
<1>. SUFFICES ASSUME SendInv, [Next]_vars PROVE SendInv' /\ OutboxStep
    OBVIOUS
<1>1. PcType' /\ WriteInv'
    BY PcStep, WriteStep DEF SendInv
<1>2. Good
  <2>1. ASSUME NEW t \in Threads, Step(t) PROVE Good
      BY <2>1, NoSnapshotStep, SendBinaryMessageStep, PushMessageStep, InvalidateStep, UnsubscribeStep, Zenon
      DEF Step
  <2>2. CASE UNCHANGED vars
    <3>1. UNCHANGED <<contents, todo, pc, read, writeLock>>
        BY <2>2, Zenon DEF vars, lockVars, queueVars, contents
    <3>2. NoSnapshots' /\ SendTypes' /\ LockInv'
        BY <3>1 DEF SendInv, NoSnapshots, SendTypes, QueueInv, LockInv, Calling, contents
    <3>. QED BY <3>1, <3>2, SameContents DEF Good, QueueInv
  <2>. QED BY <2>1, <2>2, MessageSentStep, WriteErrorStep, CompletionStep, ResumeStep, Zenon
          DEF Next, Completion, Finished
<1>. QED BY <1>1, <1>2 DEF Good, SendInv

\* A session that is sent messages only, no snapshot, is an Outbox, whatever threads send
\* and whichever writes fail: each message is sent once, in the order in which it was
\* queued, and none is missing before one that was sent.
THEOREM MessagesInOrder ==
    Init /\ NoSnapshots /\ [][Next]_vars => Box!Init /\ [][Box!Next]_(Box!vars)
<1>1. Init => Box!Init
    BY DEF Init, Box!Init
<1>2. SendInv /\ [Next]_vars => SendInv' /\ [Box!Next]_(Box!vars)
    BY SendStep DEF OutboxStep
<1>. QED BY <1>1, <1>2, InitSend, PTL

-----------------------------------------------------------------------------
(* The sizes of messages add up. *)

\* A set that has 0, and with a number its successor, has every natural number: of those
\* it had not there would be a smallest one.
LEMMA Induction ==
    ASSUME NEW I, 0 \in I, \A n \in Nat : n \in I => n + 1 \in I
    PROVE  Nat \subseteq I
<1>. DEFINE Out == Nat \ I
<1>. DEFINE R == {p \in Nat \X Nat : p[1] < p[2]}
<1>. SUFFICES ASSUME Out # {} PROVE FALSE
    OBVIOUS
<1>1. IsWellFoundedOn(R, Nat)
    BY NatLessThanWellFounded DEF OpToRel
<1>2. PICK m \in Out : \A k \in Out : ~ (<<k, m>> \in R)
  <2>1. Out \subseteq Nat
      OBVIOUS
  <2>. HIDE DEF Out, R
  <2>. QED BY <1>1, <2>1, WFMin, Zenon
<1>3. m \in Nat /\ m # 0
    OBVIOUS
<1>4. m - 1 \in Nat /\ m - 1 + 1 = m /\ <<m - 1, m>> \in R
    BY <1>3
<1>. QED BY <1>2, <1>3, <1>4

\* r goes through the sizes of the prefixes of q.
IsSizes(r, q) == r[0] = 0 /\ \A n \in 1 .. Len(q) : r[n] = r[n - 1] + SizeOf[q[n]]

\* They exist.
LEMMA SizesExist ==
    ASSUME NEW q \in Seq(Messages)
    PROVE  \E r \in [0 .. Len(q) -> Nat] : IsSizes(r, q)
<1>. DEFINE Sizes(r, n) == r[0] = 0 /\ \A i \in 1 .. n : r[i] = r[i - 1] + SizeOf[q[i]]
<1>. DEFINE P(n) == n <= Len(q) => \E r \in [0 .. n -> Nat] : Sizes(r, n)
<1>. DEFINE I == {n \in Nat : P(n)}
<1>1. 0 \in I
  <2>1. PICK r \in [0 .. 0 -> Nat] : r = [i \in 0 .. 0 |-> 0]
      BY Zenon
  <2>2. r[0] = 0 /\ 1 .. 0 = {}
      BY <2>1
  <2>3. P(0)
      BY <2>2, Zenon
  <2>. QED BY <2>3
<1>2. ASSUME NEW n \in Nat, n \in I PROVE n + 1 \in I
  <2>. n + 1 \in Nat
      OBVIOUS
  <2>. SUFFICES ASSUME n + 1 <= Len(q) PROVE \E r \in [0 .. n + 1 -> Nat] : Sizes(r, n + 1)
      BY Zenon
  <2>1. PICK r \in [0 .. n -> Nat] : Sizes(r, n)
      BY <1>2, SMT, Z3
  <2>2. q[n + 1] \in Messages
      OBVIOUS
  <2>3. PICK size \in Nat : size = r[n] + SizeOf[q[n + 1]]
    <3>1. r[n] \in Nat /\ SizeOf[q[n + 1]] \in Nat
        BY <2>2, CallsAssumption, SMT, Z3
    <3>. QED BY <3>1
  <2>. DEFINE g == [i \in 0 .. n + 1 |-> IF i <= n THEN r[i] ELSE size]
  <2>4. g \in [0 .. n + 1 -> Nat]
    <3>1. ASSUME NEW i \in 0 .. n + 1 PROVE (IF i <= n THEN r[i] ELSE size) \in Nat
        OBVIOUS
    <3>. QED BY <3>1
  <2>5. g[0] = 0 /\ g[n + 1] = g[n] + SizeOf[q[n + 1]]
    <3>1. g[0] = r[0] /\ g[n] = r[n] /\ g[n + 1] = size
        OBVIOUS
    <3>. HIDE DEF g
    <3>. QED BY <2>1, <2>3, <3>1
  <2>6. ASSUME NEW i \in 1 .. n PROVE g[i] = g[i - 1] + SizeOf[q[i]]
    <3>1. g[i] = r[i] /\ g[i - 1] = r[i - 1]
        OBVIOUS
    <3>. HIDE DEF g
    <3>. QED BY <2>1, <3>1
  <2>7. Sizes(g, n + 1)
    <3>. HIDE DEF g
    <3>1. ASSUME NEW i \in 1 .. n + 1 PROVE g[i] = g[i - 1] + SizeOf[q[i]]
      <4>1. i \in 1 .. n \/ (i = n + 1 /\ i - 1 = n)
          OBVIOUS
      <4>. QED BY <2>5, <2>6, <4>1, Zenon
    <3>. QED BY <2>5, <3>1
  <2>. QED BY <2>4, <2>7, Zenon
<1>3. Nat \subseteq I
  <2>. HIDE DEF I
  <2>. QED BY <1>1, <1>2, Induction
<1>4. Len(q) \in Nat /\ Len(q) <= Len(q)
    OBVIOUS
<1>5. Len(q) \in I
    BY <1>3, <1>4, Zenon
<1>. QED BY <1>4, <1>5, Zenon DEF IsSizes

\* TotalSize is the last of them.
LEMMA TotalIsLast ==
    ASSUME NEW q \in Seq(Messages), NEW r \in [0 .. Len(q) -> Nat], IsSizes(r, q)
    PROVE  TotalSize(q) = r[Len(q)]
<1>. DEFINE Eq(g) == g = [n \in 0 .. Len(q) |-> IF n = 0 THEN 0 ELSE AddSize[<<g[n - 1], q[n]>>]]
<1>. DEFINE s == CHOOSE g : Eq(g)
<1>1. ASSUME NEW n \in 1 .. Len(q) PROVE r[n] = AddSize[<<r[n - 1], q[n]>>]
  <2>1. r[n - 1] \in Nat /\ q[n] \in Messages
      OBVIOUS
  <2>2. AddSize[<<r[n - 1], q[n]>>] = r[n - 1] + SizeOf[q[n]]
      BY <2>1 DEF AddSize
  <2>. QED BY <2>2 DEF IsSizes
<1>2. Eq(r)
  <2>1. ASSUME NEW n \in 0 .. Len(q)
        PROVE  r[n] = IF n = 0 THEN 0 ELSE AddSize[<<r[n - 1], q[n]>>]
      BY <1>1, SMTT(30), Z3T(30) DEF IsSizes
  <2>. QED BY <2>1
<1>3. Eq(s)
    BY <1>2, Zenon
<1>. HIDE DEF s
<1>. DEFINE I == {n \in Nat : n <= Len(q) => r[n] = s[n]}
<1>4. 0 \in I
    BY <1>3, SMT, Z3 DEF IsSizes
<1>5. ASSUME NEW n \in Nat, n \in I PROVE n + 1 \in I
  <2>. SUFFICES ASSUME n + 1 <= Len(q) PROVE r[n + 1] = s[n + 1]
      OBVIOUS
  <2>1. PICK k \in 1 .. Len(q) : k = n + 1
      OBVIOUS
  <2>2. r[k - 1] = s[k - 1]
      BY <1>5, <2>1
  <2>3. s[k] = AddSize[<<s[k - 1], q[k]>>]
    <3>1. k \in 0 .. Len(q) /\ k # 0
        OBVIOUS
    <3>. QED BY <1>3, <3>1, Zenon
  <2>. QED BY <1>1, <2>1, <2>2, <2>3
<1>6. Nat \subseteq I
  <2>. HIDE DEF I
  <2>. QED BY <1>4, <1>5, Induction
<1>7. s[Len(q)] = r[Len(q)]
    BY <1>6
<1>. QED BY <1>7 DEF TotalSize, Fold, s

LEMMA TotalType ==
    ASSUME NEW q \in Seq(Messages)
    PROVE  TotalSize(q) \in Nat
<1>1. PICK r \in [0 .. Len(q) -> Nat] : IsSizes(r, q)
    BY SizesExist
<1>2. TotalSize(q) = r[Len(q)]
    BY <1>1, TotalIsLast
<1>. QED BY <1>2

LEMMA TotalEmpty == TotalSize(<<>>) = 0
<1>1. PICK q \in Seq(Messages) : q = <<>>
  <2>1. <<>> \in Seq(Messages)
      OBVIOUS
  <2>. QED BY <2>1, Zenon
<1>2. PICK r \in [0 .. Len(q) -> Nat] : IsSizes(r, q)
    BY SizesExist
<1>3. TotalSize(q) = r[Len(q)]
    BY <1>2, TotalIsLast
<1>4. Len(q) = 0
    BY <1>1
<1>. QED BY <1>1, <1>2, <1>3, <1>4, Zenon DEF IsSizes

LEMMA TotalOne ==
    ASSUME NEW m \in Messages
    PROVE  <<m>> \in Seq(Messages) /\ TotalSize(<<m>>) = SizeOf[m]
<1>1. PICK q \in Seq(Messages) : q = <<m>>
  <2>1. <<m>> = Append(<<>>, m) /\ <<>> \in Seq(Messages)
      OBVIOUS
  <2>2. \A u \in Seq(Messages) : Append(u, m) \in Seq(Messages)
      OBVIOUS
  <2>. QED BY <2>1, <2>2, Zenon
<1>2. Len(q) = 1 /\ q[1] = m
    BY <1>1
<1>3. PICK r \in [0 .. Len(q) -> Nat] : IsSizes(r, q)
    BY SizesExist
<1>4. TotalSize(q) = r[Len(q)]
    BY <1>3, TotalIsLast
<1>5. r[1] = r[0] + SizeOf[m] /\ r[0] = 0
    BY <1>2, <1>3, SMTT(30), Z3T(30) DEF IsSizes
<1>6. SizeOf[m] \in Nat
    BY CallsAssumption
<1>. QED BY <1>1, <1>2, <1>4, <1>5, <1>6

LEMMA AddedLast ==
    ASSUME NEW x \in Nat, NEW y \in Nat, NEW z \in Nat, NEW sum, NEW size, NEW last,
           sum = x + (y + z), size = x + y, last = z
    PROVE  sum = size + last
    OBVIOUS

\* The size of a concatenation.
LEMMA TotalConcat ==
    ASSUME NEW p \in Seq(Messages), NEW q \in Seq(Messages)
    PROVE  TotalSize(Cat(p, q)) = TotalSize(p) + TotalSize(q)
<1>1. PICK r \in [0 .. Len(p) -> Nat] : IsSizes(r, p)
    BY SizesExist
<1>2. PICK s \in [0 .. Len(q) -> Nat] : IsSizes(s, q)
    BY SizesExist
<1>3. PICK k \in Nat, m \in Nat : k = Len(p) /\ m = Len(q)
    OBVIOUS
<1>4. PICK u \in Seq(Messages) : u = Cat(p, q)
    BY CatLaws
<1>5. /\ Len(u) = k + m
      /\ \A i \in 1 .. k : u[i] = p[i]
      /\ \A i \in k + 1 .. k + m : u[i] = q[i - k]
    BY <1>3, <1>4 DEF Cat
<1>6. r \in [0 .. k -> Nat] /\ s \in [0 .. m -> Nat] /\ TotalSize(p) = r[k] /\ TotalSize(q) = s[m]
    BY <1>1, <1>2, <1>3, TotalIsLast, Zenon
<1>. DEFINE t == [i \in 0 .. k + m |-> IF i <= k THEN r[i] ELSE r[k] + s[i - k]]
<1>7. t \in [0 .. k + m -> Nat]
  <2>1. ASSUME NEW i \in 0 .. k + m PROVE (IF i <= k THEN r[i] ELSE r[k] + s[i - k]) \in Nat
      BY <1>6, SMTT(30), Z3T(30)
  <2>. QED BY <2>1
<1>8. s[0] = 0 /\ r[0] = 0
    BY <1>1, <1>2 DEF IsSizes
<1>9. \A i \in k .. k + m : t[i] = r[k] + s[i - k]
  <2>. SUFFICES ASSUME NEW i \in k .. k + m PROVE t[i] = r[k] + s[i - k]
      BY Zenon
  <2>1. CASE i = k
    <3>1. t[k] = r[k] /\ i - k = 0 /\ r[k] \in Nat
        BY <1>6, <2>1, SMTT(30), Z3T(30)
    <3>. HIDE DEF t
    <3>. QED BY <1>8, <2>1, <3>1, SMTT(30), Z3T(30)
  <2>2. CASE i # k
      BY <2>2, SMT, Z3
  <2>. QED BY <2>1, <2>2
<1>10. t[0] = 0 /\ \A i \in 0 .. k : t[i] = r[i]
    BY <1>8, SMTT(30), Z3T(30)
<1>. HIDE DEF t
<1>11. ASSUME NEW i \in 1 .. k PROVE t[i] = t[i - 1] + SizeOf[u[i]]
  <2>1. t[i] = r[i] /\ t[i - 1] = r[i - 1] /\ u[i] = p[i]
      BY <1>5, <1>10, SMT, Z3
  <2>2. r[i] = r[i - 1] + SizeOf[p[i]]
      BY <1>1, <1>3, Zenon DEF IsSizes
  <2>. QED BY <2>1, <2>2, Zenon
<1>12. ASSUME NEW i \in k + 1 .. k + m PROVE t[i] = t[i - 1] + SizeOf[u[i]]
  <2>1. PICK j \in 1 .. m : j = i - k
      BY SMTT(30), Z3T(30)
  <2>2. t[i] = r[k] + s[j] /\ t[i - 1] = r[k] + s[j - 1] /\ u[i] = q[j]
      BY <1>5, <1>9, <2>1, SMTT(30), Z3T(30)
  <2>3. s[j] = s[j - 1] + SizeOf[q[j]]
      BY <1>2, <1>3 DEF IsSizes
  <2>4. r[k] \in Nat /\ s[j - 1] \in Nat /\ SizeOf[q[j]] \in Nat
    <3>1. q[j] \in Messages
        BY <1>3, <2>1, SMTT(30), Z3T(30)
    <3>2. SizeOf[q[j]] \in Nat
        BY <3>1, CallsAssumption
    <3>3. j - 1 \in 0 .. m /\ k \in 0 .. k
        BY <2>1
    <3>. QED BY <1>6, <3>2, <3>3, Zenon
  <2>5. PICK x \in Nat, y \in Nat, z \in Nat : x = r[k] /\ y = s[j - 1] /\ z = SizeOf[q[j]]
      BY <2>4, Zenon
  <2>6. t[i] = x + (y + z) /\ t[i - 1] = x + y /\ SizeOf[u[i]] = z
      BY <2>2, <2>3, <2>5, Zenon
  <2>. QED BY <2>6, AddedLast, SMTT(30), Z3T(30)
<1>13. IsSizes(t, u)
  <2>1. ASSUME NEW i \in 1 .. Len(u) PROVE t[i] = t[i - 1] + SizeOf[u[i]]
    <3>1. i \in 1 .. k \/ i \in k + 1 .. k + m
        BY <1>5
    <3>. QED BY <1>11, <1>12, <3>1, Zenon
  <2>. QED BY <1>10, <2>1 DEF IsSizes
<1>14. TotalSize(u) = t[k + m]
  <2>1. t \in [0 .. Len(u) -> Nat]
      BY <1>5, <1>7
  <2>2. TotalSize(u) = t[Len(u)]
      BY <1>13, <2>1, TotalIsLast
  <2>. QED BY <1>5, <2>2
<1>15. t[k + m] = r[k] + s[m]
    BY <1>9, SMT, Z3
<1>. QED BY <1>4, <1>6, <1>14, <1>15, Zenon

LEMMA TotalAppend ==
    ASSUME NEW q \in Seq(Messages), NEW m \in Messages
    PROVE  TotalSize(Append(q, m)) = TotalSize(q) + SizeOf[m]
<1>1. PICK one \in Seq(Messages) : one = <<m>> /\ TotalSize(one) = SizeOf[m]
    BY TotalOne, Zenon
<1>2. Append(q, m) = Cat(q, one)
    BY <1>1, SMTT(30), Z3T(30) DEF Cat
<1>. QED BY <1>1, <1>2, TotalConcat, Zenon

-----------------------------------------------------------------------------
(* pendingSendSize_. *)

\* Nothing is counted at first.
LEMMA InitSize == Init => SizeInv
    BY TotalEmpty, CallsAssumption, SMT, Z3 DEF Init, SizeInv, ToTakeOff

\* What the messages of a session amount to.
Amount == TotalSize(writing) + TotalSize(pendingBinarySendData)

LEMMA AmountType == SendTypes => /\ TotalSize(writing) \in Nat
                                 /\ TotalSize(pendingBinarySendData) \in Nat
                                 /\ Amount \in Nat
    BY TotalType, SMTT(30), Z3T(30) DEF SendTypes, Amount

\* A step that leaves pendingSendSize_ alone, queues nothing and takes nothing off.
LEMMA SizeKept ==
    ASSUME SizeInv, Amount \in Nat, Amount' \in Nat, Amount' <= Amount,
           UNCHANGED <<pendingSendSize, ToTakeOff>>,
           \A t \in Threads : pc'[t] = "push" => \/ pc[t] = "push" /\ read'[t] = read[t]
                                                 \/ read'[t].size = pendingSendSize
    PROVE  SizeInv'
<1>1. Amount' = TotalSize(writing') + TotalSize(pendingBinarySendData')
    BY DEF Amount
<1>2. pendingSendSize \in Int /\ ToTakeOff \in Nat /\ pendingSendSize >= Amount + ToTakeOff
    BY DEF SizeInv, Amount
<1>3. ASSUME NEW t \in Threads, pc'[t] = "push" PROVE read'[t].size = pendingSendSize'
    BY <1>3 DEF SizeInv
<1>4. pendingSendSize' >= Amount' + ToTakeOff' /\ pendingSendSize' \in Int /\ ToTakeOff' \in Nat
    BY <1>2, SMT, Z3
<1>. QED BY <1>1, <1>3, <1>4 DEF SizeInv

\* SendPendingBinaryData changes what is queued and what is written, and not the amount.
LEMMA PendingAmount ==
    ASSUME SendInv, NEW q \in Seq(Messages), SendPendingBinaryData(q)
    PROVE  Amount' = TotalSize(writing) + TotalSize(q)
<1>1. /\ writing' \in Seq(Messages) /\ pendingBinarySendData' \in Seq(Messages)
      /\ Cat(writing', pendingBinarySendData') = Cat(writing, q)
    BY PendingMoves DEF SendInv, SendTypes, WriteInv, QueueInv
<1>2. writing \in Seq(Messages)
    BY DEF SendInv, SendTypes
<1>3. TotalSize(writing') + TotalSize(pendingBinarySendData') = TotalSize(writing) + TotalSize(q)
    BY <1>1, <1>2, TotalConcat, ZenonT(30)
<1>. QED BY <1>3 DEF Amount

\* The thread that starts or ends a call, and the strand before and after it takes
\* something off.
LEMMA QuietSize ==
    ASSUME SendInv, SizeInv, NEW t \in Threads,
           \/ SendBinaryMessage(t)
           \/ UnsubscribeAll(t)
           \/ t = Strand /\ ClearInProgress
    PROVE  SizeInv'
<1>. USE DEF SendInv
<1>1. UNCHANGED <<writing, pendingBinarySendData, pendingSendSize>>
    BY DEF SendBinaryMessage, UnsubscribeAll, ClearInProgress, queueVars
<1>2. Amount \in Nat /\ Amount' = Amount
    BY <1>1, AmountType, Zenon DEF Amount
<1>3. /\ \A u \in Threads \ {t} : pc'[u] = pc[u] /\ read'[u] = read[u]
      /\ pc'[t] # "decrease" /\ pc[t] # "decrease"
      /\ pc'[t] = "push" => read'[t].size = pendingSendSize
    BY SMT, Z3 DEF SendBinaryMessage, UnsubscribeAll, ClearInProgress, Goto, Return, ReadQueue, PcType, SendTypes
<1>4. ToTakeOff' = ToTakeOff
    BY <1>3, CallsAssumption, Zenon DEF ToTakeOff
<1>. QED BY <1>1, <1>2, <1>3, <1>4, SizeKept, SMT, Z3

\* PushMessage: the size grows by that of the message, as the queue does.
LEMMA PushSize ==
    ASSUME SendInv, SizeInv, NEW t \in Threads, PushMessage(t)
    PROVE  SizeInv'
<1>. USE DEF SendInv
<1>1. /\ Calling(t, "message") /\ read[t].list = pendingBinarySendData
      /\ writeLock = t /\ pc[t] = "push"
    BY DEF PushMessage, QueueInv, LockInv
<1>2. PICK m \in Messages : m = Head(todo[t])[2]
    BY <1>1, MessageOfCall
<1>3. PICK q \in Seq(Messages) : q = Append(pendingBinarySendData, m)
  <2>1. \A u \in Seq(Messages) : Append(u, m) \in Seq(Messages)
      BY <1>2, SMTT(30), Z3T(30)
  <2>. QED BY <2>1, Zenon DEF SendTypes
<1>4. SendPendingBinaryData(q)
  <2>1. PushBack(read[t].list, m) = {q}
      BY <1>1, <1>3, PushAtEnd, Zenon DEF SendTypes
  <2>. QED BY <1>2, <2>1, Zenon DEF PushMessage
<1>5. pendingSendSize' = pendingSendSize + SizeOf[m]
    BY <1>1, <1>2, Zenon DEF PushMessage, SizeInv
<1>6. TotalSize(q) = TotalSize(pendingBinarySendData) + SizeOf[m] /\ SizeOf[m] \in Nat
  <2>1. pendingBinarySendData \in Seq(Messages) /\ m \in Messages
      BY <1>2 DEF SendTypes
  <2>. QED BY <1>3, <2>1, TotalAppend, CallsAssumption, Zenon
<1>7. Amount' = Amount + SizeOf[m]
  <2>1. Amount' = TotalSize(writing) + TotalSize(q)
      BY <1>3, <1>4, PendingAmount, ZenonT(30)
  <2>. QED BY <1>6, <2>1, AmountType, SMT, Z3 DEF Amount
<1>8. pc'[t] = "idle" /\ UNCHANGED read /\ \A u \in Threads \ {t} : pc'[u] = pc[u] /\ pc[u] # "push"
    BY <1>1, Zenon DEF PushMessage, Return, Goto, PcType, QueueInv, LockInv
<1>9. ToTakeOff' = ToTakeOff
    BY <1>1, <1>8, CallsAssumption, Zenon DEF ToTakeOff
<1>10. /\ pendingSendSize \in Int /\ ToTakeOff \in Nat /\ Amount \in Nat
       /\ pendingSendSize >= Amount + ToTakeOff
    BY AmountType DEF SizeInv, Amount
<1>11. pendingSendSize' \in Int /\ pendingSendSize' >= Amount' + ToTakeOff'
    BY <1>5, <1>6, <1>7, <1>9, <1>10, SMTT(30), Z3T(30)
<1>12. Amount' = TotalSize(writing') + TotalSize(pendingBinarySendData')
    BY Zenon DEF Amount
<1>. QED BY <1>8, <1>9, <1>10, <1>11, <1>12, Zenon DEF SizeInv

\* Resume: messages go from the queue to the send buffer.
LEMMA ResumeSize ==
    ASSUME SendInv, SizeInv, Resume
    PROVE  SizeInv'
<1>. USE DEF SendInv
<1>1. /\ Goto(Strand, "idle") /\ pc[Strand] = "resume" /\ UNCHANGED <<pendingSendSize, read>>
      /\ SendPendingBinaryData(pendingBinarySendData)
    BY DEF Resume
<1>2. pc'[Strand] = "idle" /\ \A u \in Threads \ {Strand} : pc'[u] = pc[u]
    BY <1>1, CallsAssumption, Zenon DEF Goto, PcType
<1>3. Amount' = Amount /\ Amount \in Nat
    BY <1>1, PendingAmount, AmountType, Zenon DEF Amount, SendTypes
<1>4. ToTakeOff' = ToTakeOff
    BY <1>1, <1>2 DEF ToTakeOff
<1>. QED BY <1>1, <1>2, <1>3, <1>4, SizeKept, SMTT(30), Z3T(30)

\* OnBinaryMessageSent: what was written is to be taken off.
LEMMA MessageSentSize ==
    ASSUME SendInv, SizeInv, OnBinaryMessageSent
    PROVE  SizeInv'
<1>. USE DEF SendInv
<1>1. /\ Goto(Strand, "decrease") /\ pc[Strand] = "idle" /\ writing' = <<>>
      /\ UNCHANGED <<pendingBinarySendData, pendingSendSize>>
      /\ read' = [read EXCEPT ![Strand].size = TotalSize(writing)]
    BY DEF OnBinaryMessageSent
<1>2. pc'[Strand] = "decrease" /\ \A u \in Threads \ {Strand} : pc'[u] = pc[u] /\ read'[u] = read[u]
    BY <1>1, CallsAssumption DEF Goto, PcType, SendTypes
<1>3. ToTakeOff = 0 /\ ToTakeOff' = TotalSize(writing) /\ TotalSize(writing') = 0
  <2>1. read'[Strand].size = TotalSize(writing)
      BY <1>1, CallsAssumption DEF SendTypes
  <2>. QED BY <1>1, <1>2, <2>1, TotalEmpty DEF ToTakeOff
<1>4. TotalSize(writing) \in Nat /\ TotalSize(pendingBinarySendData) \in Nat
    BY AmountType, Zenon
<1>. QED BY <1>1, <1>2, <1>3, <1>4 DEF SizeInv

\* DecreasePendingSendSize takes it off; nobody is between the halves of a push.
LEMMA DecreaseSize ==
    ASSUME SendInv, SizeInv, DecreasePendingSendSize
    PROVE  SizeInv'
<1>. USE DEF SendInv
<1>1. /\ Goto(Strand, "sendNext") /\ pc[Strand] = "decrease" /\ writeLock = NoOne
      /\ UNCHANGED <<writing, pendingBinarySendData, read>>
      /\ pendingSendSize' = pendingSendSize - ToTakeOff
    BY DEF DecreasePendingSendSize, ToTakeOff
<1>2. pc'[Strand] = "sendNext" /\ \A u \in Threads \ {Strand} : pc'[u] = pc[u]
    BY <1>1, CallsAssumption, Zenon DEF Goto, PcType
<1>3. \A u \in Threads : pc'[u] # "push"
    BY <1>1, <1>2, CallsAssumption, Zenon DEF QueueInv, LockInv
<1>4. ToTakeOff' = 0
    BY <1>2, Zenon DEF ToTakeOff
<1>5. TotalSize(writing) \in Nat /\ TotalSize(pendingBinarySendData) \in Nat
    BY AmountType
<1>. QED BY <1>1, <1>3, <1>4, <1>5, SMTT(30), Z3T(30) DEF SizeInv

\* A session that closes, or whose write failed, drops messages that stay counted.
LEMMA CloseSize ==
    ASSUME SendInv, SizeInv, NEW t \in Threads, InvalidateConnection(t) \/ (t = Strand /\ OnWriteError)
    PROVE  SizeInv'
<1>. USE DEF SendInv
<1>1. /\ pc[t] = "idle" /\ writeLock = NoOne /\ UNCHANGED <<pendingSendSize, read>>
      /\ writing' \in {writing, <<>>}
      /\ pendingBinarySendData' \in {pendingBinarySendData, <<>>}
    BY Zenon DEF InvalidateConnection, OnWriteError, Invalidate
<1>2. pc'[t] \in {"idle", "unsubscribe", "abort"} /\ \A u \in Threads \ {t} : pc'[u] = pc[u]
    BY <1>1 DEF InvalidateConnection, OnWriteError, Invalidate, Return, Goto, PcType
<1>3. Amount \in Nat /\ Amount' \in Nat /\ Amount' <= Amount
    BY <1>1, TotalEmpty, AmountType, SMTT(30), Z3T(30) DEF Amount
<1>4. ToTakeOff' = ToTakeOff
    BY <1>1, <1>2, CallsAssumption, Zenon DEF ToTakeOff
<1>. QED BY <1>1, <1>2, <1>3, <1>4, SizeKept, Zenon

\* All of it.
LEMMA SizeStep == SendInv /\ SizeInv /\ [Next]_vars => SizeInv'
<1>. SUFFICES ASSUME SendInv, SizeInv, [Next]_vars PROVE SizeInv'
    OBVIOUS
<1>1. ASSUME NEW t \in Threads, Step(t) PROVE SizeInv'
    BY <1>1, NoSnapshotStep, QuietSize, PushSize, CloseSize, Zenon DEF Step
<1>2. CASE Completion
    BY <1>2, QuietSize, DecreaseSize, ResumeSize, CallsAssumption, Zenon DEF Completion
<1>3. CASE UNCHANGED vars
    BY <1>3 DEF vars, lockVars, queueVars, SizeInv, ToTakeOff
<1>. QED BY <1>1, <1>2, <1>3, CloseSize, MessageSentSize, CallsAssumption, Zenon DEF Next, Finished

\* The assertions on pendingSendSize_ hold of a session that is sent no snapshot: whatever
\* threads send, however large the messages are and whichever writes fail, nothing is taken
\* off it that was not added.
THEOREM SizeCovered == Init /\ NoSnapshots /\ [][Next]_vars => []SizeNotNegative
<1>1. SendInv /\ SizeInv => SizeNotNegative
    BY AmountType, SMT, Z3 DEF SizeInv, SizeNotNegative, SendInv
<1>. QED BY <1>1, InitSend, InitSize, SendStep, SizeStep, PTL
==============================================================================
