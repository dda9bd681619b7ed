---------------------------- MODULE LogReplayProofs ----------------------------
(***************************************************************************)
(* The ring of the transaction log loses nothing, for every size of the    *)
(* ring, any number of sessions and any commands: THEOREM RingIsFifo.      *)
(*                                                                         *)
(* What the replay tool makes of the log follows the first server if each  *)
(* container is changed by one session: THEOREM ReplicaIsFollower.  Its    *)
(* invariant, ReplayInv, goes along the way of a change: from the command  *)
(* (ScriptInv, HandleInv) to the line in hand (LineInv), the lines that    *)
(* were logged (LoggedInv), the queues of the tool (QueuesInv) and what    *)
(* the second server has been sent (ReplicaInv).                           *)
(***************************************************************************)
EXTENDS LogReplay, TLAPS

LEMMA SizeOfRing == N \in Nat /\ N > 1
BY LogAssumption

\* The remainder IsLogQueueFull takes is the number of lines that wait.
LEMMA ModSmall ==
    ASSUME NEW x \in 0 .. 2 * N - 1
    PROVE  x % N = IF x >= N THEN x - N ELSE x
<1>1. CASE x >= N
    BY <1>1, SizeOfRing, SMT
<1>2. CASE x < N
    BY <1>2, SizeOfRing, SMT
<1>. QED BY <1>1, <1>2, SizeOfRing

LEMMA FullWhenWaiting ==
    ASSUME TypeOK
    PROVE  IsLogQueueFull <=> Waiting = N - 1
<1>1. head \in 0 .. N - 1 /\ tail \in 0 .. N - 1 /\ N \in Nat
    BY SizeOfRing DEF TypeOK
<1>2. PICK x \in 0 .. 2 * N - 1 : x = N - tail + head
    BY <1>1
<1>3. x % N = IF x >= N THEN x - N ELSE x
    BY <1>2, ModSmall
<1>4. IsLogQueueFull <=> x % N = N - 1
    BY <1>2 DEF IsLogQueueFull
<1>. QED BY <1>1, <1>2, <1>3, <1>4 DEF Waiting

\* The slots of the waiting lines are distinct, and none of them is the one at head.
LEMMA Slots ==
    ASSUME TypeOK
    PROVE  /\ Waiting \in 0 .. N - 1
           /\ Waiting = 0 <=> tail = head
           /\ Slot(0) = tail
           /\ Slot(Waiting) = head
           /\ \A k \in 0 .. Waiting : Slot(k) \in 0 .. N - 1
           /\ \A k \in 0 .. Waiting - 1 : Slot(k) # head
           /\ \A k \in 1 .. Waiting : Slot(k) # tail
BY SizeOfRing DEF TypeOK, Waiting, Slot

-----------------------------------------------------------------------------

\* The initial state: nothing is logged, written or waiting.
LEMMA InitInv == Init => TypeOK /\ RingInv /\ LogIsFifo
<1>. SUFFICES ASSUME Init PROVE TypeOK /\ RingInv /\ LogIsFifo
    OBVIOUS
<1>1. NoLine \in Line
    BY DEF NoLine, Line, Ops
<1>2. TypeOK
  <2>1. script \in [Sessions -> Seq(Command)]
      BY LogAssumption DEF Init
  <2>2. line \in [Sessions -> Line] /\ rawLogQueue \in [0 .. N - 1 -> Line]
      BY <1>1 DEF Init
  <2>3. applied \in [Names -> Seq(Nat)] /\ file \in Seq(Line) /\ logged \in Seq(Line)
      BY DEF Init
  <2>4. head \in 0 .. N - 1 /\ tail \in 0 .. N - 1
      BY SizeOfRing DEF Init
  <2>. QED BY <2>1, <2>2, <2>3, <2>4, Zenon DEF Init, TypeOK
<1>3. RingInv
    BY LogAssumption DEF Init, RingInv
<1>4. LogIsFifo
    BY SizeOfRing DEF Init, LogIsFifo, Waiting, Ahead
<1>. QED BY <1>2, <1>3, <1>4

\* Type correctness, action by action.
LEMMA TypeStep == TypeOK /\ RingInv /\ [Next]_logVars => TypeOK'
<1>. SUFFICES ASSUME TypeOK, RingInv, [Next]_logVars PROVE TypeOK'
    BY Zenon
<1>. USE DEF TypeOK
<1>1. ASSUME NEW s \in Sessions, Apply(s) PROVE TypeOK'
  <2>. DEFINE c == Head(script[s])
              n == Len(applied[c.name]) + 1
  <2>1. c \in Command /\ Tail(script[s]) \in Seq(Command)
    <3>1. script[s] \in Seq(Command) /\ script[s] # <<>>
        BY <1>1 DEF Apply
    <3>. QED BY <3>1
  <2>2. c.op \in Ops /\ c.name \in Names /\ n \in Nat
      BY <2>1, SMTT(30), Z3T(30) DEF Command
  <2>3. [kind |-> c.op, handle |-> 0, name |-> c.name, n |-> n] \in Line
      BY <2>2, Zenon DEF Line
  <2>4. line' \in [Sessions -> Line]
      BY <1>1, <2>3 DEF Apply
  <2>5. applied' \in [Names -> Seq(Nat)]
      BY <1>1, <2>1, <2>2, SMTT(30), Z3T(30) DEF Apply
  <2>6. script' \in [Sessions -> Seq(Command)]
      BY <1>1, <2>1 DEF Apply
  <2>7. pc' \in [Sessions -> {"idle", "handle", "raw", "advance"}]
      BY <1>1 DEF Apply, Goto
  <2>. QED BY <1>1, <2>4, <2>5, <2>6, <2>7, Zenon DEF Apply, ringVars, fileVars
<1>2. ASSUME NEW s \in Sessions, LogMessage(s) PROVE TypeOK'
  <2>1. line[s].name \in Names
      BY <1>2 DEF LogMessage, RingInv
  <2>2. handles' \in [Names -> Nat] /\ lastHandle' \in Nat
      BY <1>2, <2>1, SMTT(30), Z3T(30) DEF LogMessage
  <2>3. line' \in [Sessions -> Line]
    <3>1. \A h \in Nat : [line[s] EXCEPT !.handle = h] \in Line
        BY ZenonT(30) DEF Line
    <3>. DEFINE h == IF handles[line[s].name] = 0 /\ line[s].kind = "open" THEN lastHandle + 1
                     ELSE handles[line[s].name]
    <3>2. h \in Nat
        BY <2>1
    <3>3. line' = [line EXCEPT ![s].handle = h]
        BY <1>2 DEF LogMessage
    <3>. QED BY <3>1, <3>2, <3>3
  <2>4. pc' \in [Sessions -> {"idle", "handle", "raw", "advance"}]
      BY <1>2 DEF LogMessage, Goto
  <2>. QED BY <1>2, <2>2, <2>3, <2>4, Zenon DEF LogMessage, ringVars, fileVars
<1>3. ASSUME NEW s \in Sessions, RawLog(s) PROVE TypeOK'
    BY <1>3 DEF RawLog, Goto, fileVars
<1>4. ASSUME NEW s \in Sessions, AdvanceHead(s) PROVE TypeOK'
  <2>1. After(head) \in 0 .. N - 1
      BY SizeOfRing DEF After
  <2>2. Append(logged, line[s]) \in Seq(Line)
      OBVIOUS
  <2>. QED BY <1>4, <2>1, <2>2 DEF AdvanceHead, Goto, fileVars
<1>5. CASE WriteLine
  <2>1. Append(file, rawLogQueue[tail]) \in Seq(Line)
    <3>1. rawLogQueue[tail] \in Line /\ file \in Seq(Line)
        BY Zenon
    <3>. QED BY <3>1
  <2>. QED BY <1>5, <2>1 DEF WriteLine, sessionVars, ringVars
<1>6. CASE ClearSlot
  <2>1. NoLine \in Line
      BY Zenon DEF NoLine, Line, Ops
  <2>. QED BY <1>6, <2>1 DEF ClearSlot, sessionVars
<1>7. CASE AdvanceTail
  <2>1. After(tail) \in 0 .. N - 1
      BY SizeOfRing DEF After
  <2>. QED BY <1>7, <2>1 DEF AdvanceTail, sessionVars
<1>8. CASE FlushMetadata
  <2>1. Len(file) \in Nat
      OBVIOUS
  <2>. QED BY <1>8, <2>1, Zenon DEF FlushMetadata, sessionVars, ringVars
<1>9. CASE UNCHANGED logVars
    BY <1>9 DEF logVars, sessionVars, ringVars, fileVars
<1>. QED BY <1>1, <1>2, <1>3, <1>4, <1>5, <1>6, <1>7, <1>8, <1>9, Zenon DEF Next, Session, Writer

\* The lock, and the line of the session that holds it.
LEMMA RingStep == TypeOK /\ RingInv /\ [Next]_logVars => RingInv'
<1>. SUFFICES ASSUME TypeOK, RingInv, [Next]_logVars PROVE RingInv'
    OBVIOUS
<1>. USE DEF RingInv
<1>1. ASSUME NEW s \in Sessions, Apply(s) PROVE RingInv'
  <2>1. Head(script[s]) \in Command
    <3>1. script[s] \in Seq(Command) /\ script[s] # <<>>
        BY <1>1, Zenon DEF Apply, TypeOK
    <3>. QED BY <3>1, SMTT(30), Z3T(30)
  <2>2. line'[s].name \in Names /\ \A t \in Sessions \ {s} : line'[t] = line[t] /\ pc'[t] = pc[t]
      BY <1>1, <2>1, Zenon DEF Apply, Goto, TypeOK, Command
  <2>3. pc[s] = "idle" /\ pc'[s] \in {"idle", "handle"}
      BY <1>1, Zenon DEF Apply, Goto, TypeOK
  <2>4. UNCHANGED <<logQueueLock, rawLogQueue, head, tail, writer>>
      BY <1>1 DEF Apply, ringVars, fileVars
  <2>. QED BY <2>2, <2>3, <2>4
<1>2. ASSUME NEW s \in Sessions, LogMessage(s) PROVE RingInv'
  <2>1. line'[s].name = line[s].name
    <3>1. PICK h : line' = [line EXCEPT ![s].handle = h]
        BY <1>2, Zenon DEF LogMessage
    <3>2. line'[s] = [line[s] EXCEPT !.handle = h]
        BY <3>1 DEF TypeOK
    <3>3. line[s] \in Line
        BY DEF TypeOK
    <3>. QED BY <3>2, <3>3, Zenon DEF Line
  <2>2. \A t \in Sessions \ {s} : line'[t] = line[t] /\ pc'[t] = pc[t]
      BY <1>2 DEF LogMessage, Goto, TypeOK
  <2>3. pc[s] = "handle" /\ pc'[s] \in {"idle", "raw"}
      BY <1>2 DEF LogMessage, Goto, TypeOK
  <2>4. UNCHANGED <<logQueueLock, rawLogQueue, head, tail, writer>>
      BY <1>2 DEF LogMessage, ringVars, fileVars
  <2>. QED BY <2>1, <2>2, <2>3, <2>4
<1>3. ASSUME NEW s \in Sessions, RawLog(s) PROVE RingInv'
    BY <1>3, LogAssumption DEF RawLog, Goto, fileVars, TypeOK
<1>4. ASSUME NEW s \in Sessions, AdvanceHead(s) PROVE RingInv'
  <2>1. writer # "poll" => tail # After(head)
      BY <1>4, FullWhenWaiting, SizeOfRing, SMT, Z3 DEF AdvanceHead, Waiting, After, TypeOK
  <2>. QED BY <1>4, <2>1, LogAssumption DEF AdvanceHead, Goto, fileVars, TypeOK
<1>5. CASE WriteLine
    BY <1>5 DEF WriteLine, sessionVars, ringVars
<1>6. CASE ClearSlot
    BY <1>6 DEF ClearSlot, sessionVars, TypeOK
<1>7. CASE AdvanceTail
    BY <1>7 DEF AdvanceTail, sessionVars
<1>8. CASE FlushMetadata
    BY <1>8 DEF FlushMetadata, sessionVars, ringVars
<1>9. CASE UNCHANGED logVars
    BY <1>9 DEF logVars, sessionVars, ringVars, fileVars
<1>. QED BY <1>1, <1>2, <1>3, <1>4, <1>5, <1>6, <1>7, <1>8, <1>9 DEF Next, Session, Writer

-----------------------------------------------------------------------------

\* The queue itself, action by action.
LEMMA FifoStep == TypeOK /\ RingInv /\ LogIsFifo /\ [Next]_logVars => LogIsFifo'
<1>. SUFFICES ASSUME TypeOK, RingInv, LogIsFifo, [Next]_logVars PROVE LogIsFifo'
    OBVIOUS
<1>1. ASSUME NEW s \in Sessions, Apply(s) \/ LogMessage(s) PROVE LogIsFifo'
  <2>1. UNCHANGED <<ringVars, fileVars>>
      BY <1>1 DEF Apply, LogMessage
  <2>. QED BY <2>1, Zenon DEF LogIsFifo, Waiting, Ahead, Slot, ringVars, fileVars
<1>2. ASSUME NEW s \in Sessions, RawLog(s) PROVE LogIsFifo'
  <2>1. \A k \in Ahead .. Waiting - 1 : Slot(k) # head /\ Slot(k) \in 0 .. N - 1
      BY Slots, SizeOfRing DEF Ahead
  <2>2. \A i \in 0 .. N - 1 : i # head => rawLogQueue'[i] = rawLogQueue[i]
      BY <1>2 DEF RawLog, TypeOK
  <2>3. UNCHANGED <<head, tail, logged, writer, file>>
      BY <1>2 DEF RawLog, fileVars
  <2>4. Ahead' = Ahead /\ Waiting' = Waiting /\ \A k \in Nat : Slot(k)' = Slot(k)
      BY <2>3 DEF Ahead, Waiting, Slot
  <2>5. \A k \in Ahead .. Waiting - 1 : rawLogQueue'[Slot(k)] = rawLogQueue[Slot(k)]
      BY <2>1, <2>2, Zenon
  <2>. QED BY <2>3, <2>5 DEF LogIsFifo, Ahead, Waiting, Slot
<1>3. ASSUME NEW s \in Sessions, AdvanceHead(s) PROVE LogIsFifo'
  <2>1. Waiting' = Waiting + 1 /\ Ahead' = Ahead
      BY <1>3, FullWhenWaiting, SizeOfRing, SMT, Z3 DEF AdvanceHead, Waiting, Ahead, After, TypeOK, fileVars
  <2>2. /\ logged' = Append(logged, line[s])
        /\ rawLogQueue[head] = line[s]
        /\ UNCHANGED <<rawLogQueue, tail, file, writer>>
      BY <1>3 DEF AdvanceHead, RingInv, fileVars
  <2>3. Ahead \in {0, 1} /\ (Ahead = 1 => Waiting > 0)
      BY Slots, SizeOfRing, SMT, Z3 DEF RingInv, Ahead
  <2>4. Len(logged') = Len(file') - Ahead' + Waiting'
    <3>1. Len(logged') = Len(logged) + 1 /\ Len(file') = Len(file) /\ Len(file) \in Nat
        BY <2>2 DEF TypeOK
    <3>2. Waiting \in Nat
        BY Slots, SizeOfRing
    <3>3. Len(logged) = Len(file) - Ahead + Waiting
        BY DEF LogIsFifo
    <3>. QED BY <3>1, <3>2, <3>3, <2>1, <2>3
  <2>5. \A i \in 1 .. Len(logged) : logged'[i] = logged[i]
      BY <2>2, SMT, Z3 DEF TypeOK
  <2>6. logged'[Len(file) - Ahead + Waiting + 1] = line[s]
      BY <2>2, SMT, Z3 DEF TypeOK, LogIsFifo
  <2>7. \A i \in 1 .. Len(file') : i \in 1 .. Len(logged') /\ file'[i] = logged'[i]
      BY <2>2, <2>5, SMT, Z3 DEF LogIsFifo, TypeOK
  <2>8. ASSUME NEW k \in Ahead' .. Waiting' - 1
        PROVE  rawLogQueue'[Slot(k)'] = logged'[Len(file') - Ahead' + k + 1]
    <3>1. k \in Ahead .. Waiting /\ Slot(k)' = Slot(k)
        BY <2>1, <2>2, <2>3, Slots, SizeOfRing, SMT, Z3 DEF Slot
    <3>2. CASE k = Waiting
        BY <3>2, <2>1, <2>2, <2>6, Slots, <3>1
    <3>3. CASE k # Waiting
      <4>1. k \in Ahead .. Waiting - 1
          BY <3>1, <3>3, <2>3, Slots, SizeOfRing, SMTT(30), Z3T(30)
      <4>2. Len(file) - Ahead + k + 1 \in 1 .. Len(logged)
          BY <4>1, <2>3, Slots, SizeOfRing, SMTT(30), Z3T(30) DEF LogIsFifo, TypeOK
      <4>. QED BY <4>1, <4>2, <3>1, <2>1, <2>2, <2>5 DEF LogIsFifo
    <3>. QED BY <3>2, <3>3
  <2>. QED BY <2>4, <2>7, <2>8 DEF LogIsFifo
<1>4. CASE WriteLine
  <2>1. /\ Ahead = 0 /\ Ahead' = 1 /\ Waiting > 0
        /\ file' = Append(file, rawLogQueue[tail])
        /\ UNCHANGED <<rawLogQueue, head, tail, logged>>
      BY <1>4, Slots, SizeOfRing DEF WriteLine, Ahead, ringVars
  <2>2. Waiting' = Waiting /\ \A k : Slot(k)' = Slot(k)
      BY <2>1 DEF Waiting, Slot
  <2>3. rawLogQueue[tail] = logged[Len(file) + 1] /\ Len(logged) = Len(file) + Waiting
    <3>1. 0 \in Ahead .. Waiting - 1 /\ Waiting \in Nat /\ Len(file) \in Nat
        BY <2>1, Slots, SizeOfRing, SMT, Z3 DEF TypeOK
    <3>2. rawLogQueue[Slot(0)] = logged[Len(file) - 0 + 0 + 1] /\ Len(logged) = Len(file) - 0 + Waiting
        BY <3>1, <2>1 DEF LogIsFifo
    <3>. QED BY <3>1, <3>2, Slots, SMT, Z3
  <2>4. Len(file') = Len(file) + 1 /\ file'[Len(file) + 1] = logged[Len(file) + 1]
        /\ \A i \in 1 .. Len(file) : file'[i] = file[i]
      BY <2>1, <2>3, SMT, Z3 DEF TypeOK
  <2>5. Len(logged') = Len(file') - Ahead' + Waiting'
      BY <2>1, <2>2, <2>3, <2>4, Slots, SMTT(30), Z3T(30) DEF TypeOK
  <2>6. \A i \in 1 .. Len(file') : i \in 1 .. Len(logged') /\ file'[i] = logged'[i]
      BY <2>1, <2>3, <2>4, Slots, SMTT(30), Z3T(30) DEF LogIsFifo, TypeOK
  <2>7. \A k \in Ahead' .. Waiting' - 1 : rawLogQueue'[Slot(k)'] = logged'[Len(file') - Ahead' + k + 1]
    <3>1. \A k \in 1 .. Waiting - 1 : rawLogQueue[Slot(k)] = logged[Len(file) + k + 1]
        BY <2>1, Slots, SMT, Z3 DEF LogIsFifo, TypeOK
    <3>2. \A k \in 1 .. Waiting - 1 : Len(file') - Ahead' + k + 1 = Len(file) + k + 1
        BY <2>1, <2>4, SMT, Z3 DEF TypeOK
    <3>. QED BY <3>1, <3>2, <2>1, <2>2
  <2>. QED BY <2>5, <2>6, <2>7 DEF LogIsFifo
<1>5. CASE ClearSlot
  <2>1. Ahead = 1 /\ Ahead' = 1 /\ UNCHANGED <<head, tail, logged, file>>
      BY <1>5 DEF ClearSlot, Ahead
  <2>2. Waiting' = Waiting /\ \A k : Slot(k)' = Slot(k)
      BY <2>1 DEF Waiting, Slot
  <2>3. \A k \in 1 .. Waiting - 1 : Slot(k) # tail /\ Slot(k) \in 0 .. N - 1
      BY Slots, SizeOfRing
  <2>4. \A i \in 0 .. N - 1 : i # tail => rawLogQueue'[i] = rawLogQueue[i]
      BY <1>5 DEF ClearSlot, TypeOK
  <2>. QED BY <2>1, <2>2, <2>3, <2>4, Zenon DEF LogIsFifo
<1>6. CASE AdvanceTail
  <2>1. /\ Ahead = 1 /\ Ahead' = 0 /\ tail # head /\ tail' = After(tail)
        /\ UNCHANGED <<rawLogQueue, head, logged, file>>
      BY <1>6 DEF AdvanceTail, Ahead, RingInv
  <2>2. Waiting' = Waiting - 1
      BY <2>1, SizeOfRing DEF Waiting, After, TypeOK
  <2>3. \A k \in 0 .. Waiting - 2 : Slot(k)' = Slot(k + 1)
      BY <2>1, Slots, SizeOfRing, SMTT(30), Z3T(30) DEF Slot, After, TypeOK
  <2>4. Len(logged') = Len(file') - Ahead' + Waiting'
      BY <2>1, <2>2, Slots, SizeOfRing, SMTT(30), Z3T(30) DEF LogIsFifo, TypeOK
  <2>5. ASSUME NEW k \in Ahead' .. Waiting' - 1
        PROVE  rawLogQueue'[Slot(k)'] = logged'[Len(file') - Ahead' + k + 1]
    <3>1. k \in 0 .. Waiting - 2 /\ k + 1 \in 1 .. Waiting - 1
        BY <2>1, <2>2, Slots, SizeOfRing
    <3>2. rawLogQueue[Slot(k + 1)] = logged[Len(file) - 1 + (k + 1) + 1]
        BY <3>1, <2>1 DEF LogIsFifo
    <3>3. Len(file) - 1 + (k + 1) + 1 = Len(file) - 0 + k + 1
        BY <3>1, SMT, Z3 DEF TypeOK
    <3>. QED BY <3>1, <3>2, <3>3, <2>1, <2>3
  <2>. QED BY <2>1, <2>4, <2>5 DEF LogIsFifo
<1>7. CASE FlushMetadata \/ UNCHANGED logVars
  <2>1. UNCHANGED <<ringVars, writer, file>>
      BY <1>7 DEF FlushMetadata, logVars, fileVars
  <2>. QED BY <2>1 DEF LogIsFifo, Waiting, Ahead, Slot, ringVars
<1>. QED BY <1>1, <1>2, <1>3, <1>4, <1>5, <1>6, <1>7 DEF Next, Session, Writer

-----------------------------------------------------------------------------

\* For every size of the ring, any sessions and any commands: the file receives the lines in
\* the order of RawLog and the ring holds the rest, although WriteRawLogThread takes no lock
\* and RawLog fills its slot before it looks whether the ring is full.
THEOREM RingIsFifo == Spec => []LogIsFifo
<1>1. TypeOK /\ RingInv /\ LogIsFifo /\ [Next]_logVars => (TypeOK /\ RingInv /\ LogIsFifo)'
    BY TypeStep, RingStep, FifoStep
<1>. QED BY InitInv, <1>1, PTL DEF Spec

-----------------------------------------------------------------------------
(* The lines that are logged, when each container has a session of its own. *)

\* What Separate says of the scripts, of the commands that are left and the one in hand.
Busy(s) == pc[s] # "idle"
Owns(s, c) == (\E i \in DOMAIN script[s] : script[s][i].name = c) \/ (Busy(s) /\ line[s].name = c)
Opening(s, c) == line[s].kind = "open" /\ line[s].name = c
Ready(s, i) ==
    LET c == script[s][i].name
    IN  /\ script[s][i].op # "textChange" /\ c \notin MetaNames
        /\ script[s][i].op # "open" => \/ handles[c] # 0
                                       \/ pc[s] = "handle" /\ Opening(s, c)
                                       \/ \E j \in 1 .. i - 1 : script[s][j] = OpenOf(c)
ScriptInv ==
    /\ \A s, u \in Sessions, c \in Names : Owns(s, c) /\ Owns(u, c) => s = u
    /\ \A s \in Sessions : \A i \in DOMAIN script[s] : Ready(s, i)

\* A container that has a handle has a line that opens it, in the log or in hand; no two
\* containers have one handle.
Opened(c, k) == \E i \in 1 .. k : logged[i].kind = "open" /\ logged[i].name = c
HandleInv ==
    /\ \A c \in Names : handles[c] <= lastHandle
    /\ \A c, d \in Names : handles[c] = handles[d] /\ handles[c] # 0 => c = d
    /\ \A c \in Names : handles[c] # 0 =>
          \/ Opened(c, Len(logged))
          \/ \E s \in Sessions : pc[s] \in {"raw", "advance"} /\ Opening(s, c)

\* A line that names container c as the server knows it.
Proper(l) == l.name \in Names \ MetaNames /\ l.kind \in {"open", "change", "group"}
IsChange(l, c) == l.kind = "change" /\ l.name = c

\* The line in hand is about the last change of its container.
LineOK(s) ==
    LET c == line[s].name
    IN  /\ Proper(line[s])
        /\ line[s].kind # "open" => handles[c] # 0
        /\ pc[s] # "handle" => line[s].handle = handles[c] /\ line[s].handle # 0
        /\ line[s].kind = "change" =>
              /\ line[s].n = Len(applied[c]) /\ line[s].n > 0
              /\ \A i \in DOMAIN logged : IsChange(logged[i], c) => logged[i].n < line[s].n
LineInv == \A s \in Sessions : Busy(s) => LineOK(s)

\* The log has the changes of a container in their order, behind the line that opens it, and
\* all of them but for one in hand.
LoggedOK(i) ==
    LET c == logged[i].name
    IN  /\ Proper(logged[i])
        /\ logged[i].handle = handles[c] /\ logged[i].handle # 0
        /\ logged[i].kind # "open" => Opened(c, i - 1)
        /\ logged[i].kind = "change" => logged[i].n \in 1 .. Len(applied[c])
InOrder(c) ==
    \A i, j \in DOMAIN logged :
       i < j /\ IsChange(logged[i], c) /\ IsChange(logged[j], c) => logged[i].n < logged[j].n
InLog(c, n) == \E i \in DOMAIN logged : IsChange(logged[i], c) /\ logged[i].n = n
InHand(c) == \E s \in Sessions : Busy(s) /\ IsChange(line[s], c)
LoggedInv ==
    /\ \A i \in DOMAIN logged : LoggedOK(i)
    /\ \A c \in Names :
          /\ InOrder(c)
          /\ \A n \in 1 .. Len(applied[c]) : InLog(c, n) \/ (n = Len(applied[c]) /\ InHand(c))
          /\ \A i \in DOMAIN applied[c] : applied[c][i] = i

\* The lines the tool has replayed, and those it has still in its queues.
Replayed == position - Len(logQueue) - Len(localLogQueue)
QueuesInv ==
    /\ position \in 0 .. Len(file) /\ Replayed \in Nat
    /\ reader = "top" => IF failed THEN lastMaxOffset = -1 ELSE lastMaxOffset = 0 /\ position = 0
    /\ publisher # "send" => localLogQueue = <<>>
    /\ \A i \in DOMAIN localLogQueue : localLogQueue[i] = file[Replayed + i]
    /\ \A i \in DOMAIN logQueue : logQueue[i] = file[Replayed + Len(localLogQueue) + i]

\* What it has made of them.
CopyOK(c) ==
    /\ Len(replica[c]) <= Len(applied[c])
    /\ \A i \in DOMAIN replica[c] : replica[c][i] = i
    /\ \A i \in DOMAIN logged :
          IsChange(logged[i], c) => (logged[i].n <= Len(replica[c]) <=> i <= Replayed)
    /\ replica[c] # <<>> =>
          \E i \in DOMAIN logged : IsChange(logged[i], c) /\ logged[i].n = Len(replica[c])
ReplicaInv ==
    /\ ~lost
    /\ \A h \in DOMAIN containers : containers[h] \in Names /\ handles[containers[h]] = h /\ h # 0
    /\ \A i \in 1 .. Replayed : logged[i].kind = "open" => logged[i].handle \in DOMAIN containers
    /\ \A c \in Names : CopyOK(c)

ReplayTypes ==
    /\ logQueue \in Seq(Line) /\ localLogQueue \in Seq(Line)
    /\ replica \in [Names -> Seq(Nat)]

RingOK == TypeOK /\ RingInv /\ LogIsFifo
SessionInv == ScriptInv /\ HandleInv /\ LineInv /\ LoggedInv
ReplayInv == RingOK /\ ReplayTypes /\ SessionInv /\ QueuesInv /\ ReplicaInv

\* The ring goes its way whatever the replay tool does.
LEMMA RingReplay == RingOK /\ [NextReplay]_allVars => RingOK'
<1>1. [NextReplay]_allVars => [Next]_logVars
    BY Zenon DEF NextReplay, allVars, Reader, StartReading, ReadLine, EndOfFile, Stop, Publisher,
           CheckStop, TakeQueue, OnLogEntry
<1>. QED BY <1>1, TypeStep, RingStep, FifoStep DEF RingOK

\* At first nothing is logged, queued or replayed.
LEMMA InitReplayInv ==
    ASSUME InitReplay, Separate(script)
    PROVE  ReplayInv
<1>. USE DEF InitReplay
<1>1. RingOK
    BY InitInv DEF RingOK
<1>2. ReplayTypes
    BY DEF ReplayTypes
<1>3. ScriptInv
  <2>1. \A s \in Sessions : ~Busy(s)
      BY Zenon DEF Init, Busy
  <2>2. ASSUME NEW s \in Sessions, NEW u \in Sessions, NEW c \in Names, Owns(s, c), Owns(u, c)
        PROVE  s = u
      BY <2>1, <2>2, SMT, Z3 DEF Owns, Separate
  <2>. QED BY <2>2, Zenon DEF ScriptInv, Ready, Separate
<1>4. HandleInv /\ LineInv
    BY SMT, Z3 DEF Init, HandleInv, LineInv, Busy
<1>5. LoggedInv
    BY SMT, Z3 DEF Init, LoggedInv, InOrder
<1>6. QueuesInv
    BY DEF Init, QueuesInv, Replayed
<1>7. ReplicaInv
    BY SMT, Z3 DEF Init, ReplicaInv, CopyOK, Replayed
<1>. QED BY <1>1, <1>2, <1>3, <1>4, <1>5, <1>6, <1>7 DEF ReplayInv, SessionInv

-----------------------------------------------------------------------------
(* The sessions. *)

\* What ScriptInv says of the commands of a session.
LEMMA CommandFacts ==
    ASSUME ReplayInv, NEW s \in Sessions
    PROVE  /\ script[s] \in Seq(Command)
           /\ \A i \in DOMAIN script[s] : script[s][i] \in Command /\ script[s][i].name \in Names
<1>1. script[s] \in Seq(Command)
    BY DEF ReplayInv, RingOK, TypeOK
<1>2. \A i \in DOMAIN script[s] : script[s][i] \in Command
    BY <1>1
<1>. QED BY <1>1, <1>2 DEF Command

\* What LoggedInv says of a line of the log.
LEMMA LoggedFacts ==
    ASSUME ReplayInv, NEW i \in DOMAIN logged
    PROVE  /\ LoggedOK(i) /\ Proper(logged[i]) /\ logged[i].name \in Names
           /\ logged[i] \in Line /\ logged[i].n \in Nat
<1>1. LoggedOK(i) /\ Proper(logged[i])
    BY Zenon DEF ReplayInv, SessionInv, LoggedInv, LoggedOK
<1>2. logged \in Seq(Line)
    BY Zenon DEF ReplayInv, RingOK, TypeOK
<1>3. logged[i] \in Line
    BY <1>2
<1>4. logged[i].n \in Nat
    BY <1>3, Zenon DEF Line
<1>5. logged[i].name \in Names
    BY <1>1, Zenon DEF Proper
<1>. QED BY <1>1, <1>3, <1>4, <1>5

\* The changes made and replayed are sequences.
LEMMA ChangesType ==
    ASSUME ReplayInv, NEW d \in Names
    PROVE  /\ applied[d] \in Seq(Nat) /\ Len(applied[d]) \in Nat
           /\ replica[d] \in Seq(Nat) /\ Len(replica[d]) \in Nat
<1>1. applied \in [Names -> Seq(Nat)] /\ replica \in [Names -> Seq(Nat)]
    BY Zenon DEF ReplayInv, RingOK, TypeOK, ReplayTypes
<1>. QED BY <1>1

\* And so are the queues.
LEMMA QueuesType ==
    ASSUME ReplayInv
    PROVE  /\ position \in 0 .. Len(file) /\ Replayed \in Nat
           /\ file \in Seq(Line) /\ Len(file) \in Nat
           /\ logQueue \in Seq(Line) /\ localLogQueue \in Seq(Line)
<1>1. /\ position \in 0 .. Len(file) /\ Replayed \in Nat /\ file \in Seq(Line)
      /\ logQueue \in Seq(Line) /\ localLogQueue \in Seq(Line)
    BY Zenon DEF ReplayInv, QueuesInv, ReplayTypes, RingOK, TypeOK
<1>. QED BY <1>1

\* Apply: a session takes its next command, on a container that is its own.
LEMMA ApplyFacts ==
    ASSUME ReplayInv, NEW s \in Sessions, Apply(s)
    PROVE  \E c \in Names \ MetaNames, op \in {"open", "change", "group"} :
              /\ script[s][1] = [op |-> op, name |-> c] /\ 1 \in DOMAIN script[s]
              /\ pc[s] = "idle" /\ pc' = [pc EXCEPT ![s] = "handle"]
              /\ line' = [line EXCEPT ![s] = [kind |-> op, handle |-> 0, name |-> c,
                                              n |-> Len(applied[c]) + 1]]
              /\ applied' = IF op = "change"
                            THEN [applied EXCEPT ![c] = Append(@, Len(applied[c]) + 1)]
                            ELSE applied
              /\ op # "open" => handles[c] # 0
              /\ \A u \in Sessions \ {s} : ~Owns(u, c)
<1>. USE DEF ReplayInv, RingOK, SessionInv
<1>1. script[s] \in Seq(Command) /\ script[s] # <<>> /\ pc[s] = "idle"
    BY CommandFacts DEF Apply
<1>2. 1 \in DOMAIN script[s] /\ Head(script[s]) = script[s][1] /\ 1 .. 1 - 1 = {}
    BY <1>1
<1>3. PICK k \in Command : k = script[s][1]
    BY <1>2, CommandFacts
<1>4. PICK c \in Names, op \in Ops : c = k.name /\ op = k.op /\ k = [op |-> op, name |-> c]
    BY Zenon DEF Command
<1>5. op # "textChange" /\ c \notin MetaNames /\ (op # "open" => handles[c] # 0)
  <2>1. /\ script[s][1].op # "textChange" /\ script[s][1].name \notin MetaNames
        /\ script[s][1].op # "open" =>
                \/ handles[script[s][1].name] # 0
                \/ \E j \in 1 .. 1 - 1 : script[s][j] = OpenOf(script[s][1].name)
      BY <1>1, <1>2, Zenon DEF ScriptInv, Ready
  <2>. QED BY <1>2, <1>3, <1>4, <2>1
<1>6. Owns(s, c)
    BY <1>2, <1>3, <1>4 DEF Owns
<1>7. \A u \in Sessions \ {s} : ~Owns(u, c)
    BY <1>6, <1>4 DEF ScriptInv
<1>8. op \in {"open", "change", "group"}
    BY <1>4, <1>5 DEF Ops
<1>9. Head(script[s]) = k /\ k.op = op /\ k.name = c
    BY <1>2, <1>3, <1>4
<1>10. /\ pc' = [pc EXCEPT ![s] = "handle"]
       /\ line' = [line EXCEPT ![s] = [kind |-> op, handle |-> 0, name |-> c,
                                       n |-> Len(applied[c]) + 1]]
       /\ applied' = IF op = "change"
                     THEN [applied EXCEPT ![c] = Append(@, Len(applied[c]) + 1)]
                     ELSE applied
    BY <1>8, <1>9, Zenon DEF Apply, Goto
<1>11. c \in Names \ MetaNames /\ script[s][1] = [op |-> op, name |-> c]
    BY <1>3, <1>4, <1>5, Zenon
<1>. QED BY <1>1, <1>2, <1>5, <1>7, <1>8, <1>10, <1>11, Zenon

LEMMA ApplyScript ==
    ASSUME ReplayInv, NEW s \in Sessions, Apply(s)
    PROVE  ScriptInv'
<1>. USE DEF ReplayInv, RingOK, SessionInv
<1>1. PICK c \in Names \ MetaNames, op \in {"open", "change", "group"} :
              /\ script[s][1] = [op |-> op, name |-> c] /\ 1 \in DOMAIN script[s]
              /\ pc[s] = "idle" /\ pc' = [pc EXCEPT ![s] = "handle"]
              /\ line' = [line EXCEPT ![s] = [kind |-> op, handle |-> 0, name |-> c,
                                              n |-> Len(applied[c]) + 1]]
    BY ApplyFacts, SMTT(30), Z3T(30)
<1>2. /\ pc'[s] = "handle" /\ line'[s].kind = op /\ line'[s].name = c
      /\ \A u \in Sessions \ {s} : pc'[u] = pc[u] /\ line'[u] = line[u] /\ script'[u] = script[u]
    BY <1>1, SMT, Z3 DEF TypeOK, Apply
<1>3. /\ \A i \in DOMAIN script'[s] : i + 1 \in DOMAIN script[s] /\ script'[s][i] = script[s][i + 1]
      /\ \A i \in DOMAIN script[s] : i > 1 => i - 1 \in DOMAIN script'[s] /\ script'[s][i - 1] = script[s][i]
  <2>1. script'[s] = Tail(script[s]) /\ script[s] \in Seq(Command) /\ script[s] # <<>>
      BY CommandFacts DEF Apply, TypeOK
  <2>. QED BY <2>1, SMTT(30), Z3T(30)
<1>4. ASSUME NEW u \in Sessions, NEW d \in Names, Owns(u, d)' PROVE Owns(u, d)
  <2>1. CASE u = s
      BY <1>1, <1>2, <1>3, <1>4, <2>1, SMTT(30), Z3T(30) DEF Owns
  <2>2. CASE u # s
      BY <1>2, <1>4, <2>2 DEF Owns, Busy
  <2>. QED BY <2>1, <2>2, Zenon
<1>5. ASSUME NEW u \in Sessions, NEW i \in DOMAIN script'[u] PROVE Ready(u, i)'
  <2>. UNCHANGED handles
      BY DEF Apply
  <2>1. CASE u # s
    <3>1. script'[u] = script[u] /\ pc'[u] = pc[u] /\ line'[u] = line[u] /\ Ready(u, i)
        BY <1>2, <2>1, Zenon DEF ScriptInv
    <3>. QED BY <3>1, Zenon DEF Ready, Opening
  <2>2. CASE u = s
    <3>1. PICK k \in DOMAIN script[s] : k = i + 1 /\ script'[s][i] = script[s][k] /\ i \in Nat \ {0}
      <4>1. script'[s] \in Seq(Command)
          BY TypeStep, Zenon DEF TypeOK, Next, Session
      <4>. QED BY <1>3, <2>2, <4>1, SMTT(30), Z3T(30)
    <3>2. PICK d : d = script[s][k].name /\ d = script'[s][i].name
        BY <3>1
    <3>3. /\ script[s][k].op # "textChange" /\ d \notin MetaNames
          /\ script[s][k].op # "open" =>
                handles[d] # 0 \/ \E j \in 1 .. k - 1 : script[s][j] = OpenOf(d)
        BY <1>1, <3>2, Zenon DEF ScriptInv, Ready
    <3>4. ASSUME NEW j \in 1 .. k - 1, script[s][j] = OpenOf(d)
          PROVE  Opening(s, d)' \/ \E l \in 1 .. i - 1 : script'[s][l] = OpenOf(d)
      <4>1. CASE j = 1
        <5>1. [op |-> op, name |-> c] = [op |-> "open", name |-> d]
            BY <1>1, <3>4, <4>1, Zenon DEF OpenOf
        <5>2. op = "open" /\ c = d
            BY <5>1
        <5>. QED BY <1>2, <5>2, Zenon DEF Opening
      <4>2. CASE j # 1
        <5>1. j - 1 \in 1 .. i - 1 /\ j \in DOMAIN script[s] /\ j > 1
            BY <3>1, <4>2, CommandFacts, SMT, Z3
        <5>. QED BY <1>3, <3>4, <5>1, Zenon
      <4>. QED BY <4>1, <4>2
    <3>. QED BY <1>2, <2>2, <3>1, <3>2, <3>3, <3>4, ZenonT(30) DEF Ready
  <2>. QED BY <2>1, <2>2, Zenon
<1>. QED BY <1>4, <1>5, Zenon DEF ScriptInv

\* The rest of what holds of the sessions and the log, while a command is applied.
LEMMA ApplyLog ==
    ASSUME ReplayInv, NEW s \in Sessions, Apply(s), UNCHANGED replayVars
    PROVE  HandleInv' /\ LineInv' /\ LoggedInv' /\ ReplicaInv'
<1>. USE DEF ReplayInv, RingOK, SessionInv
<1>1. PICK c \in Names \ MetaNames, op \in {"open", "change", "group"} :
              /\ pc[s] = "idle" /\ pc' = [pc EXCEPT ![s] = "handle"]
              /\ line' = [line EXCEPT ![s] = [kind |-> op, handle |-> 0, name |-> c,
                                              n |-> Len(applied[c]) + 1]]
              /\ applied' = IF op = "change"
                            THEN [applied EXCEPT ![c] = Append(@, Len(applied[c]) + 1)]
                            ELSE applied
              /\ op # "open" => handles[c] # 0
              /\ \A u \in Sessions \ {s} : ~Owns(u, c)
    BY ApplyFacts, Zenon
<1>2. /\ pc'[s] = "handle" /\ line'[s].kind = op /\ line'[s].name = c
      /\ line'[s].n = Len(applied[c]) + 1
      /\ \A u \in Sessions \ {s} : pc'[u] = pc[u] /\ line'[u] = line[u]
    BY <1>1, Zenon DEF TypeOK
<1>3. UNCHANGED <<handles, lastHandle, logged, containers, replica, lost>> /\ Replayed' = Replayed
    BY DEF Apply, ringVars, replayVars, Replayed
<1>4. /\ Len(applied[c]) \in Nat
      /\ \A d \in Names : /\ Len(applied[d]) \in Nat
                          /\ (d = c /\ op = "change") => Len(applied'[d]) = Len(applied[d]) + 1
                          /\ ~(d = c /\ op = "change") => applied'[d] = applied[d]
                          /\ \A i \in DOMAIN applied'[d] : applied'[d][i] = i
  <2>1. \A d \in Names : applied[d] \in Seq(Nat) /\ \A i \in DOMAIN applied[d] : applied[d][i] = i
      BY DEF TypeOK, LoggedInv
  <2>2. op # "change" => applied' = applied
      BY <1>1, Zenon
  <2>3. op = "change" => /\ applied'[c] = Append(applied[c], Len(applied[c]) + 1)
                         /\ \A d \in Names \ {c} : applied'[d] = applied[d]
      BY <1>1 DEF TypeOK
  <2>4. \A q \in Seq(Nat) : /\ Len(Append(q, Len(q) + 1)) = Len(q) + 1
                            /\ \A i \in DOMAIN q : Append(q, Len(q) + 1)[i] = q[i]
                            /\ Append(q, Len(q) + 1)[Len(q) + 1] = Len(q) + 1
                            /\ DOMAIN Append(q, Len(q) + 1) = DOMAIN q \cup {Len(q) + 1}
      BY SMT, Z3
  <2>5. \A d \in Names : Len(applied[d]) \in Nat
      BY <2>1, SMTT(30), Z3T(30)
  <2>6. ASSUME NEW d \in Names
        PROVE  /\ (d = c /\ op = "change") => Len(applied'[d]) = Len(applied[d]) + 1
               /\ ~(d = c /\ op = "change") => applied'[d] = applied[d]
               /\ \A i \in DOMAIN applied'[d] : applied'[d][i] = i
    <3>1. CASE d = c /\ op = "change"
      <4>1. PICK q \in Seq(Nat) : q = applied[d]
          BY <2>1, Zenon
      <4>2. applied'[d] = Append(q, Len(q) + 1)
          BY <2>3, <3>1, <4>1
      <4>3. \A i \in DOMAIN q : q[i] = i
          BY <2>1, <4>1, Zenon
      <4>4. q \in Seq(Nat)
          BY <4>1
      <4>5. \A i \in DOMAIN Append(q, Len(q) + 1) : Append(q, Len(q) + 1)[i] = i
          BY <4>3, <4>4, SMT, Z3
      <4>6. Len(applied'[d]) = Len(applied[d]) + 1
          BY <2>4, <4>1, <4>2, Zenon
      <4>. QED BY <3>1, <4>2, <4>5, <4>6, Zenon
    <3>2. CASE ~(d = c /\ op = "change")
      <4>1. applied'[d] = applied[d]
          BY <2>2, <2>3, <3>2
      <4>. QED BY <2>1, <3>2, <4>1, Zenon
    <3>. QED BY <3>1, <3>2
  <2>. QED BY <2>5, <2>6, Zenon
<1>5. \A d \in Names : Len(applied[d]) <= Len(applied'[d])
    BY <1>4, SMT, Z3
<1>6. HandleInv'
  <2>1. ASSUME NEW d \in Names, NEW u \in Sessions, pc[u] \in {"raw", "advance"}, Opening(u, d)
        PROVE  pc'[u] \in {"raw", "advance"} /\ Opening(u, d)'
    <3>1. u # s
        BY <1>1, <2>1
    <3>. QED BY <1>2, <2>1, <3>1, Zenon DEF Opening
  <2>. QED BY <1>3, <2>1, Zenon DEF HandleInv, Opened
<1>7. LineInv'
  <2>1. LineOK(s)'
    <3>1. \A i \in DOMAIN logged : IsChange(logged[i], c) => logged[i].n < line'[s].n
        BY <1>2, <1>4, SMT, Z3 DEF LoggedInv, LoggedOK, IsChange
    <3>2. Proper(line[s])'
        BY <1>1, <1>2, Zenon DEF Proper
    <3>3. line'[s].kind = "change" => line'[s].n = Len(applied'[c]) /\ line'[s].n > 0
        BY <1>2, <1>4, SMT, Z3
    <3>. QED BY <1>1, <1>2, <1>3, <3>1, <3>2, <3>3, ZenonT(30) DEF LineOK
  <2>2. ASSUME NEW u \in Sessions \ {s}, Busy(u)' PROVE LineOK(u)'
    <3>1. pc'[u] = pc[u] /\ line'[u] = line[u] /\ Busy(u) /\ LineOK(u)
        BY <1>2, <2>2, Zenon DEF Busy, LineInv
    <3>2. line[u].name # c /\ line[u].name \in Names
        BY <1>1, <3>1, Zenon DEF Owns, LineOK, Proper
    <3>3. applied'[line[u].name] = applied[line[u].name]
        BY <1>4, <3>2
    <3>. QED BY <1>3, <3>1, <3>3, Zenon DEF LineOK, Proper
  <2>. QED BY <2>1, <2>2 DEF LineInv
<1>8. LoggedInv'
  <2>1. ASSUME NEW i \in DOMAIN logged PROVE LoggedOK(i)'
    <3>1. LoggedOK(i) /\ logged[i].name \in Names
        BY LoggedFacts, Zenon
    <3>2. logged[i].kind = "change" => logged[i].n \in 1 .. Len(applied'[logged[i].name])
      <4>1. logged[i].kind = "change" => logged[i].n \in 1 .. Len(applied[logged[i].name])
          BY <3>1, Zenon DEF LoggedOK
      <4>2. /\ Len(applied[logged[i].name]) \in Nat /\ Len(applied'[logged[i].name]) \in Nat
            /\ Len(applied[logged[i].name]) <= Len(applied'[logged[i].name])
        <5>1. logged[i].name \in Names
            BY <3>1
        <5>. QED BY <1>4, <5>1, SMT, Z3
      <4>. QED BY <4>1, <4>2, SMTT(30), Z3T(30)
    <3>. QED BY <1>3, <3>1, <3>2, Zenon DEF LoggedOK, Proper, Opened
  <2>2. ASSUME NEW d \in Names PROVE InOrder(d)'
      BY <1>3, Zenon DEF LoggedInv, InOrder
  <2>3. ASSUME NEW d \in Names, NEW n \in 1 .. Len(applied'[d])
        PROVE  InLog(d, n)' \/ (n = Len(applied'[d]) /\ InHand(d)')
    <3>1. \A m : InLog(d, m)' <=> InLog(d, m)
        BY <1>3, Zenon DEF InLog
    <3>2. CASE d = c /\ op = "change"
      <4>1. ~InHand(c)
          BY <1>1, Zenon DEF InHand, Busy, IsChange, Owns
      <4>2. InHand(c)'
          BY <1>2, <3>2, Zenon DEF InHand, Busy, IsChange
      <4>3. CASE n \in 1 .. Len(applied[d])
          BY <3>1, <3>2, <4>1, <4>3 DEF LoggedInv
      <4>4. CASE n \notin 1 .. Len(applied[d])
          BY <1>4, <3>2, <4>2, <4>4, SMTT(30), Z3T(30)
      <4>. QED BY <4>3, <4>4, Zenon
    <3>3. CASE ~(d = c /\ op = "change")
      <4>1. applied'[d] = applied[d]
          BY <1>4, <3>3
      <4>2. InHand(d) => InHand(d)'
        <5>1. ASSUME NEW u \in Sessions, Busy(u), IsChange(line[u], d)
              PROVE  Busy(u)' /\ IsChange(line[u], d)'
          <6>1. u # s
              BY <1>1, <5>1 DEF Busy
          <6>. QED BY <1>2, <5>1, <6>1, Zenon DEF Busy, IsChange
        <5>. QED BY <5>1, Zenon DEF InHand
      <4>. QED BY <3>1, <4>1, <4>2, Zenon DEF LoggedInv
    <3>. QED BY <3>2, <3>3
  <2>. QED BY <1>3, <1>4, <2>1, <2>2, <2>3, Zenon DEF LoggedInv
<1>9. ReplicaInv'
  <2>1. ASSUME NEW d \in Names PROVE CopyOK(d)'
    <3>1. CopyOK(d) /\ Len(replica[d]) \in Nat
        BY SMTT(30), Z3T(30) DEF ReplicaInv, ReplayTypes
    <3>2. Len(replica[d]) <= Len(applied'[d])
        BY <1>4, <1>5, <3>1, SMTT(30), Z3T(30) DEF CopyOK
    <3>. QED BY <1>3, <3>1, <3>2, Zenon DEF CopyOK
  <2>. QED BY <1>3, <2>1, Zenon DEF ReplicaInv
<1>. QED BY <1>6, <1>7, <1>8, <1>9

\* A container belongs to the session that has a line about it in hand.
LEMMA OwnLine ==
    ASSUME ReplayInv, NEW s \in Sessions, NEW u \in Sessions, Busy(s), Busy(u), s # u
    PROVE  line[u].name # line[s].name /\ line[u].name \in Names /\ line[s].name \in Names
<1>1. line[u].name \in Names /\ line[s].name \in Names
    BY DEF ReplayInv, SessionInv, LineInv, LineOK, Proper
<1>. QED BY <1>1, Zenon DEF ReplayInv, SessionInv, ScriptInv, Owns

LEMMA HandleSet ==
    ASSUME NEW l \in Line, NEW h \in Nat, NEW m, m = [l EXCEPT !.handle = h]
    PROVE  m.kind = l.kind /\ m.name = l.name /\ m.n = l.n /\ m.handle = h
BY Zenon DEF Line

\* LogMessage: the container has a handle from now on, a new one if it had none.
LEMMA LogMessageFacts ==
    ASSUME ReplayInv, NEW s \in Sessions, LogMessage(s)
    PROVE  \E c \in Names, h \in Nat \ {0}, p \in {"idle", "raw"} :
              /\ c = line[s].name /\ pc[s] = "handle" /\ Proper(line[s])
              /\ handles' = [handles EXCEPT ![c] = h]
              /\ line' = [line EXCEPT ![s].handle = h]
              /\ pc' = [pc EXCEPT ![s] = p]
              /\ p = "idle" <=> line[s].kind = "open" /\ handles[c] # 0
              /\ \/ handles[c] = h /\ lastHandle' = lastHandle
                 \/ handles[c] = 0 /\ h = lastHandle + 1 /\ lastHandle' = h /\ line[s].kind = "open"
<1>. USE DEF ReplayInv, RingOK, SessionInv
<1>1. pc[s] = "handle" /\ LineOK(s) /\ line[s].name \in Names
    BY Zenon DEF LogMessage, LineInv, Busy, LineOK, Proper
<1>. DEFINE c == line[s].name
            isNew == handles[c] = 0 /\ line[s].kind = "open"
            h == IF isNew THEN lastHandle + 1 ELSE handles[c]
            p == IF line[s].kind = "open" /\ ~isNew THEN "idle" ELSE "raw"
<1>2. h \in Nat \ {0} /\ handles[c] \in Nat
  <2>1. handles \in [Names -> Nat] /\ lastHandle \in Nat
      BY Zenon DEF TypeOK
  <2>2. line[s].kind # "open" => handles[c] # 0
      BY <1>1, Zenon DEF LineOK
  <2>3. handles[c] \in Nat /\ (isNew \/ handles[c] # 0)
      BY <1>1, <2>1, <2>2, Zenon
  <2>4. \A x, y \in Nat : x + 1 \in Nat \ {0} /\ (y # 0 => y \in Nat \ {0})
      OBVIOUS
  <2>. QED BY <2>1, <2>3, <2>4, Zenon
<1>3. p \in {"idle", "raw"} /\ (p = "idle" <=> line[s].kind = "open" /\ handles[c] # 0)
    BY Zenon
<1>4. /\ handles' = [handles EXCEPT ![c] = h]
      /\ line' = [line EXCEPT ![s].handle = h]
      /\ pc' = [pc EXCEPT ![s] = p]
      /\ lastHandle' = IF isNew THEN lastHandle + 1 ELSE lastHandle
    BY Zenon DEF LogMessage, Goto
<1>5. \/ handles[c] = h /\ lastHandle' = lastHandle
      \/ handles[c] = 0 /\ h = lastHandle + 1 /\ lastHandle' = h /\ line[s].kind = "open"
    BY <1>4, Zenon
<1>6. Proper(line[s]) /\ c \in Names
    BY <1>1, Zenon DEF LineOK
<1>. HIDE DEF h, p, isNew
<1>. QED BY <1>1, <1>2, <1>3, <1>4, <1>5, <1>6, Zenon

LEMMA LogMessageStep ==
    ASSUME ReplayInv, NEW s \in Sessions, LogMessage(s), UNCHANGED replayVars
    PROVE  SessionInv' /\ ReplicaInv'
<1>. USE DEF ReplayInv, RingOK, SessionInv
<1>1. PICK c \in Names, h \in Nat \ {0}, p \in {"idle", "raw"} :
              /\ c = line[s].name /\ pc[s] = "handle" /\ Proper(line[s])
              /\ handles' = [handles EXCEPT ![c] = h]
              /\ line' = [line EXCEPT ![s].handle = h]
              /\ pc' = [pc EXCEPT ![s] = p]
              /\ p = "idle" <=> line[s].kind = "open" /\ handles[c] # 0
              /\ \/ handles[c] = h /\ lastHandle' = lastHandle
                 \/ handles[c] = 0 /\ h = lastHandle + 1 /\ lastHandle' = h /\ line[s].kind = "open"
    BY LogMessageFacts, Zenon
<1>2. /\ pc'[s] = p /\ handles'[c] = h
      /\ \A u \in Sessions \ {s} : pc'[u] = pc[u] /\ line'[u] = line[u]
      /\ \A d \in Names \ {c} : handles'[d] = handles[d]
    BY <1>1 DEF TypeOK
<1>3. /\ line'[s].kind = line[s].kind /\ line'[s].name = c /\ line'[s].n = line[s].n
      /\ line'[s].handle = h
  <2>1. line'[s] = [line[s] EXCEPT !.handle = h] /\ line[s] \in Line
      BY <1>1 DEF TypeOK
  <2>2. /\ line'[s].kind = line[s].kind /\ line'[s].name = line[s].name
        /\ line'[s].n = line[s].n /\ line'[s].handle = h
      BY <2>1, HandleSet
  <2>. QED BY <1>1, <2>2
<1>4. UNCHANGED <<script, applied, logged, containers, replica, lost>> /\ Replayed' = Replayed
    BY DEF LogMessage, ringVars, replayVars, Replayed
<1>5. \A d \in Names : handles[d] # 0 => handles'[d] = handles[d]
    BY <1>1, <1>2
<1>6. ScriptInv'
  <2>1. ASSUME NEW u \in Sessions, NEW d \in Names, Owns(u, d)' PROVE Owns(u, d)
    <3>1. Busy(s) /\ line[s].name = c /\ (Busy(u)' => Busy(u)) /\ line'[u].name = line[u].name
        BY <1>1, <1>2, <1>3 DEF Busy
    <3>. QED BY <1>4, <2>1, <3>1, Zenon DEF Owns
  <2>2. ASSUME NEW u \in Sessions, NEW i \in DOMAIN script[u] PROVE Ready(u, i)'
    <3>1. Ready(u, i) /\ script[u][i].name \in Names
        BY CommandFacts, Zenon DEF ScriptInv
    <3>2. handles[script[u][i].name] # 0 => handles'[script[u][i].name] # 0
        BY <1>5, <3>1
    <3>3. CASE u = s
      <4>1. Opening(s, script[u][i].name) => handles'[script[u][i].name] # 0
          BY <1>1, <1>2 DEF Opening
      <4>. QED BY <1>4, <3>1, <3>2, <3>3, <4>1, Zenon DEF Ready
    <3>4. CASE u # s
        BY <1>2, <1>4, <3>1, <3>2, <3>4, Zenon DEF Ready, Opening
    <3>. QED BY <3>3, <3>4
  <2>. QED BY <1>4, <2>1, <2>2, Zenon DEF ScriptInv
<1>7. HandleInv'
  <2>1. \A d \in Names : handles[d] \in Nat /\ handles[d] <= lastHandle /\ lastHandle \in Nat
      BY DEF HandleInv, TypeOK
  <2>2. \A d \in Names : handles'[d] <= lastHandle'
      BY <1>1, <1>2, <2>1, SMT, Z3
  <2>3. ASSUME NEW d \in Names, NEW e \in Names, handles'[d] = handles'[e], handles'[d] # 0
        PROVE  d = e
    <3>1. CASE handles[c] = h
      <4>1. handles' = handles
          BY <1>1, <3>1 DEF TypeOK
      <4>. QED BY <2>3, <4>1, Zenon DEF HandleInv
    <3>2. CASE h = lastHandle + 1
      <4>1. \A x \in Names \ {c} : handles'[x] = handles[x] /\ handles[x] # h
          BY <1>2, <2>1, <3>2, SMT, Z3
      <4>. QED BY <1>2, <2>3, <4>1, ZenonT(30) DEF HandleInv
    <3>. QED BY <1>1, <3>1, <3>2
  <2>4. ASSUME NEW d \in Names, handles'[d] # 0
        PROVE  \/ Opened(d, Len(logged))
               \/ \E u \in Sessions : pc'[u] \in {"raw", "advance"} /\ Opening(u, d)'
    <3>1. CASE handles[d] # 0
      <4>1. ASSUME NEW u \in Sessions, pc[u] \in {"raw", "advance"}, Opening(u, d)
            PROVE  pc'[u] \in {"raw", "advance"} /\ Opening(u, d)'
        <5>1. u # s
            BY <1>1, <4>1
        <5>. QED BY <1>2, <4>1, <5>1, Zenon DEF Opening
      <4>. QED BY <3>1, <4>1, Zenon DEF HandleInv
    <3>2. CASE handles[d] = 0
      <4>1. d = c /\ line[s].kind = "open" /\ p = "raw"
          BY <1>1, <1>2, <2>4, <3>2
      <4>. QED BY <1>2, <1>3, <4>1, Zenon DEF Opening
    <3>. QED BY <3>1, <3>2
  <2>. QED BY <1>4, <2>2, <2>3, <2>4, Zenon DEF HandleInv, Opened
<1>8. LineInv'
  <2>1. ASSUME Busy(s)' PROVE LineOK(s)'
    <3>1. LineOK(s) /\ Proper(line[s])'
        BY <1>1, <1>3 DEF LineInv, Busy, Proper
    <3>. QED BY <1>1, <1>2, <1>3, <1>4, <3>1, ZenonT(30) DEF LineOK
  <2>2. ASSUME NEW u \in Sessions \ {s}, Busy(u)' PROVE LineOK(u)'
    <3>1. pc'[u] = pc[u] /\ line'[u] = line[u] /\ Busy(u) /\ LineOK(u)
        BY <1>2, <2>2, Zenon DEF Busy, LineInv
    <3>2. line[u].name \in Names \ {c}
        BY <1>1, <3>1, OwnLine DEF Busy
    <3>3. handles'[line[u].name] = handles[line[u].name]
        BY <1>2, <3>2
    <3>. QED BY <1>4, <3>1, <3>3, Zenon DEF LineOK, Proper
  <2>. QED BY <2>1, <2>2 DEF LineInv
<1>9. LoggedInv'
  <2>1. ASSUME NEW i \in DOMAIN logged PROVE LoggedOK(i)'
    <3>1. LoggedOK(i) /\ logged[i].name \in Names
        BY LoggedFacts, Zenon
    <3>2. handles'[logged[i].name] = handles[logged[i].name]
        BY <1>5, <3>1 DEF LoggedOK
    <3>. QED BY <1>4, <3>1, <3>2, Zenon DEF LoggedOK, Proper, Opened
  <2>2. ASSUME NEW d \in Names PROVE InOrder(d)'
      BY <1>4, Zenon DEF LoggedInv, InOrder
  <2>3. ASSUME NEW d \in Names, InHand(d) PROVE InHand(d)'
    <3>1. PICK u \in Sessions : Busy(u) /\ IsChange(line[u], d)
        BY <2>3 DEF InHand
    <3>2. line'[u].kind = line[u].kind /\ line'[u].name = line[u].name
        BY <1>1, <1>2, <1>3
    <3>3. Busy(u)'
        BY <1>1, <1>2, <3>1 DEF Busy, IsChange
    <3>. QED BY <3>1, <3>2, <3>3, Zenon DEF InHand, IsChange
  <2>. QED BY <1>4, <2>1, <2>2, <2>3, Zenon DEF LoggedInv, InLog
<1>10. ReplicaInv'
  <2>1. \A d \in Names : CopyOK(d)'
      BY <1>4, Zenon DEF ReplicaInv, CopyOK
  <2>2. \A g \in DOMAIN containers : containers[g] \in Names /\ handles'[containers[g]] = g /\ g # 0
      BY <1>5 DEF ReplicaInv
  <2>. QED BY <1>4, <2>1, <2>2, Zenon DEF ReplicaInv
<1>. QED BY <1>6, <1>7, <1>8, <1>9, <1>10

\* The replay has read no more than the file has.
LEMMA ReplayedBound ==
    ASSUME ReplayInv
    PROVE  /\ Len(logged) \in Nat /\ DOMAIN logged = 1 .. Len(logged)
           /\ Len(file) \in Nat /\ Len(file) <= Len(logged)
           /\ Replayed \in Nat /\ Replayed <= Len(file)
<1>. USE DEF ReplayInv, RingOK
<1>1. Len(logged) \in Nat /\ DOMAIN logged = 1 .. Len(logged) /\ Len(file) \in Nat
    BY SMT, Z3 DEF TypeOK
<1>2. Len(file) <= Len(logged)
  <2>1. Len(file) # 0 => Len(file) \in 1 .. Len(logged)
      BY <1>1, SMT, Z3 DEF LogIsFifo
  <2>. QED BY <1>1, <2>1
<1>3. Len(logQueue) \in Nat /\ Len(localLogQueue) \in Nat
    BY DEF ReplayTypes
<1>4. Replayed \in Nat /\ position \in 0 .. Len(file)
    BY DEF QueuesInv
<1>. QED BY <1>1, <1>2, <1>3, <1>4 DEF Replayed

\* RawLog: the line is in its slot, and still in hand.
LEMMA RawLogStep ==
    ASSUME ReplayInv, NEW s \in Sessions, RawLog(s), UNCHANGED replayVars
    PROVE  SessionInv' /\ ReplicaInv'
<1>. USE DEF ReplayInv, RingOK, SessionInv
<1>1. /\ pc[s] = "raw" /\ pc'[s] = "advance"
      /\ \A u \in Sessions \ {s} : pc'[u] = pc[u]
    BY Zenon DEF RawLog, Goto, TypeOK
<1>2. /\ UNCHANGED <<script, line, applied, handles, lastHandle, logged, containers, replica, lost>>
      /\ Replayed' = Replayed
    BY Zenon DEF RawLog, replayVars, Replayed
<1>3. \A u \in Sessions : /\ Busy(u)' = Busy(u)
                          /\ pc'[u] = "handle" <=> pc[u] = "handle"
                          /\ pc[u] \in {"raw", "advance"} => pc'[u] \in {"raw", "advance"}
    BY <1>1 DEF Busy
<1>4. ScriptInv'
  <2>1. \A u \in Sessions, d \in Names : Owns(u, d)' => Owns(u, d)
      BY <1>2, <1>3, Zenon DEF Owns
  <2>2. ASSUME NEW u \in Sessions, NEW i \in DOMAIN script[u] PROVE Ready(u, i)'
      BY <1>2, <1>3, Zenon DEF ScriptInv, Ready, Opening
  <2>. QED BY <1>2, <2>1, <2>2, Zenon DEF ScriptInv
<1>5. HandleInv'
  <2>1. \A u \in Sessions, d \in Names : Opening(u, d)' = Opening(u, d)
      BY <1>2, Zenon DEF Opening
  <2>2. \A d \in Names : Opened(d, Len(logged))' = Opened(d, Len(logged))
      BY <1>2, Zenon DEF Opened
  <2>. QED BY <1>2, <1>3, <2>1, <2>2, Zenon DEF HandleInv
<1>6. LineInv'
  <2>1. ASSUME NEW u \in Sessions, Busy(u)' PROVE LineOK(u)'
    <3>1. Busy(u) /\ LineOK(u)
        BY <1>3, <2>1, Zenon DEF LineInv
    <3>. QED BY <1>2, <1>3, <3>1, Zenon DEF LineOK, Proper, IsChange
  <2>. QED BY <2>1 DEF LineInv
<1>7. LoggedInv'
  <2>1. \A d \in Names : InHand(d)' = InHand(d)
      BY <1>2, <1>3, Zenon DEF InHand, IsChange
  <2>2. \A i \in DOMAIN logged : LoggedOK(i)' = LoggedOK(i)
      BY <1>2, Zenon DEF LoggedOK, Proper, Opened
  <2>3. \A d \in Names : InOrder(d)' = InOrder(d)
      BY <1>2, Zenon DEF InOrder, IsChange
  <2>4. \A d \in Names, n \in Nat : InLog(d, n)' = InLog(d, n)
      BY <1>2, Zenon DEF InLog, IsChange
  <2>5. \A d \in Names : \A n \in 1 .. Len(applied[d]) : n \in Nat
      BY SMT, Z3 DEF TypeOK
  <2>. QED BY <1>2, <2>1, <2>2, <2>3, <2>4, <2>5, Zenon DEF LoggedInv
<1>8. ReplicaInv'
    BY <1>2, Zenon DEF ReplicaInv, CopyOK, IsChange
<1>. QED BY <1>4, <1>5, <1>6, <1>7, <1>8, Zenon

\* AdvanceHead: the line is the last one of the log.
LEMMA AdvanceHeadStep ==
    ASSUME ReplayInv, NEW s \in Sessions, AdvanceHead(s), UNCHANGED replayVars
    PROVE  SessionInv' /\ ReplicaInv'
<1>. USE DEF ReplayInv, RingOK, SessionInv
<1>c. PICK c : c = line[s].name
    OBVIOUS
<1>k. PICK k : k = Len(logged) + 1
    OBVIOUS
<1>1. /\ pc[s] = "advance" /\ pc'[s] = "idle"
      /\ \A u \in Sessions \ {s} : pc'[u] = pc[u]
    BY DEF AdvanceHead, Goto, TypeOK
<1>2. /\ UNCHANGED <<script, line, applied, handles, lastHandle, containers, replica, lost>>
      /\ Replayed' = Replayed
    BY Zenon DEF AdvanceHead, replayVars, Replayed
<1>3. /\ DOMAIN logged' = DOMAIN logged \cup {k} /\ k \notin DOMAIN logged
      /\ Len(logged') = k /\ k \in Nat
      /\ logged'[k] = line[s] /\ \A i \in DOMAIN logged : logged'[i] = logged[i]
    BY <1>k, SMTT(30), Z3T(30) DEF AdvanceHead, TypeOK
<1>4. /\ \A u \in Sessions : Busy(u)' <=> Busy(u) /\ u # s
      /\ Busy(s) /\ LineOK(s) /\ c \in Names
    BY <1>1, <1>c, Zenon DEF Busy, LineInv, LineOK, Proper
<1>5. \A i \in DOMAIN logged : i \in Nat /\ i < k /\ i - 1 <= Len(logged)
    BY <1>k, ReplayedBound
<1>6. \A d \in Names, j \in Nat : j <= Len(logged) /\ Opened(d, j) => Opened(d, j)'
  <2>1. \A j \in Nat : j <= Len(logged) => \A i \in 1 .. j : i \in DOMAIN logged
      BY ReplayedBound
  <2>. QED BY <1>3, <2>1, Zenon DEF Opened
<1>7. \A u \in Sessions \ {s} : Busy(u) => line[u].name # c
    BY <1>4, <1>c, OwnLine
<1>8. ScriptInv'
  <2>1. \A u \in Sessions, d \in Names : Owns(u, d)' => Owns(u, d)
      BY <1>2, <1>4, Zenon DEF Owns
  <2>2. ASSUME NEW u \in Sessions, NEW i \in DOMAIN script[u] PROVE Ready(u, i)'
    <3>1. pc[u] = "handle" => pc'[u] = "handle"
        BY <1>1, Zenon
    <3>. QED BY <1>2, <3>1, Zenon DEF ScriptInv, Ready, Opening
  <2>. QED BY <1>2, <2>1, <2>2, Zenon DEF ScriptInv
<1>9. HandleInv'
  <2>1. ASSUME NEW d \in Names, handles[d] # 0
        PROVE  \/ Opened(d, Len(logged))'
               \/ \E u \in Sessions : pc'[u] \in {"raw", "advance"} /\ Opening(u, d)'
    <3>1. CASE Opened(d, Len(logged))
      <4>1. PICK i \in 1 .. Len(logged) : logged[i].kind = "open" /\ logged[i].name = d
          BY <3>1, Zenon DEF Opened
      <4>2. i \in 1 .. Len(logged') /\ logged'[i] = logged[i]
          BY <1>k, <1>3, <4>1, ReplayedBound, SMT, Z3
      <4>. QED BY <4>1, <4>2, Zenon DEF Opened
    <3>2. ASSUME NEW u \in Sessions, pc[u] \in {"raw", "advance"}, Opening(u, d)
          PROVE  \/ Opened(d, Len(logged))'
                 \/ pc'[u] \in {"raw", "advance"} /\ Opening(u, d)'
      <4>1. CASE u = s
        <5>1. k \in 1 .. Len(logged') /\ logged'[k].kind = "open" /\ logged'[k].name = d
            BY <1>k, <1>3, <3>2, <4>1, ReplayedBound, SMT, Z3 DEF Opening
        <5>. QED BY <5>1, ZenonT(30) DEF Opened
      <4>2. CASE u # s
          BY <1>1, <1>2, <3>2, <4>2, Zenon DEF Opening
      <4>. QED BY <4>1, <4>2
    <3>. QED BY <2>1, <3>1, <3>2, Zenon DEF HandleInv
  <2>. QED BY <1>2, <2>1, Zenon DEF HandleInv
<1>10. LineInv'
  <2>1. ASSUME NEW u \in Sessions, Busy(u)' PROVE LineOK(u)'
    <3>1. Busy(u) /\ LineOK(u) /\ u \in Sessions \ {s}
        BY <1>4, <2>1, Zenon DEF LineInv
    <3>2. pc'[u] = pc[u] /\ line[u].name # line[s].name
        BY <1>c, <1>1, <1>7, <3>1, Zenon
    <3>3. \A i \in DOMAIN logged' : IsChange(logged'[i], line[u].name) =>
              i \in DOMAIN logged /\ logged'[i] = logged[i]
        BY <1>3, <3>2, Zenon DEF IsChange
    <3>. QED BY <1>2, <3>1, <3>2, <3>3, Zenon DEF LineOK, Proper, IsChange
  <2>. QED BY <2>1 DEF LineInv
<1>11. LoggedInv'
  <2>1. ASSUME NEW i \in DOMAIN logged PROVE LoggedOK(i)'
    <3>1. LoggedOK(i) /\ logged'[i] = logged[i] /\ logged[i].name \in Names
        BY <1>3, LoggedFacts
    <3>2. Opened(logged[i].name, i - 1) => Opened(logged[i].name, i - 1)'
      <4>1. i - 1 \in Nat /\ i - 1 <= Len(logged)
          BY ReplayedBound
      <4>. QED BY <1>6, <3>1, <4>1, Zenon
    <3>. QED BY <1>2, <3>1, <3>2, ZenonT(30) DEF LoggedOK, Proper, Opened
  <2>2. LoggedOK(k)'
    <3>1. line[s].kind # "open" => Opened(c, Len(logged))
      <4>1. ASSUME NEW u \in Sessions, pc[u] \in {"raw", "advance"}, Opening(u, c),
                   line[s].kind # "open"
            PROVE  FALSE
        <5>1. Busy(u) /\ u # s
            BY <4>1 DEF Busy, Opening
        <5>. QED BY <1>7, <4>1, <5>1, Zenon DEF Opening
      <4>. QED BY <1>c, <1>4, <4>1, Zenon DEF HandleInv, LineOK
    <3>2. k - 1 = Len(logged)
        BY <1>k, ReplayedBound, SMTT(30), Z3T(30)
    <3>3. line[s].kind # "open" => Opened(c, k - 1)'
        BY <1>4, <1>6, <3>1, <3>2, ReplayedBound, SMT, Z3
    <3>4. line[s].kind = "change" => line[s].n \in 1 .. Len(applied[c])
      <4>1. line[s].kind = "change" => line[s].n = Len(applied[c]) /\ line[s].n > 0
          BY <1>c, <1>4, Zenon DEF LineOK
      <4>2. Len(applied[c]) \in Nat
          BY <1>4, ChangesType, Zenon
      <4>. QED BY <4>1, <4>2, SMT, Z3
    <3>5. Proper(line[s]) /\ line[s].handle = handles[c] /\ line[s].handle # 0
        BY <1>c, <1>1, <1>4, Zenon DEF LineOK
    <3>6. logged'[k] = line[s] /\ line[s].name = c
        BY <1>c, <1>3
    <3>. QED BY <1>2, <3>3, <3>4, <3>5, <3>6, Zenon DEF LoggedOK, Proper
  <2>3. ASSUME NEW d \in Names PROVE InOrder(d)'
    <3>1. ASSUME NEW i \in DOMAIN logged', NEW j \in DOMAIN logged', i < j,
                 IsChange(logged'[i], d), IsChange(logged'[j], d)
          PROVE  logged'[i].n < logged'[j].n
      <4>1. i \in DOMAIN logged
          BY <1>3, <1>5, <3>1, SMT, Z3
      <4>2. CASE j \in DOMAIN logged
          BY <1>3, <3>1, <4>1, <4>2, Zenon DEF LoggedInv, InOrder
      <4>3. CASE j = k
          BY <1>3, <1>4, <3>1, <4>1, <4>3, Zenon DEF LineOK, IsChange
      <4>. QED BY <1>3, <4>2, <4>3, Zenon
    <3>. QED BY <3>1, Zenon DEF InOrder
  <2>4. ASSUME NEW d \in Names, NEW n \in 1 .. Len(applied[d])
        PROVE  InLog(d, n)' \/ (n = Len(applied[d]) /\ InHand(d)')
    <3>1. CASE InLog(d, n)
        BY <1>3, <3>1, Zenon DEF InLog, IsChange
    <3>2. ASSUME NEW u \in Sessions, Busy(u), IsChange(line[u], d), n = Len(applied[d])
          PROVE  InLog(d, n)' \/ InHand(d)'
      <4>1. CASE u = s
          BY <1>3, <1>4, <3>2, <4>1, Zenon DEF InLog, IsChange, LineOK
      <4>2. CASE u # s
          BY <1>2, <1>4, <3>2, <4>2, Zenon DEF InHand, IsChange
      <4>. QED BY <4>1, <4>2
    <3>. QED BY <3>1, <3>2, Zenon DEF LoggedInv, InHand
  <2>. QED BY <1>2, <1>3, <2>1, <2>2, <2>3, <2>4, Zenon DEF LoggedInv
<1>12. ReplicaInv'
  <2>1. Replayed < k /\ \A i \in 1 .. Replayed : logged'[i] = logged[i]
      BY <1>k, <1>3, ReplayedBound, SMT, Z3
  <2>2. ASSUME NEW d \in Names PROVE CopyOK(d)'
    <3>. USE DEF ReplicaInv
    <3>1. IsChange(line[s], d) => ~(line[s].n <= Len(replica[d])) /\ ~(k <= Replayed)
      <4>0. ~(k <= Replayed)
        <5>1. k \in Nat /\ Replayed \in Nat
            BY <1>k, ReplayedBound, SMT, Z3
        <5>2. \A x, y \in Nat : x < y => ~(y <= x)
            BY SMT, Z3
        <5>. QED BY <2>1, <5>1, <5>2, Zenon
      <4>1. SUFFICES ASSUME IsChange(line[s], d) PROVE ~(line[s].n <= Len(replica[d]))
          BY <4>0, ZenonT(30)
      <4>2. /\ line[s].n \in Nat /\ line[s].n > 0 /\ replica[d] \in Seq(Nat)
            /\ \A i \in DOMAIN logged : IsChange(logged[i], d) => logged[i].n < line[s].n
        <5>1. /\ line[s].n = Len(applied[d]) /\ line[s].n > 0
              /\ \A i \in DOMAIN logged : IsChange(logged[i], d) => logged[i].n < line[s].n
            BY <1>4, <4>1, Zenon DEF LineOK, IsChange
        <5>. QED BY <5>1, ChangesType, Zenon
      <4>3. CASE replica[d] = <<>>
        <5>1. \A n \in Nat : n > 0 => ~(n <= Len(<<>>))
            BY SMTT(30), Z3T(30)
        <5>. QED BY <4>2, <4>3, <5>1, Zenon
      <4>4. CASE replica[d] # <<>>
        <5>1. PICK i \in DOMAIN logged : IsChange(logged[i], d) /\ logged[i].n = Len(replica[d])
            BY <4>4, Zenon DEF CopyOK
        <5>2. Len(replica[d]) < line[s].n
            BY <4>2, <5>1, Zenon
        <5>. QED BY <4>2, <5>2, SMTT(30), Z3T(30)
      <4>. QED BY <4>3, <4>4, Zenon
    <3>2. \A i \in DOMAIN logged : IsChange(logged[i], d) => (logged[i].n <= Len(replica[d]) <=> i <= Replayed)
        BY Zenon DEF CopyOK
    <3>3. \A i \in DOMAIN logged' : IsChange(logged'[i], d) => (logged'[i].n <= Len(replica[d]) <=> i <= Replayed)
        BY <1>3, <3>1, <3>2, Zenon
    <3>4. replica[d] # <<>> =>
            \E i \in DOMAIN logged' : IsChange(logged'[i], d) /\ logged'[i].n = Len(replica[d])
      <4>1. ASSUME NEW i \in DOMAIN logged, IsChange(logged[i], d), logged[i].n = Len(replica[d])
            PROVE  i \in DOMAIN logged' /\ IsChange(logged'[i], d) /\ logged'[i].n = Len(replica[d])
          BY <1>3, <4>1, Zenon
      <4>. QED BY <4>1, Zenon DEF CopyOK
    <3>. QED BY <1>2, <3>3, <3>4, Zenon DEF CopyOK, IsChange
  <2>. QED BY <1>2, <2>1, <2>2, Zenon DEF ReplicaInv
<1>. QED BY <1>8, <1>9, <1>10, <1>11, <1>12, Zenon

\* The steps that leave the sessions, or the tool's copies, alone.
LEMMA SessionKept ==
    ASSUME SessionInv, UNCHANGED <<sessionVars, logged>>
    PROVE  SessionInv'
<1>. USE DEF SessionInv
<1>1. UNCHANGED <<script, pc, line, applied, handles, lastHandle, logged>>
    BY DEF sessionVars
<1>2. /\ \A s \in Sessions : Busy(s)' = Busy(s)
      /\ \A s \in Sessions, d \in Names : Opening(s, d)' = Opening(s, d) /\ Owns(s, d)' = Owns(s, d)
      /\ \A d \in Names, k \in Nat : Opened(d, k)' = Opened(d, k)
      /\ \A d \in Names : Opened(d, Len(logged))' = Opened(d, Len(logged))
      /\ \A d \in Names : InHand(d)' = InHand(d)
    BY <1>1, Zenon DEF Busy, Opening, Owns, Opened, InHand, IsChange
<1>3. ScriptInv'
  <2>1. \A s \in Sessions : \A i \in DOMAIN script[s] : Ready(s, i)' = Ready(s, i)
      BY <1>1, ZenonT(30) DEF Ready, Opening
  <2>. QED BY <1>1, <1>2, <2>1, Zenon DEF ScriptInv
<1>4. HandleInv'
    BY <1>1, <1>2, Zenon DEF HandleInv
<1>5. LineInv'
  <2>1. \A s \in Sessions : LineOK(s)' = LineOK(s)
      BY <1>1, ZenonT(30) DEF LineOK, Proper, IsChange
  <2>. QED BY <1>2, <2>1, Zenon DEF LineInv
<1>6. LoggedInv'
  <2>1. \A i \in DOMAIN logged : LoggedOK(i)' = LoggedOK(i)
      BY <1>1, Zenon DEF LoggedOK, Proper, Opened
  <2>2. \A d \in Names : InOrder(d)' = InOrder(d) /\ \A n : InLog(d, n)' = InLog(d, n)
      BY <1>1, Zenon DEF InOrder, InLog, IsChange
  <2>. QED BY <1>1, <1>2, <2>1, <2>2, Zenon DEF LoggedInv
<1>. QED BY <1>3, <1>4, <1>5, <1>6

LEMMA ReplicaKept ==
    ASSUME ReplicaInv, UNCHANGED <<sessionVars, logged, containers, replica, lost>>,
           Replayed' = Replayed
    PROVE  ReplicaInv'
<1>1. UNCHANGED <<applied, handles>>
    BY DEF sessionVars
<1>2. \A d \in Names : CopyOK(d)' = CopyOK(d)
    BY <1>1, Zenon DEF CopyOK, IsChange
<1>. QED BY <1>1, <1>2, Zenon DEF ReplicaInv

\* What the tool has read stays where it is in the file.
LEMMA FileGrows ==
    ASSUME ReplayInv, Next, UNCHANGED replayVars
    PROVE  QueuesInv' /\ ReplayTypes'
<1>. USE DEF ReplayInv
<1>1. /\ UNCHANGED <<reader, position, failed, lastMaxOffset, publisher, logQueue, localLogQueue>>
      /\ UNCHANGED replica /\ Replayed' = Replayed
    BY DEF replayVars, Replayed
<1>2. /\ Len(file) \in Nat /\ Len(file') \in Nat /\ Len(file) <= Len(file')
      /\ \A i \in 1 .. Len(file) : file'[i] = file[i]
  <2>1. file \in Seq(Line) /\ rawLogQueue[tail] \in Line
      BY SizeOfRing DEF RingOK, TypeOK
  <2>2. file' = file \/ file' = Append(file, rawLogQueue[tail])
      BY Zenon DEF Next, Session, Writer, Apply, LogMessage, RawLog, AdvanceHead, WriteLine,
                   ClearSlot, AdvanceTail, FlushMetadata, fileVars
  <2>. QED BY <2>1, <2>2, SMT, Z3
<1>3. /\ position \in 0 .. Len(file) /\ Replayed \in Nat
      /\ logQueue \in Seq(Line) /\ localLogQueue \in Seq(Line)
    BY QueuesType
<1>4. \A i \in DOMAIN localLogQueue : file'[Replayed + i] = file[Replayed + i]
  <2>1. \A i \in DOMAIN localLogQueue : Replayed + i \in 1 .. Len(file)
      BY <1>2, <1>3, SMT, Z3 DEF Replayed
  <2>. QED BY <1>2, <2>1
<1>5. \A i \in DOMAIN logQueue : file'[Replayed + Len(localLogQueue) + i]
                                  = file[Replayed + Len(localLogQueue) + i]
  <2>1. \A i \in DOMAIN logQueue : Replayed + Len(localLogQueue) + i \in 1 .. Len(file)
      BY <1>2, <1>3, SMT, Z3 DEF Replayed
  <2>. QED BY <1>2, <2>1
<1>6. position \in 0 .. Len(file')
    BY <1>2, <1>3, SMT, Z3
<1>7. QueuesInv'
    BY <1>1, <1>4, <1>5, <1>6, Zenon DEF QueuesInv
<1>8. ReplayTypes'
    BY <1>1 DEF ReplayTypes
<1>. QED BY <1>7, <1>8

\* A step of the server.
LEMMA ServerStep ==
    ASSUME ReplayInv, Next, UNCHANGED replayVars
    PROVE  SessionInv' /\ ReplicaInv'
<1>1. ASSUME NEW s \in Sessions, Session(s)
      PROVE  SessionInv' /\ ReplicaInv'
    BY <1>1, ApplyScript, ApplyLog, LogMessageStep, RawLogStep, AdvanceHeadStep, Zenon
       DEF Session, SessionInv
<1>2. CASE Writer
  <2>1. UNCHANGED <<sessionVars, logged>>
      BY <1>2 DEF Writer, WriteLine, ClearSlot, AdvanceTail, FlushMetadata, ringVars
  <2>2. UNCHANGED <<containers, replica, lost>> /\ Replayed' = Replayed
      BY DEF replayVars, Replayed
  <2>. QED BY <2>1, <2>2, SessionKept, ReplicaKept DEF ReplayInv
<1>. QED BY <1>1, <1>2 DEF Next

-----------------------------------------------------------------------------
(* The replay tool. *)

\* Replay seeks to where it is, if it seeks at all.
LEMMA ReaderStep ==
    ASSUME ReplayInv, Reader
    PROVE  QueuesInv' /\ ReplayTypes' /\ SessionInv' /\ ReplicaInv'
<1>. USE DEF ReplayInv
<1>1. UNCHANGED <<sessionVars, logged, file, publisher, localLogQueue, containers, replica, lost>>
    BY DEF Reader, StartReading, ReadLine, EndOfFile, Stop, logVars, ringVars, fileVars
<1>2. /\ position \in 0 .. Len(file) /\ Replayed \in Nat /\ Len(file) \in Nat
      /\ logQueue \in Seq(Line) /\ localLogQueue \in Seq(Line)
    BY QueuesType
<1>3. CASE ReadLine
  <2>1. /\ position' = position + 1 /\ position < Len(file)
        /\ logQueue' = Append(logQueue, file[position + 1]) /\ reader' = "read"
      BY <1>3 DEF ReadLine
  <2>2. file[position + 1] \in Line
    <3>1. position + 1 \in 1 .. Len(file)
        BY <1>2, <2>1
    <3>. QED BY <3>1, QueuesType
  <2>3. /\ logQueue' \in Seq(Line) /\ Len(logQueue') = Len(logQueue) + 1
        /\ DOMAIN logQueue' = DOMAIN logQueue \cup {Len(logQueue) + 1}
        /\ logQueue'[Len(logQueue) + 1] = file[position + 1]
        /\ \A i \in DOMAIN logQueue : logQueue'[i] = logQueue[i]
      BY <1>2, <2>1, <2>2, SMTT(30), Z3T(30)
  <2>4. Replayed' = Replayed /\ position' \in 0 .. Len(file)
      BY <1>1, <1>2, <2>1, <2>3, SMT, Z3 DEF Replayed
  <2>5. Replayed + Len(localLogQueue) + (Len(logQueue) + 1) = position + 1
      BY <1>2 DEF Replayed
  <2>6. \A i \in DOMAIN logQueue' : logQueue'[i] = file[Replayed + Len(localLogQueue) + i]
      BY <2>3, <2>5, Zenon DEF QueuesInv
  <2>7. QueuesInv'
    <3>1. reader' # "top"
        BY <2>1
    <3>. QED BY <1>1, <1>2, <2>4, <2>6, <3>1, Zenon DEF QueuesInv
  <2>. QED BY <1>1, <2>3, <2>4, <2>7, SessionKept, ReplicaKept, Zenon DEF ReplayTypes
<1>4. CASE StartReading \/ EndOfFile \/ Stop
  <2>1. UNCHANGED <<position, logQueue>>
    <3>1. CASE StartReading /\ failed
      <4>1. Offset = lastMaxOffset
          BY <3>1, ZenonT(30) DEF StartReading, Offset, QueuesInv
      <4>. QED BY <3>1, <4>1, Zenon DEF StartReading
    <3>2. CASE StartReading /\ ~failed
        BY <3>2 DEF StartReading, QueuesInv
    <3>3. CASE EndOfFile \/ Stop
        BY <3>3 DEF EndOfFile, Stop
    <3>. QED BY <1>4, <3>1, <3>2, <3>3
  <2>2. Replayed' = Replayed
      BY <1>1, <2>1, Zenon DEF Replayed
  <2>3. reader' = "top" => failed' /\ lastMaxOffset' = -1
      BY <1>4 DEF StartReading, EndOfFile, Stop
  <2>4. QueuesInv'
      BY <1>1, <2>1, <2>2, <2>3, Zenon DEF QueuesInv
  <2>. QED BY <1>1, <2>1, <2>2, <2>4, SessionKept, ReplicaKept DEF ReplayTypes
<1>. QED BY <1>3, <1>4, Zenon DEF Reader

\* PublisherThread takes the queue when it has sent the last of the one before.
LEMMA TakeStep ==
    ASSUME ReplayInv, CheckStop \/ TakeQueue
    PROVE  QueuesInv' /\ ReplayTypes' /\ SessionInv' /\ ReplicaInv'
<1>. USE DEF ReplayInv
<1>1. /\ UNCHANGED <<sessionVars, logged, file, reader, position, failed, lastMaxOffset>>
      /\ UNCHANGED <<containers, replica, lost>>
    BY Zenon DEF CheckStop, TakeQueue, logVars, ringVars, fileVars
<1>2. /\ Replayed \in Nat /\ logQueue \in Seq(Line) /\ localLogQueue = <<>>
    BY Zenon DEF QueuesInv, ReplayTypes, CheckStop, TakeQueue
<1>3. CASE CheckStop
  <2>1. UNCHANGED <<logQueue, localLogQueue>> /\ Replayed' = Replayed
      BY <1>3 DEF CheckStop, Replayed
  <2>2. QueuesInv'
      BY <1>1, <1>2, <2>1, Zenon DEF QueuesInv
  <2>. QED BY <1>1, <2>1, <2>2, SessionKept, ReplicaKept, Zenon DEF ReplayTypes
<1>4. CASE TakeQueue
  <2>1. localLogQueue' = logQueue /\ logQueue' = <<>> /\ publisher' = "send"
      BY <1>4, Zenon DEF TakeQueue
  <2>2. Replayed' = Replayed
      BY <1>1, <1>2, <2>1, SMT, Z3 DEF Replayed, QueuesInv, RingOK, TypeOK
  <2>3. \A i \in DOMAIN logQueue : logQueue[i] = file[Replayed + i]
    <3>1. \A i \in DOMAIN logQueue : Replayed + Len(localLogQueue) + i = Replayed + i
        BY <1>2, SMTT(30), Z3T(30)
    <3>. QED BY <3>1 DEF QueuesInv
  <2>4. QueuesInv'
      BY <1>1, <2>1, <2>2, <2>3, SMTT(30), Z3T(30) DEF QueuesInv
  <2>. QED BY <1>1, <1>2, <2>1, <2>2, <2>4, SessionKept, ReplicaKept, Zenon DEF ReplayTypes
<1>. QED BY <1>3, <1>4, Zenon

\* The entry OnLogEntry has in hand is the first line it has not replayed.
LEMMA EntryFacts ==
    ASSUME ReplayInv, OnLogEntry
    PROVE  /\ Replayed \in Nat /\ Replayed' = Replayed + 1 /\ Replayed + 1 \in DOMAIN logged
           /\ Head(localLogQueue) = logged[Replayed + 1]
           /\ QueuesInv' /\ logQueue' \in Seq(Line) /\ localLogQueue' \in Seq(Line)
<1>. USE DEF ReplayInv
<1>1. /\ localLogQueue \in Seq(Line) /\ localLogQueue # <<>> /\ logQueue \in Seq(Line)
      /\ localLogQueue' = Tail(localLogQueue) /\ publisher' = IF Len(localLogQueue) = 1 THEN "top" ELSE "send"
      /\ UNCHANGED <<file, reader, position, failed, lastMaxOffset, logQueue>>
    BY QueuesType, Zenon DEF OnLogEntry, logVars, fileVars
<1>2. Replayed \in Nat /\ position \in 0 .. Len(file) /\ Len(file) \in Nat
    BY ReplayedBound DEF QueuesInv
<1>3. /\ Len(localLogQueue) \in Nat \ {0} /\ 1 \in DOMAIN localLogQueue
      /\ Head(localLogQueue) = localLogQueue[1]
      /\ localLogQueue' \in Seq(Line) /\ Len(localLogQueue') = Len(localLogQueue) - 1
      /\ \A i \in DOMAIN localLogQueue' : /\ i + 1 \in DOMAIN localLogQueue /\ i \in Nat
                                          /\ localLogQueue'[i] = localLogQueue[i + 1]
    BY <1>1, SMT, Z3
<1>4. Replayed' = Replayed + 1
    BY <1>1, <1>2, <1>3, SMT, Z3 DEF Replayed
<1>5. Replayed + 1 \in 1 .. Len(file)
    BY <1>1, <1>2, <1>3, SMT, Z3 DEF Replayed
<1>6. Head(localLogQueue) = file[Replayed + 1]
    BY <1>3, Zenon DEF QueuesInv
<1>7. file[Replayed + 1] = logged[Replayed + 1] /\ Replayed + 1 \in DOMAIN logged
    BY <1>5, ReplayedBound DEF RingOK, LogIsFifo
<1>8. QueuesInv'
  <2>1. \A i \in DOMAIN localLogQueue' : localLogQueue'[i] = file[Replayed' + i]
    <3>1. \A i \in DOMAIN localLogQueue' : localLogQueue'[i] = file[Replayed + (i + 1)]
        BY <1>3, Zenon DEF QueuesInv
    <3>2. \A i \in DOMAIN localLogQueue' : Replayed + (i + 1) = Replayed' + i
        BY <1>2, <1>3, <1>4, SMTT(30), Z3T(30)
    <3>. QED BY <3>1, <3>2, Zenon
  <2>2. \A i \in DOMAIN logQueue : logQueue[i] = file[Replayed' + Len(localLogQueue') + i]
    <3>1. Replayed' + Len(localLogQueue') = Replayed + Len(localLogQueue)
        BY <1>2, <1>3, <1>4, SMTT(30), Z3T(30)
    <3>. QED BY <3>1, Zenon DEF QueuesInv
  <2>3. publisher' # "send" => localLogQueue' = <<>>
      BY <1>1, <1>3, SMT, Z3
  <2>4. Replayed' \in Nat
      BY <1>2, <1>4, SMTT(30), Z3T(30)
  <2>. QED BY <1>1, <1>2, <2>1, <2>2, <2>3, <2>4, Zenon DEF QueuesInv
<1>. QED BY <1>1, <1>2, <1>3, <1>4, <1>6, <1>7, <1>8

\* It is the change that comes next on its container.
LEMMA NextChange ==
    ASSUME ReplayInv, NEW k \in DOMAIN logged, k = Replayed + 1,
           NEW c \in Names, IsChange(logged[k], c)
    PROVE  logged[k].n = Len(replica[c]) + 1
<1>. USE DEF ReplayInv, SessionInv
<1>1. /\ logged[k].n \in 1 .. Len(applied[c]) /\ Len(applied[c]) \in Nat
      /\ Len(replica[c]) \in Nat /\ logged[k].n \in Nat
  <2>1. logged[k].n \in 1 .. Len(applied[c])
      BY LoggedFacts, Zenon DEF LoggedOK, IsChange
  <2>. QED BY <2>1, ChangesType, LoggedFacts
<1>2. ~(logged[k].n <= Len(replica[c]))
  <2>1. ~(k <= Replayed)
      BY ReplayedBound, SMTT(30), Z3T(30)
  <2>. QED BY <2>1, Zenon DEF ReplicaInv, CopyOK
<1>3. ASSUME Len(replica[c]) + 1 < logged[k].n PROVE FALSE
  <2>1. Len(replica[c]) + 1 \in 1 .. Len(applied[c]) /\ Len(replica[c]) + 1 # Len(applied[c])
      BY <1>1, <1>3, SMTT(30), Z3T(30)
  <2>2. InLog(c, Len(replica[c]) + 1)
      BY <2>1, Zenon DEF LoggedInv
  <2>3. PICK j \in DOMAIN logged : IsChange(logged[j], c) /\ logged[j].n = Len(replica[c]) + 1
      BY <2>2, Zenon DEF InLog
  <2>4. ~(logged[j].n <= Len(replica[c]))
      BY <1>1, <2>3, SMT, Z3
  <2>5. ~(j <= Replayed)
      BY <2>3, <2>4, Zenon DEF ReplicaInv, CopyOK
  <2>6. j # k
      BY <1>3, <1>1, <2>3, SMT, Z3
  <2>7. k < j
      BY <2>5, <2>6, ReplayedBound
  <2>8. logged[k].n < logged[j].n
      BY <2>3, <2>7, Zenon DEF LoggedInv, InOrder
  <2>. QED BY <1>1, <1>3, <2>3, <2>8, SMTT(30), Z3T(30)
<1>. QED BY <1>1, <1>2, <1>3, SMTT(30), Z3T(30)

\* Its container is there, under its handle.
LEMMA EntryFound ==
    ASSUME ReplayInv, NEW k \in DOMAIN logged, k = Replayed + 1, logged[k].kind # "open"
    PROVE  /\ logged[k].handle \in DOMAIN containers
           /\ containers[logged[k].handle] = logged[k].name
<1>. USE DEF ReplayInv, SessionInv
<1>1. /\ LoggedOK(k) /\ logged[k].name \in Names /\ k - 1 = Replayed
  <2>1. k - 1 = Replayed
      BY ReplayedBound, SMTT(30), Z3T(30)
  <2>. QED BY <2>1, LoggedFacts, Zenon
<1>2. PICK i \in 1 .. Replayed : logged[i].kind = "open" /\ logged[i].name = logged[k].name
    BY <1>1, Zenon DEF LoggedOK, Opened
<1>3. i \in DOMAIN logged
    BY ReplayedBound, SMT, Z3
<1>4. logged[i].handle = logged[k].handle
    BY <1>1, <1>2, <1>3, Zenon DEF LoggedInv, LoggedOK
<1>5. logged[k].handle \in DOMAIN containers
    BY <1>2, <1>4 DEF ReplicaInv
<1>6. /\ containers[logged[k].handle] \in Names
      /\ handles[containers[logged[k].handle]] = handles[logged[k].name]
      /\ handles[logged[k].name] # 0
    BY <1>1, <1>5, Zenon DEF ReplicaInv, LoggedOK
<1>. QED BY <1>1, <1>5, <1>6, Zenon DEF HandleInv

LEMMA OnLogEntryStep ==
    ASSUME ReplayInv, OnLogEntry
    PROVE  SessionInv' /\ ReplayTypes' /\ ReplicaInv'
<1>. USE DEF ReplayInv
<1>1. UNCHANGED <<sessionVars, logged>>
    BY Zenon DEF OnLogEntry, logVars, ringVars
<1>2. SessionInv' /\ UNCHANGED <<handles, applied>>
    BY <1>1, SessionKept DEF sessionVars
<1>3. PICK k \in DOMAIN logged : k = Replayed + 1 /\ k \in Nat
    BY EntryFacts
<1>4. PICK e : e = logged[k]
    BY Zenon
<1>5. /\ Head(localLogQueue) = e /\ Replayed' = k /\ Replayed \in Nat
      /\ LoggedOK(k) /\ e \in Line /\ e.name \in Names /\ e.name \notin MetaNames
      /\ e.handle = handles[e.name] /\ e.handle # 0
  <2>1. Head(localLogQueue) = e /\ Replayed' = k /\ Replayed \in Nat
      BY <1>3, <1>4, EntryFacts, Zenon
  <2>2. LoggedOK(k) /\ Proper(e) /\ e \in Line /\ e.name \in Names
      BY <1>4, LoggedFacts
  <2>3. e.name \notin MetaNames /\ e.handle = handles[e.name] /\ e.handle # 0
      BY <1>4, <2>2, Zenon DEF LoggedOK, Proper
  <2>. QED BY <2>1, <2>2, <2>3
<1>6. \A i \in DOMAIN logged : i # k => (i <= Replayed <=> i <= k)
    BY <1>3, <1>5, ReplayedBound, SMT, Z3
<1>7. ASSUME NEW d \in Names, replica'[d] = replica[d], ~IsChange(e, d) PROVE CopyOK(d)'
  <2>1. CopyOK(d)
      BY DEF ReplicaInv
  <2>2. \A i \in DOMAIN logged : IsChange(logged[i], d) => (logged[i].n <= Len(replica[d]) <=> i <= k)
      BY <1>4, <1>6, <1>7, <2>1, Zenon DEF CopyOK
  <2>. QED BY <1>1, <1>2, <1>5, <1>7, <2>1, <2>2, Zenon DEF CopyOK, IsChange
<1>8. ASSUME \A h \in DOMAIN containers : h \in DOMAIN containers',
             e.kind = "open" => e.handle \in DOMAIN containers'
      PROVE  \A i \in 1 .. Replayed' : logged'[i].kind = "open" => logged'[i].handle \in DOMAIN containers'
  <2>1. \A i \in 1 .. Replayed' : i = k \/ i \in 1 .. Replayed
      BY <1>3, <1>5, SMT, Z3
  <2>. QED BY <1>1, <1>4, <1>8, <2>1, Zenon DEF ReplicaInv
<1>9. logQueue' \in Seq(Line) /\ localLogQueue' \in Seq(Line)
    BY EntryFacts, Zenon
<1>10. CASE e.kind = "open"
  <2>1. /\ containers' = [h \in DOMAIN containers \cup {e.handle} |->
                             IF h = e.handle THEN e.name ELSE containers[h]]
        /\ UNCHANGED <<replica, lost>>
      BY <1>5, <1>10, Zenon DEF OnLogEntry
  <2>2. /\ DOMAIN containers' = DOMAIN containers \cup {e.handle}
        /\ \A h \in DOMAIN containers' : containers'[h] = IF h = e.handle THEN e.name ELSE containers[h]
      BY <2>1
  <2>3. \A h \in DOMAIN containers' : containers'[h] \in Names /\ handles[containers'[h]] = h /\ h # 0
      BY <1>5, <2>2, Zenon DEF ReplicaInv
  <2>4. \A d \in Names : CopyOK(d)'
      BY <1>7, <1>10, <2>1, Zenon DEF IsChange
  <2>5. \A i \in 1 .. Replayed' : logged'[i].kind = "open" => logged'[i].handle \in DOMAIN containers'
      BY <1>8, <2>2, Zenon
  <2>6. ReplicaInv'
      BY <1>2, <2>1, <2>3, <2>4, <2>5, Zenon DEF ReplicaInv
  <2>. QED BY <1>2, <1>9, <2>1, <2>6 DEF ReplayTypes
<1>11. CASE e.kind # "open"
  <2>1. e.handle \in DOMAIN containers /\ containers[e.handle] = e.name
      BY <1>3, <1>4, <1>11, EntryFound
  <2>2. /\ ~lost' /\ containers' = containers
        /\ replica' = IF e.kind = "change" THEN [replica EXCEPT ![e.name] = Append(@, e.n)] ELSE replica
    <3>1. IF e.kind = "group" THEN \E h \in DOMAIN containers : containers[h] = e.name
          ELSE e.handle \in DOMAIN containers
        BY <2>1, Zenon
    <3>2. /\ e.kind # "open" /\ containers' = containers
          /\ lost' = (lost \/ FALSE)
          /\ replica' = IF e.kind = "change" THEN [replica EXCEPT ![containers[e.handle]] = Append(@, e.n)]
                        ELSE replica
        BY <1>5, <1>11, <3>1, Zenon DEF OnLogEntry
    <3>3. ~lost'
        BY <3>2, Zenon DEF ReplicaInv
    <3>. QED BY <2>1, <3>2, <3>3, Zenon
  <2>3. \A h \in DOMAIN containers' : containers'[h] \in Names /\ handles[containers'[h]] = h /\ h # 0
      BY <2>2, Zenon DEF ReplicaInv
  <2>4. \A i \in 1 .. Replayed' : logged'[i].kind = "open" => logged'[i].handle \in DOMAIN containers'
      BY <1>8, <1>11, <2>2, Zenon
  <2>5. replica' \in [Names -> Seq(Nat)] /\ \A d \in Names : d # e.name => replica'[d] = replica[d]
    <3>1. replica \in [Names -> Seq(Nat)] /\ e.n \in Nat
        BY <1>5, Zenon DEF ReplayTypes, Line
    <3>2. Append(replica[e.name], e.n) \in Seq(Nat)
        BY <1>5, <3>1, SMT, Z3
    <3>. QED BY <1>5, <2>2, <3>1, <3>2
  <2>6. CopyOK(e.name)'
    <3>1. CASE e.kind # "change"
        BY <1>5, <1>7, <2>2, <3>1, Zenon DEF IsChange
    <3>2. CASE e.kind = "change"
      <4>c. PICK c \in Names : c = e.name
          BY <1>5, Zenon
      <4>1. IsChange(logged[k], c) /\ logged[k].n = Len(replica[c]) + 1
          BY <1>3, <1>4, <3>2, <4>c, NextChange, Zenon DEF IsChange
      <4>2. /\ Len(replica'[c]) = Len(replica[c]) + 1 /\ Len(replica[c]) \in Nat
            /\ replica'[c][Len(replica[c]) + 1] = Len(replica[c]) + 1
            /\ \A i \in DOMAIN replica[c] : replica'[c][i] = replica[c][i]
            /\ DOMAIN replica'[c] = DOMAIN replica[c] \cup {Len(replica[c]) + 1}
        <5>1. replica[c] \in Seq(Nat) /\ replica'[c] = Append(replica[c], Len(replica[c]) + 1)
            BY <1>4, <2>2, <3>2, <4>c, <4>1, Zenon DEF ReplayTypes
        <5>. QED BY <5>1, SMTT(30), Z3T(30)
      <4>3. CopyOK(c) /\ LoggedOK(k) /\ InOrder(c)
          BY <1>5, Zenon DEF ReplicaInv, SessionInv, LoggedInv
      <4>4. \A i \in DOMAIN replica'[c] : replica'[c][i] = i
          BY <4>2, <4>3, ZenonT(30) DEF CopyOK
      <4>5. Len(replica'[c]) <= Len(applied[c])
        <5>1. logged[k].n <= Len(applied[c])
          <6>1. logged[k].n \in 1 .. Len(applied[c])
              BY <4>1, <4>3, Zenon DEF LoggedOK, IsChange
          <6>. QED BY <6>1, SMT, Z3
        <5>. QED BY <4>1, <4>2, <5>1, Zenon
      <4>6. ASSUME NEW i \in DOMAIN logged, IsChange(logged[i], c)
            PROVE  logged[i].n <= Len(replica[c]) + 1 <=> i <= k
        <5>1. logged[i].n \in Nat
            BY LoggedFacts, Zenon
        <5>2. CASE i = k
            BY <4>1, <4>2, <5>2, <1>3, SMTT(30), Z3T(30)
        <5>3. CASE i < k
          <6>1. i <= Replayed
              BY <1>3, <1>5, <5>3, ReplayedBound, SMT, Z3
          <6>2. logged[i].n <= Len(replica[c])
              BY <4>3, <4>6, <6>1, Zenon DEF CopyOK
          <6>. QED BY <1>3, <4>2, <5>1, <5>3, <6>2, ReplayedBound, SMTT(30), Z3T(30)
        <5>4. CASE k < i
          <6>1. Len(replica[c]) + 1 < logged[i].n
              BY <4>1, <4>3, <4>6, <5>4, Zenon DEF InOrder
          <6>. QED BY <1>3, <4>2, <5>1, <5>4, <6>1, ReplayedBound, SMT, Z3
        <5>. QED BY <1>3, <5>2, <5>3, <5>4, ReplayedBound, SMTT(30), Z3T(30)
      <4>7. CopyOK(c)'
        <5>1. \E i \in DOMAIN logged : IsChange(logged[i], c) /\ logged[i].n = Len(replica'[c])
            BY <4>1, <4>2, Zenon
        <5>. QED BY <1>1, <1>2, <1>5, <4>2, <4>4, <4>5, <4>6, <5>1, ZenonT(30) DEF CopyOK, IsChange
      <4>. QED BY <4>c, <4>7, Zenon
    <3>. QED BY <3>1, <3>2
  <2>7. ASSUME NEW d \in Names PROVE CopyOK(d)'
    <3>1. CASE d = e.name
        BY <2>6, <3>1, Zenon
    <3>2. CASE d # e.name
        BY <1>7, <2>5, <3>2, Zenon DEF IsChange
    <3>. QED BY <3>1, <3>2
  <2>8. ReplicaInv'
      BY <1>2, <2>2, <2>3, <2>4, <2>7, Zenon DEF ReplicaInv
  <2>. QED BY <1>2, <1>9, <2>5, <2>8, Zenon DEF ReplayTypes
<1>. QED BY <1>10, <1>11

-----------------------------------------------------------------------------

LEMMA ReplayStep == ReplayInv /\ [NextReplay]_allVars => ReplayInv'
<1>1. SUFFICES ASSUME ReplayInv, [NextReplay]_allVars PROVE ReplayInv'
    OBVIOUS
<1>2. RingOK'
    BY <1>1, RingReplay DEF ReplayInv
<1>3. CASE Next /\ UNCHANGED replayVars
    BY <1>1, <1>2, <1>3, FileGrows, ServerStep DEF ReplayInv
<1>4. CASE Reader
    BY <1>1, <1>2, <1>4, ReaderStep DEF ReplayInv
<1>5. CASE Publisher
    BY <1>1, <1>2, <1>5, TakeStep, EntryFacts, OnLogEntryStep DEF ReplayInv, Publisher
<1>6. CASE UNCHANGED allVars
  <2>1. /\ UNCHANGED <<sessionVars, logged, containers, replica, lost, file, reader, position>>
        /\ UNCHANGED <<failed, lastMaxOffset, publisher, logQueue, localLogQueue>>
        /\ Replayed' = Replayed
      BY <1>6 DEF allVars, logVars, replayVars, ringVars, fileVars, Replayed
  <2>2. QueuesInv' /\ ReplayTypes'
      BY <1>1, <2>1, Zenon DEF ReplayInv, QueuesInv, ReplayTypes
  <2>. QED BY <1>1, <1>2, <2>1, <2>2, SessionKept, ReplicaKept DEF ReplayInv
<1>. QED BY <1>1, <1>3, <1>4, <1>5, <1>6 DEF NextReplay

LEMMA FollowsFromInv == ReplayInv => ReplicaFollows
<1>1. SUFFICES ASSUME ReplayInv, NEW c \in Names
               PROVE  /\ ~lost /\ Len(replica[c]) <= Len(applied[c])
                      /\ \A i \in DOMAIN replica[c] : replica[c][i] = applied[c][i]
    BY ZenonT(30) DEF ReplicaFollows, ReplayInv, ReplicaInv
<1>2. CopyOK(c) /\ ~lost /\ \A i \in DOMAIN applied[c] : applied[c][i] = i
    BY <1>1 DEF ReplayInv, ReplicaInv, SessionInv, LoggedInv
<1>3. replica[c] \in Seq(Nat) /\ applied[c] \in Seq(Nat)
    BY <1>1, Zenon DEF ReplayInv, ReplayTypes, RingOK, TypeOK
<1>4. \A i \in DOMAIN replica[c] : i \in DOMAIN applied[c]
    BY <1>2, <1>3, SMTT(30), Z3T(30) DEF CopyOK
<1>. QED BY <1>2, <1>4, Zenon DEF CopyOK

\* For every size of the ring, any number of sessions, containers and commands: when each
\* container is opened and changed by a session of its own, by the binary protocol, the
\* second server makes the changes of every container in the order of the first, and every
\* entry the replay reads finds the container it is about.  Without the hypothesis it does
\* not: two sessions that change one container may log their lines in the other order.
THEOREM ReplicaIsFollower ==
    (\A x \in Scenarios : Separate(x)) => (SpecReplay => []ReplicaFollows)
<1>1. SUFFICES ASSUME \A x \in Scenarios : Separate(x)
               PROVE  SpecReplay => []ReplicaFollows
    OBVIOUS
<1>2. InitReplay => ReplayInv
    BY <1>1, InitReplayInv, Zenon DEF InitReplay, Init
<1>. QED BY <1>2, ReplayStep, FollowsFromInv, PTL DEF SpecReplay
==============================================================================
