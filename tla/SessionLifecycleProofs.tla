------------------------ MODULE SessionLifecycleProofs ------------------------
(***************************************************************************)
(* The list of sessions is accurate for any number of clients and of io    *)
(* threads, with pauses on any of them, as long as no handler has thrown.  *)
(* ListInv says where a client can be; a step moves one client.            *)
(*                                                                         *)
(* If only servers with one io thread are paused, no handler throws, and a *)
(* paused server is left with one session: PauseInv, on top of ListInv.    *)
(***************************************************************************)
EXTENDS SessionLifecycle, FiniteSetTheorems, TLAPS

listVars == <<status, accepting, acceptPc, sessions, metaSessions, posted, removing, terminated>>

\* The initial state: nobody has connected.
LEMMA InitList == Init => TypeOK /\ ListInv
<1>. SUFFICES ASSUME Init PROVE TypeOK /\ ListInv
    OBVIOUS
<1>1. TypeOK
    BY Zenon DEF Init, TypeOK
<1>2. IsFiniteSet(removing)
    BY FS_EmptySet DEF Init
<1>3. \A c \in Clients : WellPlaced(c)
    BY LifecycleAssumption DEF Init, WellPlaced
<1>. QED BY <1>1, <1>2, <1>3 DEF ListInv

-----------------------------------------------------------------------------

\* Type correctness, action by action.
LEMMA TypeStep == TypeOK /\ [Next]_vars => TypeOK'
<1>. SUFFICES ASSUME TypeOK, [Next]_vars PROVE TypeOK'
    OBVIOUS
<1>. USE DEF TypeOK
<1>1. ASSUME NEW c \in Clients, OnAccept(c) PROVE TypeOK'
    BY <1>1, LifecycleAssumption DEF OnAccept, pauseVars
<1>2. CASE InsertSession
    BY <1>2, LifecycleAssumption DEF InsertSession, pauseVars
<1>3. CASE ListSession
    BY <1>3, LifecycleAssumption DEF ListSession, pauseVars
<1>4. CASE StartSession
    BY <1>4 DEF StartSession, pauseVars
<1>5. ASSUME NEW c \in Clients, ClientFails(c) PROVE TypeOK'
    BY <1>5 DEF ClientFails, InvalidateConnection, pauseVars
<1>6. ASSUME NEW c \in Clients, RemoveClient(c) PROVE TypeOK'
    BY <1>6 DEF RemoveClient, pauseVars
<1>7. ASSUME NEW c \in Clients, UnlistSession(c) PROVE TypeOK'
    BY <1>7 DEF UnlistSession, pauseVars
<1>8. ASSUME NEW c \in Clients, Pause(c) PROVE TypeOK'
    BY <1>8 DEF Pause
<1>9. ASSUME NEW c \in Clients, VisitSession(c) PROVE TypeOK'
    BY <1>9 DEF VisitSession, InvalidateConnection
<1>10. CASE EndPause
    BY <1>10 DEF EndPause
<1>11. ASSUME NEW c \in Clients, Resume(c) PROVE TypeOK'
    BY <1>11, Zenon DEF Resume, pauseVars
<1>12. CASE UNCHANGED vars
    BY <1>12 DEF vars, pauseVars
<1>. QED BY <1>1, <1>2, <1>3, <1>4, <1>5, <1>6, <1>7, <1>8, <1>9, <1>10, <1>11, <1>12
        DEF Next, Handler, Finished

\* A client that a step does not move, and of which the step changes nothing, stays well placed.
LEMMA Untouched ==
    ASSUME NEW d \in Clients, WellPlaced(d), accepting' = accepting, acceptPc' = acceptPc,
           status'[d] = status[d],
           (d \in sessions') <=> (d \in sessions), (d \in metaSessions') <=> (d \in metaSessions),
           (d \in posted') <=> (d \in posted), (d \in removing') <=> (d \in removing)
    PROVE  WellPlaced(d)'
    BY DEF WellPlaced, Known, Gone

\* InvalidateConnection finds a client of the list or one that is dead already.
LEMMA InvalidatedIsPlaced ==
    ASSUME TypeOK, \A d \in Clients : WellPlaced(d),
           NEW c \in Clients, c \in sessions, InvalidateConnection(c),
           UNCHANGED <<accepting, acceptPc, sessions, metaSessions, removing>>
    PROVE  \A d \in Clients : WellPlaced(d)'
<1>. TAKE d \in Clients
<1>1. CASE d # c
    BY <1>1, Untouched DEF InvalidateConnection, TypeOK
<1>2. CASE d = c
    BY <1>2 DEF InvalidateConnection, WellPlaced, Known, Gone, TypeOK
<1>. QED BY <1>1, <1>2

\* Where clients can be, action by action.
LEMMA ListStep == TypeOK /\ ListInv /\ [Next]_vars => ListInv'
<1>. SUFFICES ASSUME TypeOK, ListInv, [Next]_vars PROVE ListInv'
    OBVIOUS
<1>. DEFINE Placed == \A d \in Clients : WellPlaced(d)
<1>0. CASE UNCHANGED listVars
  <2>1. \A d \in Clients : WellPlaced(d)' <=> WellPlaced(d)
      BY <1>0 DEF listVars, WellPlaced, Known, Gone
  <2>. QED BY <1>0, <2>1 DEF ListInv, listVars
<1>1. ASSUME NEW c \in Clients, OnAccept(c) PROVE ListInv'
  <2>1. Placed /\ UNCHANGED <<sessions, metaSessions, posted, removing, terminated>>
      BY <1>1 DEF OnAccept, AThreadIsFree, ListInv
  <2>2. accepting = Nobody /\ status[c] = "new" /\ Nobody \notin Clients
      BY <1>1, LifecycleAssumption DEF OnAccept
  <2>3. ASSUME NEW d \in Clients PROVE WellPlaced(d)'
    <3>1. CASE d # c
      <4>1. status'[d] = status[d] /\ accepting' \in {Nobody, c} /\ d # accepting /\ d # accepting'
          BY <1>1, <2>2, <3>1 DEF OnAccept, TypeOK
      <4>. QED BY <2>1, <4>1 DEF WellPlaced, Known, Gone
    <3>2. CASE d = c
        BY <1>1, <2>1, <2>2, <3>2 DEF OnAccept, WellPlaced, Known, Gone, TypeOK
    <3>. QED BY <3>1, <3>2
  <2>. QED BY <2>1, <2>3 DEF ListInv
<1>2. CASE ~terminated /\ InsertSession
  <2>1. Placed /\ UNCHANGED <<status, accepting, metaSessions, posted, removing, terminated>>
      BY <1>2 DEF InsertSession, ListInv
  <2>2. acceptPc = "insert" /\ acceptPc' = "list" /\ sessions' = sessions \cup {accepting}
      BY <1>2 DEF InsertSession
  <2>3. ASSUME NEW d \in Clients PROVE WellPlaced(d)'
    <3>1. CASE d = accepting
        BY <2>1, <2>2, <3>1 DEF WellPlaced, Known, Gone
    <3>2. CASE d # accepting
        BY <2>1, <2>2, <3>2 DEF WellPlaced, Known, Gone
    <3>. QED BY <3>1, <3>2
  <2>. QED BY <2>1, <2>3 DEF ListInv
<1>3. CASE ~terminated /\ ListSession
  <2>1. Placed /\ UNCHANGED <<status, accepting, sessions, posted, removing, terminated>>
      BY <1>3 DEF ListSession, ListInv
  <2>2. acceptPc = "list" /\ acceptPc' = "start" /\ metaSessions' = metaSessions \cup {accepting}
      BY <1>3 DEF ListSession
  <2>3. ASSUME NEW d \in Clients PROVE WellPlaced(d)'
    <3>1. CASE d = accepting
        BY <2>1, <2>2, <3>1 DEF WellPlaced, Known, Gone
    <3>2. CASE d # accepting
        BY <2>1, <2>2, <3>2 DEF WellPlaced, Known, Gone
    <3>. QED BY <3>1, <3>2
  <2>. QED BY <2>1, <2>3 DEF ListInv
<1>4. CASE ~terminated /\ StartSession
  <2>1. Placed /\ UNCHANGED <<sessions, metaSessions, posted, removing, terminated>>
      BY <1>4 DEF StartSession, ListInv
  <2>2. acceptPc = "start" /\ acceptPc' = "idle" /\ accepting' = Nobody /\ Nobody \notin Clients
      BY <1>4, LifecycleAssumption DEF StartSession
  <2>3. status' = [status EXCEPT ![accepting] = IF @ = "accepted" THEN "started" ELSE @]
      BY <1>4 DEF StartSession
  <2>4. ASSUME NEW d \in Clients PROVE WellPlaced(d)'
    <3>1. CASE d = accepting
        BY <2>1, <2>2, <2>3, <3>1 DEF WellPlaced, Known, Gone, TypeOK
    <3>2. CASE d # accepting
      <4>1. status'[d] = status[d]
          BY <2>3, <3>2 DEF TypeOK
      <4>. QED BY <2>1, <2>2, <3>2, <4>1 DEF WellPlaced, Known, Gone
    <3>. QED BY <3>1, <3>2
  <2>. QED BY <2>1, <2>4 DEF ListInv
<1>5. ASSUME NEW c \in Clients, ClientFails(c) PROVE ListInv'
  <2>1. /\ Placed /\ InvalidateConnection(c)
        /\ UNCHANGED <<accepting, acceptPc, sessions, metaSessions, removing, terminated>>
      BY <1>5 DEF ClientFails, AThreadIsFree, ListInv
  <2>2. c \in sessions
      BY <1>5, <2>1 DEF ClientFails, WellPlaced, Known, Gone
  <2>. QED BY <2>1, <2>2, InvalidatedIsPlaced DEF ListInv
<1>6. ASSUME NEW c \in Clients, RemoveClient(c) PROVE ListInv'
  <2>1. Placed /\ UNCHANGED <<status, accepting, acceptPc, metaSessions, terminated>>
      BY <1>6 DEF RemoveClient, AThreadIsFree, ListInv
  <2>2. /\ c \in posted /\ posted' = posted \ {c} /\ sessions' = sessions \ {c}
        /\ removing' = IF c \in sessions THEN removing \cup {c} ELSE removing
      BY <1>6 DEF RemoveClient
  <2>3. IsFiniteSet(removing')
      BY <2>2, FS_AddElement DEF ListInv
  <2>4. ASSUME NEW d \in Clients PROVE WellPlaced(d)'
    <3>1. CASE d # c
        BY <2>1, <2>2, <3>1, Untouched
    <3>2. CASE d = c
        BY <2>1, <2>2, <3>2 DEF WellPlaced, Known, Gone
    <3>. QED BY <3>1, <3>2
  <2>. QED BY <2>3, <2>4 DEF ListInv
<1>7. ASSUME NEW c \in Clients, ~terminated, UnlistSession(c) PROVE ListInv'
  <2>1. Placed /\ UNCHANGED <<status, accepting, acceptPc, sessions, posted>>
      BY <1>7 DEF UnlistSession, ListInv
  <2>2. /\ c \in removing /\ removing' = removing \ {c} /\ metaSessions' = metaSessions \ {c}
        /\ terminated' = (c \notin metaSessions)
      BY <1>7 DEF UnlistSession
  <2>3. IsFiniteSet(removing')
      BY <2>2, FS_RemoveElement DEF ListInv
  <2>4. ASSUME NEW d \in Clients, c \in metaSessions PROVE WellPlaced(d)'
    <3>1. CASE d # c
        BY <2>1, <2>2, <3>1, Untouched
    <3>2. CASE d = c
        BY <2>1, <2>2, <2>4, <3>2 DEF WellPlaced, Known, Gone
    <3>. QED BY <3>1, <3>2
  <2>. QED BY <2>2, <2>3, <2>4, Zenon DEF ListInv
<1>8. ASSUME NEW c \in Clients, ~terminated, VisitSession(c) PROVE ListInv'
  <2>1. Placed /\ c \in sessions /\ UNCHANGED <<accepting, acceptPc, sessions, metaSessions, removing, terminated>>
      BY <1>8 DEF VisitSession, ListInv
  <2>2. CASE c = pauser
      BY <1>8, <2>1, <2>2, <1>0 DEF VisitSession, listVars
  <2>3. CASE c # pauser
    <3>1. InvalidateConnection(c)
        BY <1>8, <2>3 DEF VisitSession
    <3>. QED BY <2>1, <3>1, InvalidatedIsPlaced DEF ListInv
  <2>. QED BY <2>2, <2>3
<1>9. ASSUME NEW c \in Clients, Pause(c) \/ Resume(c) PROVE ListInv'
    BY <1>9, <1>0 DEF Pause, Resume, listVars
<1>10. CASE EndPause
    BY <1>10, <1>0 DEF EndPause, listVars
<1>11. CASE UNCHANGED vars
    BY <1>11, <1>0 DEF vars, listVars
<1>. QED BY <1>1, <1>2, <1>3, <1>4, <1>5, <1>6, <1>7, <1>8, <1>9, <1>10, <1>11
        DEF Next, Handler, Finished

\* With no handler in progress everybody is in both lists or in none.
LEMMA ListInvSuffices == TypeOK /\ ListInv => ListIsAccurate
<1>. SUFFICES ASSUME TypeOK, ListInv, InProgress = 0, ~terminated
              PROVE  /\ metaSessions = sessions
                     /\ \A c \in sessions : status[c] = "dead" => c \in posted
    BY DEF ListIsAccurate
<1>1. Cardinality(removing) \in Nat
    BY FS_CardinalityType DEF ListInv
<1>2. accepting = Nobody /\ Cardinality(removing) = 0
    BY <1>1 DEF InProgress
<1>3. removing = {}
    BY <1>2, FS_EmptySet DEF ListInv
<1>4. ASSUME NEW c \in Clients
      PROVE  /\ (c \in metaSessions) <=> (c \in sessions)
             /\ c \in sessions /\ status[c] = "dead" => c \in posted
    BY <1>2, <1>3, LifecycleAssumption DEF ListInv, WellPlaced, Known, Gone
<1>. QED BY <1>4 DEF TypeOK

\* For any clients and numbers of io threads: whenever no handler is in progress,
\* __meta__/sessions holds the sessions of sessions_ and no dead one that nobody will
\* remove, unless RemoveClient threw before.
THEOREM SessionsListed == Spec => []ListIsAccurate
<1>1. Init => TypeOK /\ ListInv
    BY InitList
<1>2. TypeOK /\ ListInv /\ [Next]_vars => (TypeOK /\ ListInv)'
    BY TypeStep, ListStep
<1>3. TypeOK /\ ListInv => ListIsAccurate
    BY ListInvSuffices
<1>. QED BY <1>1, <1>2, <1>3, PTL DEF Spec

-----------------------------------------------------------------------------
(* Pauses, with one io thread. *)

NoPauseWithSeveralThreads == Others = {}

\* The only io thread is free: nothing is in progress.
LEMMA OneThreadFree ==
    ASSUME ListInv, AThreadIsFree, ioThreads = 1
    PROVE  accepting = Nobody /\ pauser = Nobody /\ removing = {}
<1>1. Cardinality(removing) \in Nat
    BY FS_CardinalityType DEF ListInv
<1>2. accepting = Nobody /\ pauser = Nobody /\ Cardinality(removing) = 0
    BY <1>1 DEF AThreadIsFree, InProgress
<1>. QED BY <1>2, FS_EmptySet DEF ListInv

\* So a handler starts next to a pause, or before the end of one, only if there are several.
LEMMA NoPauseMeanwhile ==
    ASSUME ListInv, PauseInv, AThreadIsFree
    PROVE  pauser = Nobody
    BY OneThreadFree DEF PauseInv

\* In the initial state there is no pause.
LEMMA InitPause == Init => PauseInv
    BY DEF Init, PauseInv

\* A step that changes nothing the invariant speaks about.
LEMMA PauseKept ==
    ASSUME PauseInv, UNCHANGED <<ioThreads, status, accepting, removing, sessions, serverPaused, pauseVars,
                                 terminated>>
    PROVE  PauseInv'
    BY DEF PauseInv, Alive, pauseVars

\* Every step preserves the invariant.
LEMMA PauseStep ==
    NoPauseWithSeveralThreads /\ TypeOK /\ ListInv /\ PauseInv /\ [Next]_vars => PauseInv'
<1>. SUFFICES ASSUME NoPauseWithSeveralThreads, TypeOK, ListInv, PauseInv, [Next]_vars
              PROVE  PauseInv'
    OBVIOUS
<1>0. ioThreads' = ioThreads /\ ~terminated /\ Nobody \notin Clients
    BY LifecycleAssumption DEF Next, Handler, Finished, vars, PauseInv
<1>1. ASSUME NEW c \in Clients, OnAccept(c) PROVE PauseInv'
  <2>1. pauser = Nobody /\ (ioThreads = 1 => removing = {})
      BY <1>1, NoPauseMeanwhile, OneThreadFree DEF OnAccept
  <2>2. CASE serverPaused
    <3>1. Alive' = Alive
        BY <1>1, <2>2 DEF OnAccept, Alive, TypeOK
    <3>. QED BY <1>0, <1>1, <2>1, <2>2, <3>1 DEF OnAccept, PauseInv, pauseVars
  <2>3. CASE ~serverPaused
    <3>1. accepting' = c /\ status'[c] = "accepted"
        BY <1>1, <2>3 DEF OnAccept, TypeOK
    <3>. QED BY <1>0, <1>1, <2>1, <2>3, <3>1 DEF OnAccept, PauseInv, pauseVars
  <2>. QED BY <2>2, <2>3
<1>2. CASE InsertSession \/ ListSession \/ StartSession
  <2>1. accepting # Nobody /\ ~serverPaused
      BY <1>2 DEF InsertSession, ListSession, StartSession, TypeOK, PauseInv
  <2>2. pauser = Nobody
      BY <2>1 DEF PauseInv
  <2>3. /\ UNCHANGED <<removing, serverPaused, pauseVars, terminated>>
        /\ accepting' = Nobody \/ (accepting' = accepting /\ status' = status)
      BY <1>2 DEF InsertSession, ListSession, StartSession
  <2>. QED BY <1>0, <2>1, <2>2, <2>3 DEF PauseInv, pauseVars
<1>3. ASSUME NEW c \in Clients, ClientFails(c) PROVE PauseInv'
  <2>1. pauser = Nobody /\ accepting # c
      BY <1>3, NoPauseMeanwhile, SMT, Z3 DEF ClientFails, PauseInv
  <2>2. status' = [status EXCEPT ![c] = "dead"]
      BY <1>3 DEF ClientFails, InvalidateConnection
  <2>3. Alive' \subseteq Alive /\ (accepting # Nobody => status'[accepting] = status[accepting])
      BY <2>1, <2>2 DEF Alive, TypeOK
  <2>. QED BY <1>0, <1>3, <2>1, <2>3 DEF ClientFails, PauseInv, pauseVars
<1>4. ASSUME NEW c \in Clients, RemoveClient(c) PROVE PauseInv'
  <2>1. pauser = Nobody /\ (ioThreads = 1 => accepting = Nobody)
      BY <1>4, NoPauseMeanwhile, OneThreadFree DEF RemoveClient
  <2>2. UNCHANGED <<status, accepting, serverPaused, pauseVars, terminated>>
      BY <1>4 DEF RemoveClient
  <2>. QED BY <1>0, <2>1, <2>2 DEF PauseInv, pauseVars, Alive
<1>5. ASSUME NEW c \in Clients, UnlistSession(c) PROVE PauseInv'
  <2>1. c \in removing /\ removing' = removing \ {c} /\ terminated' = (c \notin metaSessions)
      BY <1>5 DEF UnlistSession
  <2>2. WellPlaced(c)
      BY <1>0 DEF ListInv
  <2>3. c \in metaSessions
      BY <1>0, <2>1, <2>2 DEF WellPlaced, Known, Gone, PauseInv
  <2>4. UNCHANGED <<status, accepting, sessions, serverPaused, pauseVars>>
      BY <1>5 DEF UnlistSession
  <2>. QED BY <1>0, <2>1, <2>3, <2>4, Zenon DEF PauseInv, pauseVars, Alive
<1>6. ASSUME NEW c \in Clients, Pause(c) PROVE PauseInv'
  <2>1. ioThreads = 1
      BY <1>6 DEF Pause, MayPause, NoPauseWithSeveralThreads
  <2>2. accepting = Nobody /\ pauser = Nobody /\ removing = {}
      BY <1>6, <2>1, OneThreadFree DEF Pause
  <2>3. /\ pauser' = c /\ pauseSet' = sessions
        /\ UNCHANGED <<status, accepting, sessions, removing, serverPaused, visited, current, terminated>>
      BY <1>6 DEF Pause
  <2>. QED BY <1>0, <2>1, <2>2, <2>3 DEF PauseInv, Alive
<1>7. ASSUME NEW c \in Clients, VisitSession(c) PROVE PauseInv'
  <2>1. pauser # Nobody /\ c \in sessions /\ accepting = Nobody
      BY <1>7 DEF VisitSession, PauseInv
  <2>2. /\ visited' = visited \cup {c} /\ current' = c
        /\ UNCHANGED <<accepting, sessions, removing, serverPaused, pauser, pauseSet, terminated>>
      BY <1>7 DEF VisitSession
  <2>3. Alive' \subseteq Alive /\ (c \in Alive' => c = pauser)
      BY <1>7 DEF VisitSession, InvalidateConnection, Alive, TypeOK
  <2>4. visited' \cap Alive' \subseteq {pauser}
      BY <2>1, <2>2, <2>3 DEF PauseInv
  <2>. QED BY <1>0, <2>1, <2>2, <2>3, <2>4 DEF PauseInv
<1>8. CASE EndPause
  <2>1. pauser # Nobody /\ pauser \in Clients /\ accepting = Nobody
      BY <1>8 DEF EndPause, PauseInv, TypeOK
  <2>2. sessions \subseteq visited
      BY <1>8, <2>1 DEF EndPause, LoopMayEnd, PauseInv
  <2>3. Alive \subseteq sessions
      BY <1>0, <2>1 DEF Alive, ListInv, WellPlaced, Known, Gone
  <2>4. Alive \subseteq {pauser}
      BY <2>1, <2>2, <2>3 DEF PauseInv
  <2>5. /\ pauser' = Nobody /\ visited' = {} /\ current' = Nobody
        /\ UNCHANGED <<status, accepting, removing, terminated>>
      BY <1>8 DEF EndPause
  <2>. QED BY <1>0, <2>1, <2>4, <2>5 DEF PauseInv, Alive
<1>9. ASSUME NEW c \in Clients, Resume(c) PROVE PauseInv'
  <2>1. /\ serverPaused' = FALSE
        /\ UNCHANGED <<status, accepting, sessions, removing, pauseVars, terminated>>
      BY <1>9 DEF Resume
  <2>. QED BY <1>0, <2>1 DEF PauseInv, Alive, pauseVars
<1>10. CASE UNCHANGED vars
    BY <1>10, PauseKept DEF vars
<1>. QED BY <1>1, <1>2, <1>3, <1>4, <1>5, <1>6, <1>7, <1>8, <1>9, <1>10
        DEF Next, Handler, Finished

\* The one session that a pause leaves.
LEMMA PauseInvSuffices == PauseInv => NotTerminated /\ PausedAlone
<1>. SUFFICES ASSUME PauseInv, serverPaused PROVE Cardinality(Alive) <= 1
    BY DEF PauseInv, NotTerminated, PausedAlone
<1>1. PICK p \in Clients : Alive \subseteq {p}
    BY DEF PauseInv
<1>2. Alive = {} \/ Alive = {p}
    BY <1>1
<1>3. Cardinality({}) = 0 /\ Cardinality({p}) = 1
    BY FS_EmptySet, FS_Singleton
<1>. QED BY <1>2, <1>3

\* No exception leaves RemoveClient: whoever is removed is in __meta__/sessions.  With
\* several io threads a pause would disconnect a session between its insertion into
\* sessions_ and into the list, hence the hypothesis.
THEOREM RemovedAreListed == NoPauseWithSeveralThreads => (Spec => []NotTerminated)
<1>. SUFFICES ASSUME NoPauseWithSeveralThreads PROVE Spec => []NotTerminated
    OBVIOUS
<1>1. Init => TypeOK /\ ListInv /\ PauseInv
    BY InitList, InitPause
<1>2. TypeOK /\ ListInv /\ PauseInv /\ [Next]_vars => (TypeOK /\ ListInv /\ PauseInv)'
    BY TypeStep, ListStep, PauseStep
<1>. QED BY <1>1, <1>2, PauseInvSuffices, PTL DEF Spec

\* After pause at most the session that asked for it is left, and nobody can join it until
\* the server is resumed.
THEOREM PauseLeavesOne == NoPauseWithSeveralThreads => (Spec => []PausedAlone)
<1>. SUFFICES ASSUME NoPauseWithSeveralThreads PROVE Spec => []PausedAlone
    OBVIOUS
<1>1. Init => TypeOK /\ ListInv /\ PauseInv
    BY InitList, InitPause
<1>2. TypeOK /\ ListInv /\ PauseInv /\ [Next]_vars => (TypeOK /\ ListInv /\ PauseInv)'
    BY TypeStep, ListStep, PauseStep
<1>. QED BY <1>1, <1>2, PauseInvSuffices, PTL DEF Spec
==============================================================================
