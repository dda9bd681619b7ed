---------------------------- MODULE SessionLifecycle ----------------------------
(***************************************************************************)
(* How sessions come and go: accept, failure and removal, pause and        *)
(* resume, and the list of sessions in __meta__/sessions.                  *)
(*                                                                         *)
(* Handlers run on ioThreads threads.  sessions_ has a mutex, which the    *)
(* loop of pause does not take: once the element it stands on is erased,   *)
(* the iterator dangles and the loop may go on or end.                     *)
(***************************************************************************)
EXTENDS Integers, FiniteSets

CONSTANTS
    Clients,    \* each connects once
    Pausers,    \* the clients that may send pause and resume if there is one io thread
    Others,     \* and if there are more
    IoThreads,  \* the numbers of io threads: how many handlers can be in progress at once
    Nobody

ASSUME LifecycleAssumption ==
    Pausers \cup Others \subseteq Clients /\ IoThreads \subseteq Nat \ {0} /\ Nobody \notin Clients

VARIABLES
    ioThreads,     \* the number of io threads of this server
    status,        \* of each client: "new", "accepted", "started", "dead" or "refused"
    accepting,     \* the client OnAccept is executing for, or Nobody
    acceptPc,      \* and where it is
    sessions,      \* sessions_
    metaSessions,  \* the keys of __meta__/sessions
    posted,        \* the clients for which RemoveClient has been posted
    removing,      \* those for which it has erased sessions_ and not yet __meta__/sessions
    serverPaused,  \* serverPaused_
    pauser,        \* the client whose pause is being executed (one at a time), or Nobody
    pauseSet,      \* the sessions there were when its loop began
    visited,       \* the sessions its loop has disconnected or skipped
    current,       \* the one its iterator stands on
    terminated     \* an exception left a handler, and with it the process

pauseVars == <<pauser, pauseSet, visited, current>>
vars == <<ioThreads, status, accepting, acceptPc, sessions, metaSessions, posted, removing, serverPaused,
          pauseVars, terminated>>

TypeOK ==
    /\ status \in [Clients -> {"new", "accepted", "started", "dead", "refused"}]
    /\ accepting \in Clients \cup {Nobody}
    /\ acceptPc \in {"idle", "insert", "list", "start"}
    /\ acceptPc = "idle" <=> accepting = Nobody
    /\ sessions \cup metaSessions \cup posted \cup removing \subseteq Clients
    /\ serverPaused \in BOOLEAN /\ terminated \in BOOLEAN
    /\ pauser \in Clients \cup {Nobody}
    /\ pauseSet \cup visited \subseteq Clients
    /\ current \in Clients \cup {Nobody}

Init ==
    /\ ioThreads \in IoThreads
    /\ status = [c \in Clients |-> "new"]
    /\ accepting = Nobody /\ acceptPc = "idle"
    /\ sessions = {} /\ metaSessions = {} /\ posted = {} /\ removing = {}
    /\ serverPaused = FALSE
    /\ pauser = Nobody /\ pauseSet = {} /\ visited = {} /\ current = Nobody
    /\ terminated = FALSE

InProgress ==
    Cardinality(removing) + (IF accepting = Nobody THEN 0 ELSE 1)
                          + (IF pauser = Nobody THEN 0 ELSE 1)
MayPause(c) == c \in IF ioThreads = 1 THEN Pausers ELSE Others
AThreadIsFree == InProgress < ioThreads /\ ~terminated

-----------------------------------------------------------------------------
(* OnAccept: one at a time, since DoAccept is its last statement. *)

OnAccept(c) ==
    /\ AThreadIsFree /\ accepting = Nobody /\ status[c] = "new"
    /\ IF serverPaused
       THEN /\ status' = [status EXCEPT ![c] = "refused"]
            /\ UNCHANGED <<accepting, acceptPc>>
       ELSE /\ status' = [status EXCEPT ![c] = "accepted"]
            /\ accepting' = c /\ acceptPc' = "insert"
    /\ UNCHANGED <<sessions, metaSessions, posted, removing, serverPaused, pauseVars, terminated>>

InsertAndStart ==  \* mutant: the session reads before it is listed
    /\ acceptPc = "insert"
    /\ sessions' = sessions \cup {accepting}
    /\ status' = [status EXCEPT ![accepting] = "started"]
    /\ acceptPc' = "list"
    /\ UNCHANGED <<accepting, metaSessions, posted, removing, serverPaused, pauseVars, terminated>>

InsertSession ==
    /\ acceptPc = "insert"
    /\ sessions' = sessions \cup {accepting}
    /\ acceptPc' = "list"
    /\ UNCHANGED <<status, accepting, metaSessions, posted, removing, serverPaused, pauseVars,
                   terminated>>

ListSession ==
    /\ acceptPc = "list"
    /\ metaSessions' = metaSessions \cup {accepting}
    /\ acceptPc' = "start"
    /\ UNCHANGED <<status, accepting, sessions, posted, removing, serverPaused, pauseVars, terminated>>

StartSession ==
    /\ acceptPc = "start"
    /\ status' = [status EXCEPT ![accepting] = IF @ = "accepted" THEN "started" ELSE @]
    /\ accepting' = Nobody /\ acceptPc' = "idle"
    /\ UNCHANGED <<sessions, metaSessions, posted, removing, serverPaused, pauseVars, terminated>>

-----------------------------------------------------------------------------
(* Failure and removal. *)

InvalidateSilently(c) ==  \* mutant: OnClientFailed is not called
    status' = [status EXCEPT ![c] = "dead"] /\ UNCHANGED posted

\* InvalidateConnection and OnClientFailed; nothing happens the second time.
InvalidateConnection(c) ==
    IF status[c] \in {"accepted", "started"}
    THEN status' = [status EXCEPT ![c] = "dead"] /\ posted' = posted \cup {c}
    ELSE UNCHANGED <<status, posted>>

ClientFails(c) ==
    /\ AThreadIsFree /\ status[c] = "started" /\ pauser # c
    /\ InvalidateConnection(c)
    /\ UNCHANGED <<accepting, acceptPc, sessions, metaSessions, removing, serverPaused, pauseVars,
                   terminated>>

EraseOnly(c) ==  \* mutant: __meta__/sessions is left as it is
    /\ AThreadIsFree /\ c \in posted
    /\ posted' = posted \ {c}
    /\ sessions' = sessions \ {c}
    /\ UNCHANGED <<status, accepting, acceptPc, metaSessions, removing, serverPaused, pauseVars,
                   terminated>>

RemoveClient(c) ==
    /\ AThreadIsFree /\ c \in posted
    /\ posted' = posted \ {c}
    /\ sessions' = sessions \ {c}
    /\ removing' = IF c \in sessions THEN removing \cup {c} ELSE removing
    /\ UNCHANGED <<status, accepting, acceptPc, metaSessions, serverPaused, pauseVars, terminated>>

\* MapStorage::Delete throws if there is no such key.
UnlistSession(c) ==
    /\ c \in removing
    /\ removing' = removing \ {c}
    /\ metaSessions' = metaSessions \ {c}
    /\ terminated' = (c \notin metaSessions)
    /\ UNCHANGED <<status, accepting, acceptPc, sessions, posted, serverPaused, pauseVars>>

-----------------------------------------------------------------------------
(* Pause and resume, on the strand of client c. *)

Pause(c) ==
    /\ AThreadIsFree /\ MayPause(c) /\ status[c] = "started" /\ pauser = Nobody
    /\ pauser' = c /\ pauseSet' = sessions
    /\ UNCHANGED <<status, accepting, acceptPc, sessions, metaSessions, posted, removing,
                   serverPaused, visited, current, terminated>>

\* The set is sorted by address: the next one may be any, and one inserted meanwhile
\* may come before or after.
VisitSession(c) ==
    /\ pauser # Nobody /\ c \in sessions \ visited
    /\ visited' = visited \cup {c} /\ current' = c
    /\ IF c = pauser THEN UNCHANGED <<status, posted>> ELSE InvalidateConnection(c)
    /\ UNCHANGED <<accepting, acceptPc, sessions, metaSessions, removing, serverPaused, pauser,
                   pauseSet, terminated>>

LoopEndsAnywhere ==  \* mutant: a session is enough
    visited # {}

LoopMayEnd ==
    pauseSet \cap sessions \subseteq visited \/ (current # Nobody /\ current \notin sessions)

EndPause ==
    /\ pauser # Nobody /\ LoopMayEnd
    /\ serverPaused' = TRUE
    /\ pauser' = Nobody /\ pauseSet' = {} /\ visited' = {} /\ current' = Nobody
    /\ UNCHANGED <<status, accepting, acceptPc, sessions, metaSessions, posted, removing, terminated>>

Resume(c) ==
    /\ AThreadIsFree /\ MayPause(c) /\ status[c] = "started" /\ pauser # c
    /\ serverPaused /\ serverPaused' = FALSE
    /\ UNCHANGED <<status, accepting, acceptPc, sessions, metaSessions, posted, removing,
                   pauseVars, terminated>>

-----------------------------------------------------------------------------

Handler ==
    /\ ~terminated /\ UNCHANGED ioThreads
    /\ \/ InsertSession \/ ListSession \/ StartSession
       \/ \E c \in Clients : RemoveClient(c) \/ UnlistSession(c)
       \/ (\E c \in Clients : VisitSession(c)) \/ EndPause

Finished ==
    /\ terminated \/ (posted = {} /\ InProgress = 0 /\ \A c \in Clients : status[c] \in {"dead", "refused"})
    /\ UNCHANGED vars

Next ==
    \/ Handler
    \/ /\ UNCHANGED ioThreads
       /\ \E c \in Clients : OnAccept(c) \/ ClientFails(c) \/ Pause(c) \/ Resume(c)
    \/ Finished

\* The io threads execute what has been started, and what is posted first comes first:
\* no removal waits for ever behind handlers that were posted after it.
Spec ==
    /\ Init
    /\ [][Next]_vars
    /\ WF_vars(Handler)
    /\ \A c \in Clients : SF_vars(RemoveClient(c) /\ UNCHANGED ioThreads)

-----------------------------------------------------------------------------
(* Properties. *)

\* No exception leaves a handler ("don't need to sync this, shared_ptr is already
\* sync'ed, container are sync'ed too").
NotTerminated == ~terminated

\* Between handlers __meta__/sessions lists the sessions there are, and of these only
\* ones about to be removed are dead.
ListIsAccurate ==
    InProgress = 0 /\ ~terminated =>
        /\ metaSessions = sessions
        /\ \A c \in sessions : status[c] = "dead" => c \in posted

\* The inductive form: where a client can be, step by step.  In sessions_ it is known to
\* the server, and gone once RemoveClient has erased it.
Known(c) == c \in sessions \ removing /\ (status[c] = "dead" <=> c \in posted)
Gone(c) == c \notin sessions \cup posted /\ status[c] = "dead"

WellPlaced(c) ==
    \/ /\ c \notin sessions \cup metaSessions \cup posted \cup removing
       /\ IF c = accepting THEN acceptPc = "insert" /\ status[c] = "accepted"
                           ELSE status[c] \in {"new", "refused"}
    \/ /\ c = accepting /\ acceptPc = "list" /\ c \notin metaSessions
       /\ (Known(c) /\ status[c] \in {"accepted", "dead"}) \/ (Gone(c) /\ c \in removing)
    \/ /\ Known(c) /\ c \in metaSessions
       /\ IF c = accepting THEN acceptPc = "start" /\ status[c] \in {"accepted", "dead"}
                           ELSE status[c] \in {"started", "dead"}
    \/ /\ Gone(c) /\ (c \in removing <=> c \in metaSessions)
       /\ c = accepting => acceptPc = "start"

ListInv ==
    /\ IsFiniteSet(removing)
    /\ ~terminated => \A c \in Clients : WellPlaced(c)

\* "This command will pause the server and disconnect everyone, except the current
\* connection": a paused server with no handler in progress has one session at most.
Alive == {c \in Clients : status[c] \in {"accepted", "started"}}
PausedAlone == serverPaused /\ InProgress = 0 => Cardinality(Alive) <= 1

\* The inductive form of this and of NotTerminated, as long as a server with several io
\* threads is not paused (Others is empty): a pause is alone with the sessions, nobody is
\* disconnected before __meta__/sessions lists them, and the loop misses none.
PauseInv ==
    /\ ~terminated
    /\ pauser # Nobody \/ serverPaused => ioThreads = 1
    /\ ioThreads = 1 => /\ pauser # Nobody => accepting = Nobody /\ removing = {}
                        /\ accepting # Nobody => removing = {}
    /\ accepting # Nobody => status[accepting] = "accepted" /\ ~serverPaused
    /\ pauser = Nobody => visited = {} /\ current = Nobody
    /\ pauser # Nobody => /\ pauseSet = sessions /\ current \in sessions \cup {Nobody}
                          /\ visited \cap Alive \subseteq {pauser}
    /\ serverPaused => \E p \in Clients : Alive \subseteq {p}

\* A dead client leaves the list of sessions.
DeadIsUnlisted == \A c \in Clients : status[c] = "dead" ~> c \notin metaSessions \cup sessions
==============================================================================
