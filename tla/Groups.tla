--------------------------------- MODULE Groups ---------------------------------
(***************************************************************************)
(* One container group: GROUP_ADD and GROUP_SUBSCRIBE, each on the strand  *)
(* of the session that sent it, and sessions that die meanwhile.           *)
(*                                                                         *)
(* GroupManager has a mutex; groupSubscriptions_, a vector of weak_ptrs    *)
(* per group, has none: a push_back that moves the vector leaves a loop in *)
(* progress over memory in which no weak_ptr can be locked any more.       *)
(***************************************************************************)
EXTENDS Integers, Sequences, FiniteSets, SequencesExt

CONSTANTS
    Sessions, Containers,
    Scenarios  \* scripts[s]: the commands of s, <<"add", c>> or <<"subscribe">>;
               \* members: the containers that are in the group at the start;
               \* subscribers: the sessions that have subscribed to it by then, in order;
               \* text: the sessions that use the text protocol

ASSUME ScenariosAssumption ==
    \A x \in Scenarios :
        /\ x.members \subseteq Containers
        /\ x.subscribers \in Seq(Sessions)
        /\ x.text \subseteq Sessions
        /\ DOMAIN x.scripts = Sessions
        /\ \A s \in Sessions : \A i \in DOMAIN x.scripts[s] :
              \/ x.scripts[s][i] = <<"subscribe">>
              \/ \E c \in Containers : x.scripts[s][i] = <<"add", c>>

VARIABLES
    text,                \* the text sessions
    pc,                  \* where the strand of each session is
    script,              \* the commands it has still to execute or finish
    loop,                \* what the for loop of the command has still to visit
    groupContainers,     \* containersMap of the group
    groupSubscriptions,  \* groupSubscriptions_[group]
    valid, destroyed,    \* valid_ of each session; whether it has been destroyed
    handles,             \* handles_ of each session, by container
    subscriptions        \* how often SessionAsyncSubscribe was called for each pair

vars == <<text, pc, script, loop, groupContainers, groupSubscriptions, valid, destroyed,
          handles, subscriptions>>

Pcs == {"idle", "begin", "visit", "register", "push", "each"}

TypeOK ==
    /\ pc \in [Sessions -> Pcs]
    /\ \A s \in Sessions :
          CASE pc[s] \in {"idle", "begin"} -> loop[s] = <<>>
            [] pc[s] \in {"visit", "register"} -> loop[s] \in Seq(Sessions)
            [] pc[s] \in {"push", "each"} -> loop[s] \in Seq(Containers)
    /\ groupContainers \subseteq Containers
    /\ groupSubscriptions \in Seq(Sessions)
    /\ valid \in [Sessions -> BOOLEAN]
    /\ destroyed \in [Sessions -> BOOLEAN]
    /\ handles \in [Sessions -> SUBSET Containers]
    /\ subscriptions \in [Sessions \X Containers -> Nat]

Init ==
    /\ pc = [s \in Sessions |-> "idle"]
    /\ loop = [s \in Sessions |-> <<>>]
    /\ valid = [s \in Sessions |-> TRUE]
    /\ destroyed = [s \in Sessions |-> FALSE]
    /\ \E x \in Scenarios :
          /\ script = x.scripts
          /\ text = x.text
          /\ groupContainers = x.members
          /\ groupSubscriptions = x.subscribers
          /\ handles = [s \in Sessions |-> IF Contains(x.subscribers, s) THEN x.members ELSE {}]
          /\ subscriptions = [p \in Sessions \X Containers |->
                                  IF Contains(x.subscribers, p[1]) /\ p[2] \in x.members THEN 1 ELSE 0]

Goto(s, p) == pc' = [pc EXCEPT ![s] = p]
Starts(s, command) ==
    pc[s] = "idle" /\ ~destroyed[s] /\ script[s] # <<>> /\ Head(script[s])[1] = command
Finish(s) == Goto(s, "idle") /\ script' = [script EXCEPT ![s] = Tail(@)]

\* A text session runs its commands with its bigLock_, which RegisterContainer takes too.
HoldsLock(u) == u \in text /\ pc[u] # "idle"

\* RegisterNewGroupContainer and SessionAsyncSubscribe for session u.
RegisterAndSubscribe(u, c) ==
    /\ handles' = [handles EXCEPT ![u] = @ \cup {c}]
    /\ subscriptions' = [subscriptions EXCEPT ![u, c] = @ + 1]

-----------------------------------------------------------------------------
(* GROUP_ADD on the strand of s. *)

Adding(s) == Head(script[s])[2]

AddContainer(s) ==
    /\ Starts(s, "add")
    /\ groupContainers' = groupContainers \cup {Adding(s)}
    /\ Goto(s, "begin")
    /\ UNCHANGED <<text, script, loop, groupSubscriptions, valid, destroyed, handles, subscriptions>>

BeginLoopShort(s) ==  \* mutant: the loop ends one early
    /\ pc[s] = "begin"
    /\ loop' = [loop EXCEPT ![s] = IF groupSubscriptions = <<>> THEN <<>> ELSE Front(groupSubscriptions)]
    /\ Goto(s, "visit")
    /\ UNCHANGED <<text, script, groupContainers, groupSubscriptions, valid, destroyed, handles,
                   subscriptions>>

\* The range of the loop is read once.
BeginLoop(s) ==
    /\ pc[s] = "begin"
    /\ loop' = [loop EXCEPT ![s] = groupSubscriptions]
    /\ Goto(s, "visit")
    /\ UNCHANGED <<text, script, groupContainers, groupSubscriptions, valid, destroyed, handles,
                   subscriptions>>

\* A session that is gone or not valid is skipped.
VisitSubscriber(s) ==
    /\ pc[s] = "visit"
    /\ IF loop[s] = <<>> THEN Finish(s) /\ UNCHANGED loop
       ELSE IF valid[Head(loop[s])] THEN Goto(s, "register") /\ UNCHANGED <<loop, script>>
       ELSE loop' = [loop EXCEPT ![s] = Tail(@)] /\ UNCHANGED <<pc, script>>
    /\ UNCHANGED <<text, groupContainers, groupSubscriptions, valid, destroyed, handles, subscriptions>>

RegisterSubscriber(s) ==
    /\ pc[s] = "register"
    /\ Head(loop[s]) = s \/ ~HoldsLock(Head(loop[s]))
    /\ RegisterAndSubscribe(Head(loop[s]), Adding(s))
    /\ loop' = [loop EXCEPT ![s] = Tail(@)]
    /\ Goto(s, "visit")
    /\ UNCHANGED <<text, script, groupContainers, groupSubscriptions, valid, destroyed>>

-----------------------------------------------------------------------------
(* GROUP_SUBSCRIBE on the strand of s. *)

GetGroupContainers(s) ==
    /\ Starts(s, "subscribe")
    /\ loop' = [loop EXCEPT ![s] = SetToSeq(groupContainers)]
    /\ Goto(s, "push")
    /\ UNCHANGED <<text, script, groupContainers, groupSubscriptions, valid, destroyed, handles,
                   subscriptions>>

\* push_back; the loops of others go on over the old vector or find nothing more.
PushBack(s) ==
    /\ pc[s] = "push"
    /\ groupSubscriptions' = Append(groupSubscriptions, s)
    /\ \E lost \in {{}, {u \in Sessions : pc[u] = "visit"}} :
          loop' = [u \in Sessions |-> IF u \in lost THEN <<>> ELSE loop[u]]
    /\ Goto(s, "each")
    /\ UNCHANGED <<text, script, groupContainers, valid, destroyed, handles, subscriptions>>

EachDropsLast(s) ==  \* mutant: the wrong end is taken off
    /\ pc[s] = "each"
    /\ IF loop[s] = <<>>
       THEN Finish(s) /\ UNCHANGED <<loop, handles, subscriptions>>
       ELSE /\ RegisterAndSubscribe(s, Head(loop[s]))
            /\ loop' = [loop EXCEPT ![s] = Front(@)]
            /\ UNCHANGED <<pc, script>>
    /\ UNCHANGED <<text, groupContainers, groupSubscriptions, valid, destroyed>>

EachContainer(s) ==
    /\ pc[s] = "each"
    /\ IF loop[s] = <<>>
       THEN Finish(s) /\ UNCHANGED <<loop, handles, subscriptions>>
       ELSE /\ RegisterAndSubscribe(s, Head(loop[s]))
            /\ loop' = [loop EXCEPT ![s] = Tail(@)]
            /\ UNCHANGED <<pc, script>>
    /\ UNCHANGED <<text, groupContainers, groupSubscriptions, valid, destroyed>>

-----------------------------------------------------------------------------
(* A session dies: an error on its socket, or another session's pause. *)

InvalidateConnection(s) ==
    /\ valid[s]
    /\ valid' = [valid EXCEPT ![s] = FALSE]
    /\ handles' = [handles EXCEPT ![s] = {}]
    /\ UNCHANGED <<text, pc, script, loop, groupContainers, groupSubscriptions, destroyed, subscriptions>>

\* The last shared_ptr is gone; a loop that has locked the weak_ptr has one.
DestroySession(s) ==
    /\ ~valid[s] /\ ~destroyed[s]
    /\ pc[s] = "idle"
    /\ \A u \in Sessions : pc[u] = "register" => Head(loop[u]) # s
    /\ destroyed' = [destroyed EXCEPT ![s] = TRUE]
    /\ UNCHANGED <<text, pc, script, loop, groupContainers, groupSubscriptions, valid, handles,
                   subscriptions>>

Finished ==
    /\ \A s \in Sessions : pc[s] = "idle" /\ destroyed[s]
    /\ UNCHANGED vars

Step(s) ==
    \/ AddContainer(s) \/ BeginLoop(s) \/ VisitSubscriber(s) \/ RegisterSubscriber(s)
    \/ GetGroupContainers(s) \/ PushBack(s) \/ EachContainer(s)

Next ==
    \/ \E s \in Sessions : Step(s) \/ InvalidateConnection(s) \/ DestroySession(s)
    \/ Finished

Spec == Init /\ [][Next]_vars /\ \A s \in Sessions : WF_vars(Step(s))

-----------------------------------------------------------------------------
(* Properties. *)

Quiet == \A s \in Sessions : pc[s] = "idle"

\* Once the commands are through, a live subscriber of the group is subscribed to
\* each of its containers, once.
MembersServed ==
    Quiet => \A i \in DOMAIN groupSubscriptions, c \in groupContainers :
                LET s == groupSubscriptions[i] IN valid[s] => subscriptions[s, c] = 1

\* BOOST_ASSERT(handles_.empty()) in ~TioTcpSession.  It does not hold: GROUP_ADD gives
\* a handle to a session that has just been invalidated.
DestroyedHasNoHandles == \A s \in Sessions : destroyed[s] => handles[s] = {}

\* A container added to the group reaches each session subscribed to it, if that lives.
AddReachesSubscribers ==
    \A s \in Sessions, c \in Containers :
        (c \in groupContainers /\ Contains(groupSubscriptions, s))
            ~> (subscriptions[s, c] > 0 \/ ~valid[s])
==============================================================================
