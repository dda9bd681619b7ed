---------------------------- MODULE ContainerManager ----------------------------
(***************************************************************************)
(* ContainerManager with its MemoryStorageManager, the list of containers  *)
(* it keeps in __meta__/containers, and the handle tables of the sessions. *)
(*                                                                         *)
(* A storage holds the data.  A Container is an object in front of it that *)
(* lives as long as a session's handle, a subscription or the server       *)
(* refers to it; openContainers_ only has a weak pointer.  Each operation  *)
(* runs under mutex_, so it is one action.  A request that throws before   *)
(* it changes anything is an action that is not enabled.                   *)
(***************************************************************************)
EXTENDS Integers, Sequences, FiniteSets, Functions

CONSTANTS
    Sessions,
    Names,        \* container names that clients use
    Types,        \* the types they ask for
    Aliases,      \* aliases_: alias -> type
    MaxObjects,   \* bound on the Container objects made
    MaxHandles    \* bound on the handles of one session

\* MemoryStorageManager::supportedTypes_
SupportedTypes == {"volatile_vector", "volatile_map", "volatile_list"}

ASSUME ManagerAssumption ==
    /\ Types \subseteq SupportedTypes
    /\ MaxObjects \in Nat /\ MaxHandles \in Nat

VARIABLES
    boot,                   \* steps of RegisterFundamentalStorageManagers done
    containers,             \* containers_: <<type, name>> -> storage
    objects,                \* the Container objects made so far
    kept,                   \* those the server or a subscription refers to
    openContainers,         \* openContainers_: name -> index in objects
    metaContainers,         \* the contents of __meta__/containers: name -> type
    handles,                \* handles_ of each session: handle -> index in objects
    containerNameToHandle,  \* containerNameToHandle_ of each session
    lastHandle,             \* lastHandle_ of each session
    created                 \* history: the type the last creation asked for and got

managerVars == <<containers, objects, openContainers, metaContainers>>
sessionVars == <<handles, containerNameToHandle, lastHandle>>
vars == <<boot, managerVars, kept, sessionVars, created>>

MetaNames == {"__meta__/containers", "__meta__/available_types"}
AllNames == Names \cup MetaNames
NoFunction == [x \in {} |-> 0]
With(f, x, y) == [z \in DOMAIN f \cup {x} |-> IF z = x THEN y ELSE f[z]]
Without(f, x) == Restrict(f, DOMAIN f \ {x})

TypeOK ==
    /\ boot \in 0 .. 3
    /\ DOMAIN containers \subseteq SupportedTypes \X AllNames
    /\ Range(containers) \subseteq 1 .. MaxObjects
    /\ objects \in Seq([name : AllNames, type : SupportedTypes, storage : 1 .. MaxObjects])
    /\ kept \subseteq DOMAIN objects
    /\ DOMAIN openContainers \subseteq AllNames
    /\ Range(openContainers) \subseteq DOMAIN objects
    /\ DOMAIN metaContainers \subseteq AllNames /\ Range(metaContainers) \subseteq SupportedTypes
    /\ DOMAIN handles = Sessions /\ DOMAIN containerNameToHandle = Sessions
    /\ lastHandle \in [Sessions -> 0 .. MaxHandles]
    /\ \A s \in Sessions :
          /\ DOMAIN handles[s] \subseteq 1 .. lastHandle[s]
          /\ Range(handles[s]) \subseteq DOMAIN objects
          /\ DOMAIN containerNameToHandle[s] \subseteq AllNames
          /\ Range(containerNameToHandle[s]) \subseteq 1 .. lastHandle[s]

Init ==
    /\ boot = 0
    /\ containers = NoFunction
    /\ objects = <<>>
    /\ kept = {}
    /\ openContainers = NoFunction
    /\ metaContainers = NoFunction
    /\ handles = [s \in Sessions |-> NoFunction]
    /\ containerNameToHandle = [s \in Sessions |-> NoFunction]
    /\ lastHandle = [s \in Sessions |-> 0]
    /\ created = <<"", "">>

-----------------------------------------------------------------------------
(* CreateOrOpen. *)

ResolveAlias(t) == IF t \in DOMAIN Aliases THEN Aliases[t] ELSE t

\* The weak pointer has not expired.
Live(o) == o \in kept \/ \E s \in Sessions : o \in Range(handles[s])

Reusable(n) == n \in DOMAIN openContainers /\ Live(openContainers[n])

\* o is the Container that a request for n gets.
Reuse(n, o) ==
    /\ Reusable(n)
    /\ o = openContainers[n]
    /\ UNCHANGED managerVars

NewContainer(n, t, storage, o) ==
    /\ o = Len(objects) + 1
    /\ o <= MaxObjects
    /\ objects' = Append(objects, [name |-> n, type |-> t, storage |-> storage])
    /\ openContainers' = With(openContainers, n, o)

\* MemoryStorageManager::CreateStorage: the storage there is, or a new one.
CreateStorage(t, n) ==
    IF <<t, n>> \in DOMAIN containers THEN containers[<<t, n>>] ELSE Len(objects) + 1

CreateMislisted(t, n, o) ==  \* mutant: listed with the default type
    \/ Reuse(n, o)
    \/ /\ ~Reusable(n)
       /\ t \in SupportedTypes
       /\ LET storage == CreateStorage(t, n)
          IN  /\ NewContainer(n, t, storage, o)
              /\ containers' = With(containers, <<t, n>>, storage)
       /\ metaContainers' = With(metaContainers, n, "volatile_map")

Create(t, n, o) ==
    \/ Reuse(n, o)
    \/ /\ ~Reusable(n)
       /\ t \in SupportedTypes
       /\ LET storage == CreateStorage(t, n)
          IN  /\ NewContainer(n, t, storage, o)
              /\ containers' = With(containers, <<t, n>>, storage)
       /\ metaContainers' = IF boot > 0 THEN With(metaContainers, n, t) ELSE metaContainers

OpenFresh(t, n, o) ==  \* mutant: a new object although one is open
    /\ <<t, n>> \in DOMAIN containers
    /\ NewContainer(n, t, containers[<<t, n>>], o)
    /\ UNCHANGED <<containers, metaContainers>>

\* Without a type, the one listed in __meta__/containers.
Open(t, n, o) ==
    \/ Reuse(n, o)
    \/ /\ ~Reusable(n)
       /\ t = "" => n \in DOMAIN metaContainers
       /\ LET type == IF t = "" THEN metaContainers[n] ELSE t
          IN  /\ <<type, n>> \in DOMAIN containers
              /\ NewContainer(n, type, containers[<<type, n>>], o)
       /\ UNCHANGED <<containers, metaContainers>>

-----------------------------------------------------------------------------
(* RegisterFundamentalStorageManagers: __meta__/containers, then the list of  *)
(* types, then __meta__/containers once more.                                 *)

Register ==
    /\ boot < 3
    /\ boot' = boot + 1
    /\ \E o \in 1 .. MaxObjects :
          /\ IF boot = 1 THEN Create("volatile_vector", "__meta__/available_types", o)
                         ELSE Create("volatile_map", "__meta__/containers", o)
          /\ kept' = kept \cup {o}
    /\ UNCHANGED <<sessionVars, created>>

-----------------------------------------------------------------------------
(* Requests of sessions. *)

\* TioTcpSession::RegisterContainer: the handle the name has, or a new one.
RegisterContainer(s, n, o) ==
    IF n \in DOMAIN containerNameToHandle[s]
    THEN UNCHANGED sessionVars
    ELSE LET h == lastHandle[s] + 1
         IN  /\ h <= MaxHandles
             /\ lastHandle' = [lastHandle EXCEPT ![s] = h]
             /\ handles' = [handles EXCEPT ![s] = With(@, h, o)]
             /\ containerNameToHandle' = [containerNameToHandle EXCEPT ![s] = With(@, n, h)]

CreateContainer(s, t, n) ==
    /\ boot = 3
    /\ \E o \in 1 .. MaxObjects :
          /\ Create(ResolveAlias(t), n, o)
          /\ RegisterContainer(s, n, o)
          /\ created' = <<ResolveAlias(t), objects'[o].type>>
    /\ UNCHANGED <<boot, kept>>

OpenContainer(s, t, n) ==
    /\ boot = 3
    /\ \E o \in 1 .. MaxObjects :
          /\ Open(ResolveAlias(t), n, o)
          /\ RegisterContainer(s, n, o)
    /\ UNCHANGED <<boot, kept, created>>

CloseForgettingName(s, h) ==  \* mutant: the name still has the handle
    /\ h \in DOMAIN handles[s]
    /\ handles' = [handles EXCEPT ![s] = Without(@, h)]
    /\ UNCHANGED <<boot, managerVars, kept, containerNameToHandle, lastHandle, created>>

\* The name is that of the Container, not the one under which it was registered.
CloseContainerHandle(s, h) ==
    /\ h \in DOMAIN handles[s]
    /\ LET n == objects[handles[s][h]].name
       IN  containerNameToHandle' = [containerNameToHandle EXCEPT ![s] = Without(@, n)]
    /\ handles' = [handles EXCEPT ![s] = Without(@, h)]
    /\ UNCHANGED <<boot, managerVars, kept, lastHandle, created>>

\* The SubscriptionInfo refers to the Container for good.
Subscribe(s, h) ==
    /\ h \in DOMAIN handles[s]
    /\ kept' = kept \cup {handles[s][h]}
    /\ UNCHANGED <<boot, managerVars, sessionVars, created>>

\* If the name is not listed Delete throws, after the storage is gone.
DeleteContainer(t, n) ==
    /\ boot = 3
    /\ <<ResolveAlias(t), n>> \in DOMAIN containers
    /\ containers' = Without(containers, <<ResolveAlias(t), n>>)
    /\ metaContainers' = Without(metaContainers, n)
    /\ UNCHANGED <<boot, objects, openContainers, kept, sessionVars, created>>

\* InvalidateConnection; the next session starts with empty tables.
Disconnect(s) ==
    /\ lastHandle[s] > 0
    /\ handles' = [handles EXCEPT ![s] = NoFunction]
    /\ containerNameToHandle' = [containerNameToHandle EXCEPT ![s] = NoFunction]
    /\ lastHandle' = [lastHandle EXCEPT ![s] = 0]
    /\ UNCHANGED <<boot, managerVars, kept, created>>

Next ==
    \/ Register
    \/ \E s \in Sessions, t \in Types \cup DOMAIN Aliases, n \in Names : CreateContainer(s, t, n)
    \/ \E s \in Sessions, t \in Types \cup {""}, n \in Names : OpenContainer(s, t, n)
    \/ \E s \in Sessions, h \in 1 .. MaxHandles : CloseContainerHandle(s, h) \/ Subscribe(s, h)
    \/ \E t \in Types, n \in Names : DeleteContainer(t, n)
    \/ \E s \in Sessions : Disconnect(s)

Spec == Init /\ [][Next]_vars

-----------------------------------------------------------------------------
(* Properties. *)

\* CreateOrOpen reuses objects: no storage has two Containers in use, and no name
\* has, so that all sessions that have a name open see the same data.
OneObjectPerStorage ==
    \A o, p \in DOMAIN objects :
        Live(o) /\ Live(p) /\ o # p =>
            objects[o].storage # objects[p].storage /\ objects[o].name # objects[p].name

\* The handle a session gets for a name, a new one or the one it had, stands for the
\* Container that the manager finds under the name.
HandleIsCurrent ==
    \A s \in Sessions : \A n \in DOMAIN containerNameToHandle[s] :
        LET h == containerNameToHandle[s][n]
        IN  h \in DOMAIN handles[s] /\ handles[s][h] = openContainers[n]

\* What __meta__/containers lists can be opened with the type it is listed with.
ListedExists ==
    \A n \in DOMAIN metaContainers : <<metaContainers[n], n>> \in DOMAIN containers

\* The inductive form of the first two.  A Container that is in use is the one that
\* openContainers_ has for its name,
LiveIsOpen ==
    /\ \A n \in DOMAIN openContainers : objects[openContainers[n]].name = n
    /\ \A o \in DOMAIN objects :
          Live(o) => /\ objects[o].name \in DOMAIN openContainers
                     /\ openContainers[objects[o].name] = o

\* the Containers that share a storage have the name it is stored under,
StorageHasName ==
    /\ \A o \in DOMAIN objects :
          /\ objects[o].storage \in DOMAIN objects
          /\ objects[objects[o].storage].name = objects[o].name
    /\ \A x \in DOMAIN containers :
          containers[x] \in DOMAIN objects /\ objects[containers[x]].name = x[2]

\* and the two tables of a session lead from name to handle and back.
TablesMatch ==
    /\ \A s \in Sessions : DOMAIN containerNameToHandle[s] \subseteq DOMAIN openContainers
    /\ \A s \in Sessions : \A h \in DOMAIN handles[s] :
          LET n == objects[handles[s][h]].name
          IN  n \in DOMAIN containerNameToHandle[s] /\ containerNameToHandle[s][n] = h

ManagerInv == TypeOK /\ LiveIsOpen /\ StorageHasName /\ TablesMatch /\ HandleIsCurrent

\* The list of containers lists itself ("it'll make it available on the
\* __meta__/containers list itself", ContainerManager.cpp:42).  It does not: the second
\* call finds the open container and returns before the list is written.
ListsItself == boot = 3 => "__meta__/containers" \in DOMAIN metaContainers

\* Creation with a type gives a container of that type ("check if user didn't ask for
\* wrong type", ContainerManager.cpp:100).  It does not: an open container is returned
\* whatever its type.
TypeAsked == created[1] = created[2]
==============================================================================
