------------------------ MODULE ContainerManagerProofs ------------------------
(***************************************************************************)
(* The container manager, for any sessions, names, types and aliases: no   *)
(* storage and no name has two Containers in use, a session's handle       *)
(* stands for the Container the manager has under the name, and what       *)
(* __meta__/containers lists exists.                                       *)
(*                                                                         *)
(* ManagerInv is the inductive invariant.  Two operations hand out a       *)
(* Container, Create and Open; Got says what both do, and the requests are *)
(* proved from it.                                                         *)
(***************************************************************************)
EXTENDS ContainerManager, TLAPS

(* Lemmas about With and Without. *)

\* With adds one pair to a table, or replaces it.
LEMMA WithLaws ==
    ASSUME NEW f, NEW x, NEW y
    PROVE  /\ DOMAIN With(f, x, y) = DOMAIN f \cup {x}
           /\ With(f, x, y)[x] = y
           /\ \A z \in DOMAIN f : z # x => With(f, x, y)[z] = f[z]
    BY DEF With

\* Without removes one.
LEMMA WithoutLaws ==
    ASSUME NEW f, NEW x
    PROVE  /\ DOMAIN Without(f, x) = DOMAIN f \ {x}
           /\ \A z \in DOMAIN f : z # x => Without(f, x)[z] = f[z]
    BY DEF Without, Restrict

\* The values of a table with one pair more, or one less.
LEMMA RangeLaws ==
    ASSUME NEW f, NEW x, NEW y
    PROVE  /\ Range(With(f, x, y)) \subseteq Range(f) \cup {y}
           /\ Range(Without(f, x)) \subseteq Range(f)
           /\ y \in Range(With(f, x, y))
           /\ x \notin DOMAIN f => Range(f) \subseteq Range(With(f, x, y))
    BY Zenon DEF With, Without, Restrict, Range

-----------------------------------------------------------------------------
(* Getting a Container. *)

\* A new Container o in front of a storage that is new too or has the name n already.
Made(n, o) ==
    /\ ~Reusable(n)
    /\ o = Len(objects) + 1 /\ o \in 1 .. MaxObjects
    /\ openContainers' = With(openContainers, n, o)
    /\ \E t \in SupportedTypes, st \in DOMAIN objects \cup {o} :
          /\ objects' = Append(objects, [name |-> n, type |-> t, storage |-> st])
          /\ st # o => objects[st].name = n
          /\ \/ containers' = containers
             \/ containers' = With(containers, <<t, n>>, st)
    /\ \/ metaContainers' = metaContainers
       \/ \E t \in SupportedTypes : metaContainers' = With(metaContainers, n, t)

Got(n, o) == Reuse(n, o) \/ Made(n, o)

\* Where objects is a sequence of records, an appended one is behind the others.
LEMMA AppendObject ==
    ASSUME NEW S, NEW q \in Seq(S), NEW r \in S
    PROVE  /\ Append(q, r) \in Seq(S)
           /\ DOMAIN Append(q, r) = DOMAIN q \cup {Len(q) + 1}
           /\ Len(q) + 1 \notin DOMAIN q
           /\ Append(q, r)[Len(q) + 1] = r
           /\ \A i \in DOMAIN q : Append(q, r)[i] = q[i]
    OBVIOUS

\* CreateOrOpen with create set.
LEMMA CreateGets ==
    ASSUME ManagerInv, NEW t, NEW n \in AllNames, NEW o, Create(t, n, o)
    PROVE  Got(n, o)
<1>1. CASE Reuse(n, o)
    BY <1>1 DEF Got
<1>2. CASE ~Reuse(n, o)
  <2>1. /\ ~Reusable(n) /\ t \in SupportedTypes
        /\ NewContainer(n, t, CreateStorage(t, n), o)
        /\ containers' = With(containers, <<t, n>>, CreateStorage(t, n))
        /\ metaContainers' = metaContainers \/ metaContainers' = With(metaContainers, n, t)
      BY <1>2 DEF Create
  <2>2. PICK st : st = CreateStorage(t, n)
      OBVIOUS
  <2>3. o = Len(objects) + 1 /\ o \in 1 .. MaxObjects
      BY <2>1, ManagerAssumption DEF NewContainer, ManagerInv, TypeOK
  <2>4. CASE <<t, n>> \in DOMAIN containers
    <3>1. st = containers[<<t, n>>] /\ <<t, n>>[2] = n
        BY <2>2, <2>4 DEF CreateStorage
    <3>2. st \in DOMAIN objects /\ objects[st].name = n
        BY <2>4, <3>1 DEF ManagerInv, StorageHasName
    <3>. QED BY <2>1, <2>2, <2>3, <3>2, Zenon DEF Got, Made, NewContainer
  <2>5. CASE <<t, n>> \notin DOMAIN containers
    <3>1. st = o
        BY <2>2, <2>3, <2>5 DEF CreateStorage
    <3>. QED BY <2>1, <2>2, <2>3, <3>1, Zenon DEF Got, Made, NewContainer
  <2>. QED BY <2>4, <2>5
<1>. QED BY <1>1, <1>2

\* And without.
LEMMA OpenGets ==
    ASSUME ManagerInv, NEW t, NEW n \in AllNames, NEW o, Open(t, n, o)
    PROVE  Got(n, o)
<1>1. CASE Reuse(n, o)
    BY <1>1 DEF Got
<1>2. CASE ~Reuse(n, o)
  <2>1. PICK type : /\ ~Reusable(n) /\ <<type, n>> \in DOMAIN containers
                    /\ NewContainer(n, type, containers[<<type, n>>], o)
                    /\ UNCHANGED <<containers, metaContainers>>
      BY <1>2, Zenon DEF Open
  <2>2. PICK st : st = containers[<<type, n>>]
      OBVIOUS
  <2>3. o = Len(objects) + 1 /\ o \in 1 .. MaxObjects
      BY <2>1, ManagerAssumption DEF NewContainer, ManagerInv, TypeOK
  <2>4. type \in SupportedTypes
      BY <2>1 DEF ManagerInv, TypeOK
  <2>5. <<type, n>>[2] = n
      OBVIOUS
  <2>6. st \in DOMAIN objects /\ objects[st].name = n
      BY <2>1, <2>2, <2>5 DEF ManagerInv, StorageHasName
  <2>. QED BY <2>1, <2>2, <2>3, <2>4, <2>6 DEF Got, Made, NewContainer
<1>. QED BY <1>1, <1>2

\* The manager's part of the types, which no session changes.
ManagerTypes ==
    /\ DOMAIN containers \subseteq SupportedTypes \X AllNames
    /\ Range(containers) \subseteq 1 .. MaxObjects
    /\ objects \in Seq([name : AllNames, type : SupportedTypes, storage : 1 .. MaxObjects])
    /\ DOMAIN openContainers \subseteq AllNames
    /\ Range(openContainers) \subseteq DOMAIN objects
    /\ DOMAIN metaContainers \subseteq AllNames /\ Range(metaContainers) \subseteq SupportedTypes

\* The Container a request gets has the name, is the only one in use that has it, and is
\* the one the manager finds from now on; the others stay what they are.
LEMMA GotFacts ==
    ASSUME ManagerInv, NEW n \in AllNames, NEW o, Got(n, o)
    PROVE  /\ DOMAIN objects' = DOMAIN objects \cup {o} /\ objects'[o].name = n
           /\ \A p \in DOMAIN objects : objects'[p] = objects[p]
           /\ DOMAIN openContainers' = DOMAIN openContainers \cup {n}
           /\ openContainers'[n] = o
           /\ \A m \in DOMAIN openContainers :
                 m # n \/ Live(openContainers[m]) => openContainers'[m] = openContainers[m]
           /\ \A p \in DOMAIN objects : Live(p) /\ objects[p].name = n => p = o
<1>1. CASE Reuse(n, o)
  <2>1. /\ UNCHANGED <<objects, openContainers>>
        /\ n \in DOMAIN openContainers /\ o = openContainers[n]
      BY <1>1 DEF Reuse, Reusable, managerVars
  <2>2. o \in DOMAIN objects /\ objects[o].name = n
      BY <2>1 DEF ManagerInv, TypeOK, LiveIsOpen, Range
  <2>3. \A p \in DOMAIN objects : Live(p) /\ objects[p].name = n => p = o
      BY <2>1 DEF ManagerInv, LiveIsOpen
  <2>4. DOMAIN openContainers' = DOMAIN openContainers \cup {n} /\ openContainers'[n] = o
      BY <2>1
  <2>5. DOMAIN objects' = DOMAIN objects \cup {o} /\ objects'[o].name = n
      BY <2>1, <2>2
  <2>. QED BY <2>1, <2>3, <2>4, <2>5
<1>2. CASE Made(n, o)
  <2>1. PICK r \in [name : AllNames, type : SupportedTypes, storage : 1 .. MaxObjects] :
            objects' = Append(objects, r) /\ r.name = n
    <3>1. PICK t \in SupportedTypes, st \in DOMAIN objects \cup {o} :
              objects' = Append(objects, [name |-> n, type |-> t, storage |-> st])
        BY <1>2, Zenon DEF Made
    <3>2. st \in 1 .. MaxObjects
        BY <1>2, ManagerAssumption, SMT, Z3 DEF Made, ManagerInv, TypeOK
    <3>. QED BY <3>1, <3>2
  <2>2. o = Len(objects) + 1 /\ openContainers' = With(openContainers, n, o) /\ ~Reusable(n)
      BY <1>2 DEF Made
  <2>3. /\ DOMAIN objects' = DOMAIN objects \cup {o} /\ objects'[o] = r
        /\ \A p \in DOMAIN objects : objects'[p] = objects[p]
      BY <2>1, <2>2, AppendObject DEF ManagerInv, TypeOK
  <2>4. \A m \in DOMAIN openContainers : Live(openContainers[m]) => m # n
      BY <2>2 DEF Reusable
  <2>5. \A p \in DOMAIN objects : ~(Live(p) /\ objects[p].name = n)
      BY <2>4 DEF ManagerInv, LiveIsOpen
  <2>6. /\ DOMAIN openContainers' = DOMAIN openContainers \cup {n} /\ openContainers'[n] = o
        /\ \A m \in DOMAIN openContainers : m # n => openContainers'[m] = openContainers[m]
      BY <2>2 DEF With
  <2>. QED BY <2>1, <2>3, <2>4, <2>5, <2>6
<1>. QED BY <1>1, <1>2 DEF Got

\* The types and the storages' names after it.
LEMMA GotTypes ==
    ASSUME ManagerInv, NEW n \in AllNames, NEW o, Got(n, o)
    PROVE  ManagerTypes' /\ StorageHasName'
<1>1. CASE Reuse(n, o)
    BY <1>1, Zenon DEF Reuse, managerVars, ManagerTypes, ManagerInv, TypeOK, StorageHasName
<1>2. CASE Made(n, o)
  <2>1. PICK t \in SupportedTypes, st \in DOMAIN objects \cup {o} :
            /\ objects' = Append(objects, [name |-> n, type |-> t, storage |-> st])
            /\ st # o => objects[st].name = n
            /\ containers' = containers \/ containers' = With(containers, <<t, n>>, st)
      BY <1>2, Zenon DEF Made
  <2>2. st \in 1 .. MaxObjects
      BY <1>2, ManagerAssumption, SMT, Z3 DEF Made, ManagerInv, TypeOK
  <2>3. o = Len(objects) + 1 /\ openContainers' = With(openContainers, n, o)
      BY <1>2 DEF Made
  <2>4. [name |-> n, type |-> t, storage |-> st]
            \in [name : AllNames, type : SupportedTypes, storage : 1 .. MaxObjects]
      BY <2>2
  <2>5. objects' \in Seq([name : AllNames, type : SupportedTypes, storage : 1 .. MaxObjects])
      BY <2>1, <2>4, AppendObject DEF ManagerInv, TypeOK
  <2>6. objects'[o] = [name |-> n, type |-> t, storage |-> st]
      BY <2>1, <2>3, <2>4, AppendObject DEF ManagerInv, TypeOK
  <2>7. /\ DOMAIN objects' = DOMAIN objects \cup {o}
        /\ \A p \in DOMAIN objects : objects'[p] = objects[p]
      BY GotFacts, Zenon
  <2>8. DOMAIN openContainers' \subseteq AllNames /\ Range(openContainers') \subseteq DOMAIN objects'
      BY <2>3, <2>7, Zenon DEF With, Range, ManagerInv, TypeOK
  <2>9. DOMAIN metaContainers' \subseteq AllNames /\ Range(metaContainers') \subseteq SupportedTypes
    <3>1. CASE metaContainers' = metaContainers
        BY <3>1 DEF ManagerInv, TypeOK
    <3>2. ASSUME NEW u \in SupportedTypes, metaContainers' = With(metaContainers, n, u)
          PROVE  /\ DOMAIN metaContainers' \subseteq AllNames
                 /\ Range(metaContainers') \subseteq SupportedTypes
        BY <3>2, Zenon DEF With, Range, ManagerInv, TypeOK
    <3>. QED BY <1>2, <3>1, <3>2 DEF Made
  <2>10. st \in DOMAIN objects' /\ objects'[st].name = n
      BY <2>1, <2>6, <2>7
  <2>11. /\ DOMAIN containers' \subseteq SupportedTypes \X AllNames
         /\ Range(containers') \subseteq 1 .. MaxObjects
      BY <2>1, <2>2, SMT, Z3 DEF With, Range, ManagerInv, TypeOK
  <2>12. ASSUME NEW x \in DOMAIN containers'
         PROVE  containers'[x] \in DOMAIN objects' /\ objects'[containers'[x]].name = x[2]
    <3>1. CASE x \in DOMAIN containers /\ containers'[x] = containers[x]
        BY <2>7, <3>1 DEF ManagerInv, StorageHasName
    <3>2. CASE x = <<t, n>> /\ containers'[x] = st
        BY <2>10, <3>2
    <3>. QED BY <2>1, <2>12, <3>1, <3>2 DEF With
  <2>13. \A p \in DOMAIN objects' :
            objects'[p].storage \in DOMAIN objects' /\ objects'[objects'[p].storage].name = objects'[p].name
    <3>. TAKE p \in DOMAIN objects'
    <3>1. CASE p \in DOMAIN objects
        BY <2>7, <3>1 DEF ManagerInv, StorageHasName
    <3>2. CASE p = o
        BY <2>6, <2>10, <3>2
    <3>. QED BY <2>7, <3>1, <3>2
  <2>. QED BY <2>5, <2>8, <2>9, <2>11, <2>12, <2>13, Zenon DEF ManagerTypes, StorageHasName
<1>. QED BY <1>1, <1>2 DEF Got

\* If the Container is the only one that comes into use, those in use are still the ones
\* the manager finds.
LEMMA GotLive ==
    ASSUME ManagerInv, NEW n \in AllNames, NEW o, Got(n, o),
           \A p \in DOMAIN objects : Live(p)' => Live(p) \/ p = o
    PROVE  LiveIsOpen'
<1>a. DOMAIN objects' = DOMAIN objects \cup {o} /\ objects'[o].name = n
    BY GotFacts, Zenon
<1>b. \A p \in DOMAIN objects : objects'[p] = objects[p]
    BY GotFacts, Zenon
<1>c. DOMAIN openContainers' = DOMAIN openContainers \cup {n} /\ openContainers'[n] = o
    BY GotFacts, Zenon
<1>d. \A m \in DOMAIN openContainers : m # n => openContainers'[m] = openContainers[m]
    BY GotFacts, Zenon
<1>e. \A p \in DOMAIN objects : Live(p) /\ objects[p].name = n => p = o
    BY GotFacts, Zenon
<1>1. ASSUME NEW m \in DOMAIN openContainers' PROVE objects'[openContainers'[m]].name = m
  <2>1. CASE m = n
      BY <2>1, <1>a, <1>c
  <2>2. CASE m # n
    <3>1. m \in DOMAIN openContainers /\ openContainers'[m] = openContainers[m]
        BY <1>1, <2>2, <1>c, <1>d
    <3>2. openContainers[m] \in DOMAIN objects /\ objects[openContainers[m]].name = m
        BY <3>1, SMT, Z3 DEF ManagerInv, TypeOK, LiveIsOpen, Range
    <3>. QED BY <2>2, <3>1, <3>2, <1>b, <1>c, <1>d, <1>e
  <2>. QED BY <2>1, <2>2
<1>2. ASSUME NEW p \in DOMAIN objects', Live(p)'
      PROVE  /\ objects'[p].name \in DOMAIN openContainers'
             /\ openContainers'[objects'[p].name] = p
  <2>1. CASE p = o
      BY <2>1, <1>a, <1>c
  <2>2. CASE p # o
    <3>1. p \in DOMAIN objects /\ Live(p) /\ objects'[p] = objects[p]
        BY <1>2, <2>2, <1>a, <1>b
    <3>2. objects[p].name \in DOMAIN openContainers /\ openContainers[objects[p].name] = p
        BY <3>1 DEF ManagerInv, LiveIsOpen
    <3>. QED BY <2>2, <3>1, <3>2, <1>b, <1>c, <1>d, <1>e
  <2>. QED BY <2>1, <2>2
<1>. QED BY <1>1, <1>2 DEF LiveIsOpen

-----------------------------------------------------------------------------
(* The tables of the sessions. *)

\* What the invariant says of the tables of one session.
SessionOK(s) ==
    /\ DOMAIN handles[s] \subseteq 1 .. lastHandle[s]
    /\ DOMAIN containerNameToHandle[s] \subseteq AllNames
    /\ \A m \in DOMAIN containerNameToHandle[s] :
          /\ m \in DOMAIN openContainers
          /\ containerNameToHandle[s][m] \in DOMAIN handles[s]
          /\ handles[s][containerNameToHandle[s][m]] = openContainers[m]
    /\ \A h \in DOMAIN handles[s] :
          /\ handles[s][h] \in DOMAIN objects
          /\ objects[handles[s][h]].name \in DOMAIN containerNameToHandle[s]
          /\ containerNameToHandle[s][objects[handles[s][h]].name] = h

OtherTypes ==
    /\ boot \in 0 .. 3
    /\ kept \subseteq DOMAIN objects
    /\ DOMAIN handles = Sessions /\ DOMAIN containerNameToHandle = Sessions
    /\ lastHandle \in [Sessions -> 0 .. MaxHandles]

ManagerParts ==
    /\ ManagerTypes /\ OtherTypes /\ LiveIsOpen /\ StorageHasName
    /\ \A s \in Sessions : SessionOK(s)

\* The invariant, session by session.
LEMMA InvParts == ManagerInv <=> ManagerParts
<1>1. ASSUME ManagerInv PROVE ManagerTypes /\ OtherTypes /\ LiveIsOpen /\ StorageHasName
    BY <1>1, Zenon DEF ManagerInv, TypeOK, ManagerTypes, OtherTypes
<1>2. ASSUME ManagerInv, NEW s \in Sessions PROVE SessionOK(s)
    BY <1>2, SMT, Z3 DEF ManagerInv, TypeOK, TablesMatch, HandleIsCurrent, SessionOK, Range
<1>3. ASSUME ManagerTypes, OtherTypes, \A s \in Sessions : SessionOK(s)
      PROVE  TypeOK /\ TablesMatch /\ HandleIsCurrent
  <2>1. TablesMatch /\ HandleIsCurrent
      BY <1>3 DEF SessionOK, TablesMatch, HandleIsCurrent
  <2>2. \A s \in Sessions : /\ DOMAIN handles[s] \subseteq 1 .. lastHandle[s]
                            /\ Range(handles[s]) \subseteq DOMAIN objects
                            /\ DOMAIN containerNameToHandle[s] \subseteq AllNames
                            /\ Range(containerNameToHandle[s]) \subseteq 1 .. lastHandle[s]
      BY <1>3, SMT, Z3 DEF SessionOK, Range
  <2>3. TypeOK
      BY <1>3, <2>2, Zenon DEF TypeOK, ManagerTypes, OtherTypes
  <2>. QED BY <2>1, <2>3
<1>. QED BY <1>1, <1>2, <1>3 DEF ManagerInv, ManagerParts

\* The same in the state after a step.
LEMMA InvPartsLater ==
    ASSUME ManagerTypes', OtherTypes', LiveIsOpen', StorageHasName',
           \A s \in Sessions : SessionOK(s)'
    PROVE  ManagerInv'
<1>1. ManagerParts'
    BY DEF ManagerParts
<1>. QED BY <1>1, InvParts, PTL

\* A session's tables and what they lead to are as they were.
LEMMA SessionKept ==
    ASSUME NEW s, SessionOK(s), UNCHANGED <<objects, openContainers>>,
           lastHandle'[s] = lastHandle[s], handles'[s] = handles[s],
           containerNameToHandle'[s] = containerNameToHandle[s]
    PROVE  SessionOK(s)'
    BY Zenon DEF SessionOK

\* A handle in a table is a handle of a Container in use.
LEMMA HandleIsLive ==
    ASSUME ManagerInv, NEW s \in Sessions, NEW h \in DOMAIN handles[s]
    PROVE  Live(handles[s][h]) /\ handles[s][h] \in DOMAIN objects
    BY DEF Live, Range, ManagerInv, TypeOK

\* A session whose tables a request leaves alone finds in them what it found before.
LEMMA GotTables ==
    ASSUME ManagerInv, NEW n \in AllNames, NEW o, Got(n, o), NEW s \in Sessions
    PROVE  /\ \A m \in DOMAIN containerNameToHandle[s] :
                 /\ m \in DOMAIN openContainers'
                 /\ containerNameToHandle[s][m] \in DOMAIN handles[s]
                 /\ handles[s][containerNameToHandle[s][m]] = openContainers'[m]
           /\ \A h \in DOMAIN handles[s] :
                 /\ handles[s][h] \in DOMAIN objects'
                 /\ objects'[handles[s][h]].name \in DOMAIN containerNameToHandle[s]
                 /\ containerNameToHandle[s][objects'[handles[s][h]].name] = h
<1>1. ASSUME NEW m \in DOMAIN containerNameToHandle[s]
      PROVE  /\ m \in DOMAIN openContainers'
             /\ containerNameToHandle[s][m] \in DOMAIN handles[s]
             /\ handles[s][containerNameToHandle[s][m]] = openContainers'[m]
  <2>1. /\ containerNameToHandle[s][m] \in DOMAIN handles[s]
        /\ handles[s][containerNameToHandle[s][m]] = openContainers[m]
      BY DEF ManagerInv, HandleIsCurrent
  <2>2. m \in DOMAIN openContainers
      BY DEF ManagerInv, TablesMatch
  <2>3. Live(openContainers[m])
      BY <2>1, HandleIsLive
  <2>4. DOMAIN openContainers' = DOMAIN openContainers \cup {n}
      BY GotFacts, Zenon
  <2>5. openContainers'[m] = openContainers[m]
      BY <2>2, <2>3, GotFacts, Zenon
  <2>. QED BY <2>1, <2>2, <2>4, <2>5
<1>2. ASSUME NEW h \in DOMAIN handles[s]
      PROVE  /\ handles[s][h] \in DOMAIN objects'
             /\ objects'[handles[s][h]].name \in DOMAIN containerNameToHandle[s]
             /\ containerNameToHandle[s][objects'[handles[s][h]].name] = h
  <2>1. handles[s][h] \in DOMAIN objects
      BY HandleIsLive
  <2>2. /\ DOMAIN objects' = DOMAIN objects \cup {o}
        /\ \A p \in DOMAIN objects : objects'[p] = objects[p]
      BY GotFacts, Zenon
  <2>. QED BY <2>1, <2>2, SMT, Z3 DEF ManagerInv, TablesMatch
<1>. QED BY <1>1, <1>2

\* RegisterContainer with a name the session has open already: the Container was in use.
LEMMA RegisteredIsLive ==
    ASSUME ManagerInv, NEW s \in Sessions, NEW n \in DOMAIN containerNameToHandle[s], NEW o, Got(n, o)
    PROVE  Reuse(n, o) /\ Live(o)
<1>1. /\ containerNameToHandle[s][n] \in DOMAIN handles[s]
      /\ handles[s][containerNameToHandle[s][n]] = openContainers[n]
      /\ n \in DOMAIN openContainers
    BY DEF ManagerInv, HandleIsCurrent, TablesMatch
<1>2. Reusable(n)
    BY <1>1, HandleIsLive DEF Reusable
<1>3. Reuse(n, o)
    BY <1>2 DEF Got, Made
<1>. QED BY <1>2, <1>3 DEF Reusable, Reuse

\* Where a session's tables stay as they are, they are still right.
LEMMA TablesStay ==
    ASSUME ManagerInv, NEW n \in AllNames, NEW o, Got(n, o), NEW s \in Sessions,
           handles'[s] = handles[s], containerNameToHandle'[s] = containerNameToHandle[s],
           lastHandle'[s] = lastHandle[s]
    PROVE  SessionOK(s)'
<1>1. SessionOK(s)
    BY InvParts DEF ManagerParts
<1>2. \A m \in DOMAIN containerNameToHandle[s] :
          /\ m \in DOMAIN openContainers'
          /\ containerNameToHandle[s][m] \in DOMAIN handles[s]
          /\ handles[s][containerNameToHandle[s][m]] = openContainers'[m]
    BY GotTables, Zenon
<1>3. \A h \in DOMAIN handles[s] :
          /\ handles[s][h] \in DOMAIN objects'
          /\ objects'[handles[s][h]].name \in DOMAIN containerNameToHandle[s]
          /\ containerNameToHandle[s][objects'[handles[s][h]].name] = h
    BY GotTables
<1>. QED BY <1>1, <1>2, <1>3, Zenon DEF SessionOK

\* RegisterContainer with a name that is new to the session: a new handle in both tables.
LEMMA TablesGrow ==
    ASSUME ManagerInv, NEW n \in AllNames, NEW o, Got(n, o), NEW s \in Sessions,
           n \notin DOMAIN containerNameToHandle[s], NEW h, h = lastHandle[s] + 1,
           lastHandle'[s] = h, handles'[s] = With(handles[s], h, o),
           containerNameToHandle'[s] = With(containerNameToHandle[s], n, h)
    PROVE  SessionOK(s)'
<1>1. SessionOK(s) /\ lastHandle[s] \in Nat
    BY InvParts, ManagerAssumption, SMT, Z3 DEF ManagerParts, OtherTypes
<1>2. h \notin DOMAIN handles[s] /\ DOMAIN handles[s] \subseteq 1 .. h /\ h \in 1 .. h
    BY <1>1, SMT, Z3 DEF SessionOK
<1>3. /\ DOMAIN handles'[s] = DOMAIN handles[s] \cup {h} /\ handles'[s][h] = o
      /\ \A g \in DOMAIN handles[s] : handles'[s][g] = handles[s][g]
    BY <1>2 DEF With
<1>4. /\ DOMAIN containerNameToHandle'[s] = DOMAIN containerNameToHandle[s] \cup {n}
      /\ containerNameToHandle'[s][n] = h
      /\ \A m \in DOMAIN containerNameToHandle[s] :
            containerNameToHandle'[s][m] = containerNameToHandle[s][m]
    BY DEF With
<1>5. DOMAIN openContainers' = DOMAIN openContainers \cup {n} /\ openContainers'[n] = o
    BY GotFacts, Zenon
<1>6. DOMAIN objects' = DOMAIN objects \cup {o} /\ objects'[o].name = n
    BY GotFacts, Zenon
<1>7. \A m \in DOMAIN containerNameToHandle[s] :
          /\ m \in DOMAIN openContainers'
          /\ containerNameToHandle[s][m] \in DOMAIN handles[s]
          /\ handles[s][containerNameToHandle[s][m]] = openContainers'[m]
    BY GotTables
<1>8. \A g \in DOMAIN handles[s] :
          /\ handles[s][g] \in DOMAIN objects'
          /\ objects'[handles[s][g]].name \in DOMAIN containerNameToHandle[s]
          /\ containerNameToHandle[s][objects'[handles[s][g]].name] = g
    BY GotTables
<1>9. \A m \in DOMAIN containerNameToHandle'[s] :
          /\ m \in DOMAIN openContainers'
          /\ containerNameToHandle'[s][m] \in DOMAIN handles'[s]
          /\ handles'[s][containerNameToHandle'[s][m]] = openContainers'[m]
    BY <1>3, <1>4, <1>5, <1>7, SMT, Z3
<1>10. \A g \in DOMAIN handles'[s] :
          /\ handles'[s][g] \in DOMAIN objects'
          /\ objects'[handles'[s][g]].name \in DOMAIN containerNameToHandle'[s]
          /\ containerNameToHandle'[s][objects'[handles'[s][g]].name] = g
    BY <1>3, <1>4, <1>6, <1>8, SMT, Z3
<1>. QED BY <1>1, <1>2, <1>3, <1>4, <1>9, <1>10, Zenon DEF SessionOK

\* A request that gets a Container and registers it.
LEMMA RequestStep ==
    ASSUME ManagerInv, NEW s \in Sessions, NEW n \in AllNames, NEW o, Got(n, o),
           RegisterContainer(s, n, o), UNCHANGED <<boot, kept>>
    PROVE  ManagerInv'
<1>1. OtherTypes
    BY InvParts DEF ManagerParts
<1>2. DOMAIN objects' = DOMAIN objects \cup {o}
    BY GotFacts, Zenon
<1>3. CASE n \in DOMAIN containerNameToHandle[s]
  <2>1. UNCHANGED sessionVars
      BY <1>3 DEF RegisterContainer
  <2>2. \A q \in Sessions : SessionOK(q)'
      BY <2>1, TablesStay DEF sessionVars
  <2>3. \A p : Live(p)' => Live(p)
      BY <2>1 DEF Live, sessionVars
  <2>4. LiveIsOpen'
      BY <2>3, GotLive
  <2>5. OtherTypes'
      BY <1>1, <1>2, <2>1 DEF OtherTypes, sessionVars
  <2>. QED BY <2>2, <2>4, <2>5, GotTypes, InvPartsLater
<1>4. CASE n \notin DOMAIN containerNameToHandle[s]
  <2>1. PICK h : /\ h = lastHandle[s] + 1 /\ h <= MaxHandles
                 /\ lastHandle' = [lastHandle EXCEPT ![s] = h]
                 /\ handles' = [handles EXCEPT ![s] = With(@, h, o)]
                 /\ containerNameToHandle' = [containerNameToHandle EXCEPT ![s] = With(@, n, h)]
      BY <1>4 DEF RegisterContainer
  <2>2. /\ lastHandle'[s] = h /\ handles'[s] = With(handles[s], h, o)
        /\ containerNameToHandle'[s] = With(containerNameToHandle[s], n, h)
      BY <1>1, <2>1 DEF OtherTypes
  <2>3. \A q \in Sessions \ {s} :
          /\ lastHandle'[q] = lastHandle[q] /\ handles'[q] = handles[q]
          /\ containerNameToHandle'[q] = containerNameToHandle[q]
      BY <1>1, <2>1 DEF OtherTypes
  <2>4. SessionOK(s)'
      BY <1>4, <2>1, <2>2, TablesGrow
  <2>5. ASSUME NEW q \in Sessions PROVE SessionOK(q)'
      BY <2>3, <2>4, TablesStay
  <2>6. ASSUME NEW p, Live(p)' PROVE Live(p) \/ p = o
    <3>1. \A q \in Sessions \ {s} : p \in Range(handles'[q]) => p \in Range(handles[q])
        BY <2>3
    <3>2. p \in Range(handles'[s]) => p \in Range(handles[s]) \/ p = o
        BY <2>2, RangeLaws, SMT, Z3
    <3>. QED BY <2>6, <3>1, <3>2 DEF Live
  <2>7. LiveIsOpen'
      BY <2>6, GotLive
  <2>8. OtherTypes'
      BY <1>1, <1>2, <2>1, ManagerAssumption DEF OtherTypes
  <2>. QED BY <2>5, <2>7, <2>8, GotTypes, InvPartsLater
<1>. QED BY <1>3, <1>4

-----------------------------------------------------------------------------
(* The steps. *)

\* In the initial state every table is empty.
LEMMA InitManager == Init => ManagerInv
<1>. SUFFICES ASSUME Init PROVE ManagerParts
    BY InvParts
<1>1. DOMAIN NoFunction = {}
    BY DEF NoFunction
<1>2. ManagerTypes
  <2>1. <<>> \in Seq([name : AllNames, type : SupportedTypes, storage : 1 .. MaxObjects])
      OBVIOUS
  <2>. QED BY <1>1, <2>1, Zenon DEF Init, ManagerTypes, Range
<1>3. OtherTypes
  <2>1. 0 \in 0 .. 3 /\ 0 \in 0 .. MaxHandles
      BY ManagerAssumption
  <2>. QED BY <2>1, Zenon DEF Init, OtherTypes
<1>4. LiveIsOpen /\ StorageHasName
  <2>1. DOMAIN objects = {} /\ DOMAIN openContainers = {} /\ DOMAIN containers = {}
    <3>1. DOMAIN << >> = {}
        OBVIOUS
    <3>. QED BY <1>1, <3>1, Zenon DEF Init
  <2>. QED BY <2>1 DEF LiveIsOpen, StorageHasName
<1>5. \A s \in Sessions : SessionOK(s)
    BY <1>1, Zenon DEF Init, SessionOK
<1>. QED BY <1>2, <1>3, <1>4, <1>5 DEF ManagerParts

\* RegisterFundamentalStorageManagers: the server keeps what it creates.
LEMMA RegisterStep == ManagerInv /\ Register => ManagerInv'
<1>. SUFFICES ASSUME ManagerInv, Register PROVE ManagerInv'
    OBVIOUS
<1>1. PICK n \in AllNames, o \in 1 .. MaxObjects : Got(n, o) /\ kept' = kept \cup {o}
  <2>1. "__meta__/available_types" \in AllNames /\ "__meta__/containers" \in AllNames
      BY DEF AllNames, MetaNames
  <2>. QED BY <2>1, CreateGets DEF Register
<1>2. boot' = boot + 1 /\ boot < 3 /\ UNCHANGED sessionVars
    BY DEF Register
<1>3. \A s \in Sessions : SessionOK(s)'
    BY <1>1, <1>2, TablesStay DEF sessionVars
<1>4. \A p : Live(p)' => Live(p) \/ p = o
    BY <1>1, <1>2 DEF Live, sessionVars
<1>5. LiveIsOpen'
    BY <1>1, <1>4, GotLive
<1>6. DOMAIN objects' = DOMAIN objects \cup {o}
    BY <1>1, GotFacts, Zenon
<1>7. OtherTypes'
    BY <1>1, <1>2, <1>6, InvParts DEF ManagerParts, OtherTypes, sessionVars
<1>8. ManagerTypes' /\ StorageHasName'
    BY <1>1, GotTypes
<1>. QED BY <1>3, <1>5, <1>7, <1>8, InvPartsLater

\* What a step that leaves the manager alone has to show: no Container comes into use.
LEMMA ManagerAlone ==
    ASSUME ManagerInv, UNCHANGED managerVars, OtherTypes',
           \A p \in DOMAIN objects : Live(p)' => Live(p),
           \A s \in Sessions : SessionOK(s)'
    PROVE  ManagerInv'
<1>1. ManagerTypes' /\ StorageHasName'
    BY InvParts DEF ManagerParts, ManagerTypes, StorageHasName, managerVars
<1>2. LiveIsOpen'
    BY InvParts DEF ManagerParts, LiveIsOpen, managerVars
<1>. QED BY <1>1, <1>2, InvPartsLater

\* Closing a handle takes its name from the one table and the handle from the other.
LEMMA CloseStep ==
    ASSUME ManagerInv, NEW s \in Sessions, NEW h, CloseContainerHandle(s, h)
    PROVE  ManagerInv'
<1>. DEFINE n == objects[handles[s][h]].name
<1>0. ManagerParts
    BY InvParts
<1>1. /\ h \in DOMAIN handles[s] /\ UNCHANGED <<boot, managerVars, kept, lastHandle>>
      /\ handles' = [handles EXCEPT ![s] = Without(@, h)]
      /\ containerNameToHandle' = [containerNameToHandle EXCEPT ![s] = Without(@, n)]
    BY DEF CloseContainerHandle
<1>2. /\ handles'[s] = Without(handles[s], h)
      /\ containerNameToHandle'[s] = Without(containerNameToHandle[s], n)
    BY <1>0, <1>1 DEF ManagerParts, OtherTypes
<1>3. \A q \in Sessions \ {s} : /\ handles'[q] = handles[q]
                                /\ containerNameToHandle'[q] = containerNameToHandle[q]
    BY <1>0, <1>1 DEF ManagerParts, OtherTypes
<1>4. OtherTypes'
    BY <1>0, <1>1 DEF ManagerParts, OtherTypes, managerVars
<1>5. ASSUME NEW p \in DOMAIN objects, Live(p)' PROVE Live(p)
  <2>1. \A q \in Sessions : p \in Range(handles'[q]) => p \in Range(handles[q])
      BY <1>2, <1>3, RangeLaws, Zenon
  <2>. QED BY <1>1, <1>5, <2>1 DEF Live
<1>6. SessionOK(s)'
  <2>1. /\ DOMAIN handles'[s] = DOMAIN handles[s] \ {h}
        /\ \A g \in DOMAIN handles[s] : g # h => handles'[s][g] = handles[s][g]
      BY <1>2 DEF Without, Restrict
  <2>2. /\ DOMAIN containerNameToHandle'[s] = DOMAIN containerNameToHandle[s] \ {n}
        /\ \A m \in DOMAIN containerNameToHandle[s] :
              m # n => containerNameToHandle'[s][m] = containerNameToHandle[s][m]
      BY <1>2 DEF Without, Restrict
  <2>3. SessionOK(s) /\ UNCHANGED <<objects, openContainers, lastHandle>>
      BY <1>0, <1>1 DEF ManagerParts, managerVars
  <2>4. ASSUME NEW m \in DOMAIN containerNameToHandle[s], m # n
        PROVE  containerNameToHandle[s][m] # h
    <3>1. objects[openContainers[m]].name = m
        BY <1>0, <2>3, Zenon DEF ManagerParts, LiveIsOpen, SessionOK
    <3>. QED BY <2>3, <2>4, <3>1, Zenon DEF SessionOK
  <2>5. ASSUME NEW g \in DOMAIN handles[s], g # h PROVE objects[handles[s][g]].name # n
      BY <1>1, <2>3, <2>5, Zenon DEF SessionOK
  <2>. HIDE DEF n
  <2>6. ASSUME NEW m \in DOMAIN containerNameToHandle'[s]
        PROVE  /\ m \in DOMAIN openContainers
               /\ containerNameToHandle'[s][m] \in DOMAIN handles'[s]
               /\ handles'[s][containerNameToHandle'[s][m]] = openContainers[m]
    <3>1. /\ m \in DOMAIN containerNameToHandle[s] /\ m # n
          /\ containerNameToHandle'[s][m] = containerNameToHandle[s][m]
        BY <2>2, <2>6
    <3>2. /\ m \in DOMAIN openContainers /\ containerNameToHandle[s][m] \in DOMAIN handles[s]
          /\ handles[s][containerNameToHandle[s][m]] = openContainers[m]
        BY <2>3, <3>1, Zenon DEF SessionOK
    <3>. QED BY <2>1, <2>4, <3>1, <3>2
  <2>7. ASSUME NEW g \in DOMAIN handles'[s]
        PROVE  /\ handles'[s][g] \in DOMAIN objects
               /\ objects[handles'[s][g]].name \in DOMAIN containerNameToHandle'[s]
               /\ containerNameToHandle'[s][objects[handles'[s][g]].name] = g
    <3>1. g \in DOMAIN handles[s] /\ g # h /\ handles'[s][g] = handles[s][g]
        BY <2>1, <2>7
    <3>2. /\ handles[s][g] \in DOMAIN objects
          /\ objects[handles[s][g]].name \in DOMAIN containerNameToHandle[s]
          /\ containerNameToHandle[s][objects[handles[s][g]].name] = g
        BY <2>3, <3>1, Zenon DEF SessionOK
    <3>. QED BY <2>2, <2>5, <3>1, <3>2
  <2>. QED BY <2>1, <2>2, <2>3, <2>6, <2>7, Zenon DEF SessionOK
<1>7. ASSUME NEW q \in Sessions PROVE SessionOK(q)'
  <2>1. CASE q # s
    <3>1. SessionOK(q) /\ UNCHANGED <<objects, openContainers>> /\ lastHandle'[q] = lastHandle[q]
        BY <1>0, <1>1, <1>3, <2>1 DEF ManagerParts, managerVars
    <3>2. handles'[q] = handles[q] /\ containerNameToHandle'[q] = containerNameToHandle[q]
        BY <1>3, <2>1
    <3>. QED BY <3>1, <3>2, SessionKept
  <2>. QED BY <1>6, <2>1
<1>. QED BY <1>1, <1>4, <1>5, <1>7, ManagerAlone

\* A session that ends has no tables left.
LEMMA DisconnectStep ==
    ASSUME ManagerInv, NEW s \in Sessions, Disconnect(s)
    PROVE  ManagerInv'
<1>0. ManagerParts /\ DOMAIN NoFunction = {}
    BY InvParts DEF NoFunction
<1>1. /\ UNCHANGED <<boot, managerVars, kept>>
      /\ handles' = [handles EXCEPT ![s] = NoFunction]
      /\ containerNameToHandle' = [containerNameToHandle EXCEPT ![s] = NoFunction]
      /\ lastHandle' = [lastHandle EXCEPT ![s] = 0]
    BY DEF Disconnect
<1>2. handles'[s] = NoFunction /\ containerNameToHandle'[s] = NoFunction /\ lastHandle'[s] = 0
    BY <1>0, <1>1 DEF ManagerParts, OtherTypes
<1>3. \A q \in Sessions \ {s} :
          /\ handles'[q] = handles[q] /\ containerNameToHandle'[q] = containerNameToHandle[q]
          /\ lastHandle'[q] = lastHandle[q]
    BY <1>0, <1>1 DEF ManagerParts, OtherTypes
<1>4. OtherTypes'
  <2>1. 0 \in 0 .. MaxHandles
      BY ManagerAssumption
  <2>2. lastHandle' \in [Sessions -> 0 .. MaxHandles]
      BY <1>0, <1>1, <2>1 DEF ManagerParts, OtherTypes
  <2>. QED BY <1>0, <1>1, <2>2 DEF ManagerParts, OtherTypes, managerVars
<1>5. ASSUME NEW p \in DOMAIN objects, Live(p)' PROVE Live(p)
  <2>1. Range(handles'[s]) = {}
      BY <1>0, <1>2 DEF Range
  <2>. QED BY <1>1, <1>3, <1>5, <2>1 DEF Live
<1>6. SessionOK(s)'
    BY <1>0, <1>2 DEF SessionOK
<1>7. ASSUME NEW q \in Sessions PROVE SessionOK(q)'
  <2>1. CASE q # s
    <3>1. SessionOK(q) /\ UNCHANGED <<objects, openContainers>> /\ lastHandle'[q] = lastHandle[q]
        BY <1>0, <1>1, <1>3, <2>1 DEF ManagerParts, managerVars
    <3>2. handles'[q] = handles[q] /\ containerNameToHandle'[q] = containerNameToHandle[q]
        BY <1>3, <2>1
    <3>. QED BY <3>1, <3>2, SessionKept
  <2>. QED BY <1>6, <2>1
<1>. QED BY <1>1, <1>4, <1>5, <1>7, ManagerAlone

\* A storage that is deleted takes nothing from the Containers in front of it.
LEMMA DeleteStep ==
    ASSUME ManagerInv, NEW t, NEW n, DeleteContainer(t, n)
    PROVE  ManagerInv'
<1>0. ManagerParts
    BY InvParts
<1>1. /\ UNCHANGED <<boot, objects, openContainers, kept, sessionVars>>
      /\ containers' = Without(containers, <<ResolveAlias(t), n>>)
      /\ metaContainers' = Without(metaContainers, n)
    BY DEF DeleteContainer
<1>2. /\ DOMAIN containers' \subseteq DOMAIN containers
      /\ \A x \in DOMAIN containers' : containers'[x] = containers[x]
    BY <1>1, Zenon DEF Without, Restrict
<1>3. /\ DOMAIN metaContainers' \subseteq DOMAIN metaContainers
      /\ \A m \in DOMAIN metaContainers' : metaContainers'[m] = metaContainers[m]
    BY <1>1 DEF Without, Restrict
<1>4. ManagerTypes'
  <2>1. Range(containers') \subseteq Range(containers) /\ Range(metaContainers') \subseteq Range(metaContainers)
      BY <1>2, <1>3, Zenon DEF Range
  <2>. QED BY <1>0, <1>1, <1>2, <1>3, <2>1, Zenon DEF ManagerParts, ManagerTypes
<1>5. StorageHasName'
    BY <1>0, <1>1, <1>2 DEF ManagerParts, StorageHasName
<1>6. LiveIsOpen'
    BY <1>0, <1>1 DEF ManagerParts, LiveIsOpen, Live, sessionVars
<1>7. OtherTypes'
    BY <1>0, <1>1 DEF ManagerParts, OtherTypes, sessionVars
<1>8. \A s \in Sessions : SessionOK(s)'
    BY <1>0, <1>1, SessionKept DEF ManagerParts, sessionVars
<1>. QED BY <1>4, <1>5, <1>6, <1>7, <1>8, InvPartsLater

\* A subscription keeps a Container that is in use already.
LEMMA SubscribeStep ==
    ASSUME ManagerInv, NEW s \in Sessions, NEW h, Subscribe(s, h)
    PROVE  ManagerInv'
<1>0. ManagerParts
    BY InvParts
<1>1. /\ h \in DOMAIN handles[s] /\ kept' = kept \cup {handles[s][h]}
      /\ UNCHANGED <<boot, managerVars, sessionVars>>
    BY DEF Subscribe
<1>2. Live(handles[s][h]) /\ handles[s][h] \in DOMAIN objects
    BY <1>1, HandleIsLive
<1>3. OtherTypes'
    BY <1>0, <1>1, <1>2 DEF ManagerParts, OtherTypes, managerVars, sessionVars
<1>4. ASSUME NEW p \in DOMAIN objects, Live(p)' PROVE Live(p)
  <2>1. CASE p = handles[s][h]
      BY <1>2, <2>1
  <2>2. CASE p # handles[s][h]
      BY <1>1, <1>4, <2>2 DEF Live, sessionVars
  <2>. QED BY <2>1, <2>2
<1>5. \A q \in Sessions : SessionOK(q)'
    BY <1>0, <1>1, SessionKept DEF ManagerParts, managerVars, sessionVars
<1>. QED BY <1>1, <1>3, <1>4, <1>5, ManagerAlone

\* Every step preserves the invariant.
LEMMA ManagerStep == ManagerInv /\ [Next]_vars => ManagerInv'
<1>. SUFFICES ASSUME ManagerInv, [Next]_vars PROVE ManagerInv'
    OBVIOUS
<1>0. Names \subseteq AllNames
    BY DEF AllNames
<1>1. CASE Register
    BY <1>1, RegisterStep
<1>2. ASSUME NEW s \in Sessions, NEW t, NEW n \in Names, CreateContainer(s, t, n)
      PROVE  ManagerInv'
  <2>1. PICK o : /\ Create(ResolveAlias(t), n, o) /\ RegisterContainer(s, n, o)
                 /\ UNCHANGED <<boot, kept>>
      BY <1>2 DEF CreateContainer
  <2>2. n \in AllNames
      BY <1>0
  <2>. QED BY <2>1, <2>2, CreateGets, RequestStep
<1>3. ASSUME NEW s \in Sessions, NEW t, NEW n \in Names, OpenContainer(s, t, n)
      PROVE  ManagerInv'
  <2>1. PICK o : /\ Open(ResolveAlias(t), n, o) /\ RegisterContainer(s, n, o)
                 /\ UNCHANGED <<boot, kept>>
      BY <1>3 DEF OpenContainer
  <2>2. n \in AllNames
      BY <1>0
  <2>. QED BY <2>1, <2>2, OpenGets, RequestStep
<1>4. ASSUME NEW s \in Sessions, NEW h, CloseContainerHandle(s, h) \/ Subscribe(s, h)
      PROVE  ManagerInv'
    BY <1>4, CloseStep, SubscribeStep
<1>5. ASSUME NEW t, NEW n, DeleteContainer(t, n) PROVE ManagerInv'
    BY <1>5, DeleteStep
<1>6. ASSUME NEW s \in Sessions, Disconnect(s) PROVE ManagerInv'
    BY <1>6, DisconnectStep
<1>7. CASE UNCHANGED vars
  <2>1. ManagerParts /\ UNCHANGED <<boot, managerVars, kept, sessionVars>>
      BY <1>7, InvParts DEF vars
  <2>2. OtherTypes'
      BY <2>1 DEF ManagerParts, OtherTypes, managerVars, sessionVars
  <2>3. \A p \in DOMAIN objects : Live(p)' => Live(p)
      BY <2>1 DEF Live, sessionVars
  <2>4. \A s \in Sessions : SessionOK(s)'
      BY <2>1, SessionKept DEF ManagerParts, managerVars, sessionVars
  <2>. QED BY <2>1, <2>2, <2>3, <2>4, ManagerAlone
<1>. QED BY <1>1, <1>2, <1>3, <1>4, <1>5, <1>6, <1>7, Zenon DEF Next

-----------------------------------------------------------------------------
(* The theorems. *)

\* Two Containers in use with one storage would have one name, and the manager has one
\* Container per name.
LEMMA ManagerInvSuffices == ManagerInv => OneObjectPerStorage
<1>. SUFFICES ASSUME ManagerInv, NEW o \in DOMAIN objects, NEW p \in DOMAIN objects,
                     Live(o), Live(p), o # p
              PROVE  objects[o].storage # objects[p].storage /\ objects[o].name # objects[p].name
    BY DEF OneObjectPerStorage
<1>1. openContainers[objects[o].name] = o /\ openContainers[objects[p].name] = p
    BY DEF ManagerInv, LiveIsOpen
<1>2. objects[o].name # objects[p].name
    BY <1>1
<1>3. /\ objects[objects[o].storage].name = objects[o].name
      /\ objects[objects[p].storage].name = objects[p].name
    BY DEF ManagerInv, StorageHasName
<1>. QED BY <1>2, <1>3

\* Whatever containers sessions create, open, close and delete, and whenever they connect
\* and disconnect: no storage and no name has two Containers in use.
THEOREM OneContainerInUse == Spec => []OneObjectPerStorage
<1>1. Init => ManagerInv
    BY InitManager
<1>2. ManagerInv /\ [Next]_vars => ManagerInv'
    BY ManagerStep
<1>. QED BY <1>1, <1>2, ManagerInvSuffices, PTL DEF Spec

\* And a handle stands for the Container the manager has under the name it was asked for.
THEOREM HandlesAreCurrent == Spec => []HandleIsCurrent
<1>1. Init => ManagerInv
    BY InitManager
<1>2. ManagerInv /\ [Next]_vars => ManagerInv'
    BY ManagerStep
<1>3. ManagerInv => HandleIsCurrent
    BY DEF ManagerInv
<1>. QED BY <1>1, <1>2, <1>3, PTL DEF Spec

\* Create lists what it stores, and a delete takes the name from the list, whatever the
\* type under which it was listed.
LEMMA ListedStep == ListedExists /\ [Next]_vars => ListedExists'
<1>. SUFFICES ASSUME ListedExists, [Next]_vars PROVE ListedExists'
    OBVIOUS
<1>0. CASE UNCHANGED <<containers, metaContainers>>
    BY <1>0 DEF ListedExists
<1>1. ASSUME NEW t, NEW n, NEW o, Create(t, n, o) PROVE ListedExists'
  <2>1. CASE Reuse(n, o)
      BY <1>0, <2>1 DEF Reuse, managerVars
  <2>2. CASE ~Reuse(n, o)
    <3>1. /\ \E storage : containers' = With(containers, <<t, n>>, storage)
          /\ metaContainers' = metaContainers \/ metaContainers' = With(metaContainers, n, t)
        BY <1>1, <2>2 DEF Create
    <3>2. DOMAIN containers' = DOMAIN containers \cup {<<t, n>>}
        BY <3>1 DEF With
    <3>3. CASE metaContainers' = metaContainers
        BY <3>2, <3>3 DEF ListedExists
    <3>4. CASE metaContainers' = With(metaContainers, n, t)
      <4>1. /\ DOMAIN metaContainers' = DOMAIN metaContainers \cup {n} /\ metaContainers'[n] = t
            /\ \A m \in DOMAIN metaContainers : m # n => metaContainers'[m] = metaContainers[m]
          BY <3>4 DEF With
      <4>. QED BY <3>2, <4>1 DEF ListedExists
    <3>. QED BY <3>1, <3>3, <3>4
  <2>. QED BY <2>1, <2>2
<1>2. ASSUME NEW t, NEW n, NEW o, Open(t, n, o) PROVE ListedExists'
    BY <1>0, <1>2, Zenon DEF Open, Reuse, managerVars
<1>3. ASSUME NEW t, NEW n, DeleteContainer(t, n) PROVE ListedExists'
  <2>1. PICK u : /\ containers' = Without(containers, <<u, n>>)
                 /\ metaContainers' = Without(metaContainers, n)
      BY <1>3, Zenon DEF DeleteContainer
  <2>2. ASSUME NEW m \in DOMAIN metaContainers'
        PROVE  <<metaContainers'[m], m>> \in DOMAIN containers'
    <3>1. m \in DOMAIN metaContainers /\ m # n /\ metaContainers'[m] = metaContainers[m]
        BY <2>1, <2>2 DEF Without, Restrict
    <3>2. <<metaContainers[m], m>> \in DOMAIN containers
        BY <3>1 DEF ListedExists
    <3>. QED BY <2>1, <3>1, <3>2 DEF Without, Restrict
  <2>. QED BY <2>2, Zenon DEF ListedExists
<1>4. CASE Register
    BY <1>1, <1>4 DEF Register
<1>5. ASSUME NEW s, NEW t, NEW n, CreateContainer(s, t, n) \/ OpenContainer(s, t, n)
      PROVE  ListedExists'
    BY <1>1, <1>2, <1>5 DEF CreateContainer, OpenContainer
<1>6. ASSUME NEW s, NEW h, CloseContainerHandle(s, h) \/ Subscribe(s, h) \/ Disconnect(s)
      PROVE  ListedExists'
    BY <1>0, <1>6, Zenon DEF CloseContainerHandle, Subscribe, Disconnect, managerVars
<1>7. CASE UNCHANGED vars
    BY <1>0, <1>7 DEF vars, managerVars
<1>. QED BY <1>3, <1>4, <1>5, <1>6, <1>7, Zenon DEF Next

\* What __meta__/containers lists can be opened with the type it is listed with.
THEOREM ListedContainersExist == Spec => []ListedExists
<1>1. Init => ListedExists
    BY Zenon DEF Init, ListedExists, NoFunction
<1>. QED BY <1>1, ListedStep, PTL DEF Spec
==============================================================================
