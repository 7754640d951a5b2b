-------------------------- MODULE WebStorageProofs --------------------------
(***************************************************************************)
(* Identifiers of the DOM storage: for any number of instances, objects,    *)
(* origins, sessions and connections, an area owns its connection, and a    *)
(* session lives exactly as long as the object it was allocated for.        *)
(***************************************************************************)
EXTENDS WebStorage, TLAPS

\* A table nobody put anything in.
LEMMA Empty == DOMAIN Nothing = {}
BY DEF Nothing

\* The storage starts with no instance and no objects.
LEMMA InitInv == Init => StoreInv
<1> SUFFICES ASSUME Init PROVE StoreInv
  OBVIOUS
<1>1. StorageTypeOK
  BY Empty, StorageBounds DEF Init, StorageTypeOK
<1>2. OwnConnection
  BY Empty DEF Init, OwnConnection, Connected
<1>3. SessionsReclaimed
  BY Empty DEF Init, SessionsReclaimed
<1> QED
  BY <1>1, <1>2, <1>3 DEF StoreInv, StorageInv

-----------------------------------------------------------------------------
(* Types. *)

\* No operation takes a variable out of its type, nor hands an id out twice.
LEMMA StepType ==
  ASSUME StoreInv, [Next]_vars
  PROVE  StorageTypeOK'
<1> USE DEF StorageTypeOK, SessionIds, Connections, NamespaceIds, Local, Invalid
<1>0. StorageTypeOK /\ {MaxInstances, MaxSessions, MaxConnections} \subseteq Nat
  BY StorageBounds DEF StoreInv, StorageInv
<1>1. CASE StartInstance
  BY <1>0, <1>1, Empty DEF StartInstance
<1>2. CASE StopInstance
  BY <1>0, <1>2, Empty DEF StopInstance
<1>3. ASSUME NEW n \in Namespaces, CreateLocalStorageNamespace(n) PROVE StorageTypeOK'
  BY <1>0, <1>3 DEF CreateLocalStorageNamespace, instanceVars, Put
<1>4. ASSUME NEW n \in Namespaces, CreateSessionStorageNamespace(n) PROVE StorageTypeOK'
  BY <1>0, <1>4 DEF CreateSessionStorageNamespace, Put
<1>5. ASSUME NEW n \in Namespaces, NEW from \in DOMAIN namespace, Copy(n, from)
      PROVE  StorageTypeOK'
  BY <1>0, <1>5 DEF Copy, Put
<1>6. ASSUME NEW n \in DOMAIN namespace, DeleteNamespace(n) PROVE StorageTypeOK'
  BY <1>0, <1>6 DEF DeleteNamespace, Drop
<1>7. ASSUME NEW n \in DOMAIN namespace, NEW a \in Areas, NEW origin \in Origins,
             CreateStorageArea(a, n, origin)
      PROVE  StorageTypeOK'
  <2> DEFINE object == [parent |-> namespace[n].parent, connection |-> 0,
                        id |-> namespace[n].id, origin |-> origin]
  <2>1. object \in [parent : 1..instances, connection : Connections \cup {0},
                    id : NamespaceIds, origin : Origins]
    BY <1>0
  <2>2. CASE Reaches(object)
    BY <1>0, <1>7, <2>1, <2>2 DEF CreateStorageArea, Following, Put
  <2>3. CASE ~Reaches(object)
    BY <1>0, <1>7, <2>1, <2>3 DEF CreateStorageArea, Put
  <2> QED
    BY <2>2, <2>3
<1>8. ASSUME NEW a \in DOMAIN area, DeleteArea(a) PROVE StorageTypeOK'
  BY <1>0, <1>8 DEF DeleteArea, Drop
<1>9. ASSUME NEW a \in DOMAIN area, ChangeItem(a) PROVE StorageTypeOK'
  BY <1>0, <1>9 DEF ChangeItem
<1>10. CASE UNCHANGED vars
  BY <1>0, <1>10 DEF vars, instanceVars
<1> QED
  BY <1>1, <1>2, <1>3, <1>4, <1>5, <1>6, <1>7, <1>8, <1>9, <1>10 DEF Next

-----------------------------------------------------------------------------
(* Connections. *)

\* A step that touches neither areas, connections nor the instance.
LEMMA ConnectionsKept ==
  ASSUME OwnConnection, UNCHANGED <<instance, open, area>>
  PROVE  OwnConnection'
BY DEF OwnConnection, Connected

\* No operation lets two areas share a connection, or leaves one without an area.
LEMMA StepConnection ==
  ASSUME StoreInv, [Next]_vars
  PROVE  OwnConnection'
<1>0. StorageTypeOK /\ OwnConnection /\ {MaxInstances, MaxSessions, MaxConnections} \subseteq Nat
  BY StorageBounds DEF StoreInv, StorageInv
<1>1. CASE StartInstance
  <2>1. instance' = instances + 1 /\ open' = Nothing /\ area' = area /\ instances \in Nat
    BY <1>0, <1>1 DEF StartInstance, StorageTypeOK
  <2>2. Connected' = {}
    BY <1>0, <2>1 DEF Connected, StorageTypeOK
  <2> QED
    BY <2>1, <2>2, Empty DEF OwnConnection
<1>2. CASE StopInstance
  <2>1. Connected' = {}
    BY <1>0, <1>2 DEF StopInstance, Connected, StorageTypeOK
  <2> QED
    BY <1>2, <2>1, Empty DEF OwnConnection, StopInstance
<1>3. ASSUME NEW n \in Namespaces,
             CreateLocalStorageNamespace(n) \/ CreateSessionStorageNamespace(n)
      PROVE  OwnConnection'
  BY <1>0, <1>3, ConnectionsKept
     DEF CreateLocalStorageNamespace, CreateSessionStorageNamespace, instanceVars
<1>4. ASSUME NEW n \in Namespaces, NEW from \in DOMAIN namespace, Copy(n, from)
      PROVE  OwnConnection'
  BY <1>0, <1>4, ConnectionsKept DEF Copy
<1>5. ASSUME NEW n \in DOMAIN namespace, DeleteNamespace(n) PROVE OwnConnection'
  BY <1>0, <1>5, ConnectionsKept DEF DeleteNamespace
<1>6. ASSUME NEW n \in DOMAIN namespace, NEW a \in Areas, NEW origin \in Origins,
             CreateStorageArea(a, n, origin)
      PROVE  OwnConnection'
  <2> DEFINE object == [parent |-> namespace[n].parent, connection |-> 0,
                        id |-> namespace[n].id, origin |-> origin]
             made == [object EXCEPT !.connection = nextConnection]
  <2>1. a \notin DOMAIN area /\ instance' = instance
    BY <1>6 DEF CreateStorageArea
  <2>2. CASE Reaches(object)
    <3>1. /\ open' = Put(open, nextConnection, [id |-> object.id, origin |-> origin])
          /\ area' = Put(area, a, made)
      BY <1>6, <2>2 DEF CreateStorageArea
    <3>2. nextConnection \notin DOMAIN open
      BY <1>0 DEF StorageTypeOK, Connections
    <3>3. made.parent = instance /\ made.connection = nextConnection
          /\ made.id = object.id /\ made.origin = origin
      BY <2>2 DEF Reaches
    <3>4. Connected' = Connected \cup {a} /\ a \notin Connected
      BY <2>1, <3>1, <3>3 DEF Connected, Put
    <3>5. /\ \A b \in Connected : area'[b] = area[b]
          /\ area'[a] = made
      BY <2>1, <3>1 DEF Connected, Put
    <3>6. /\ DOMAIN open' = DOMAIN open \cup {nextConnection}
          /\ open'[nextConnection] = [id |-> object.id, origin |-> origin]
          /\ \A c \in DOMAIN open : open'[c] = open[c]
      BY <3>1, <3>2 DEF Put
    <3>7. \A b \in Connected : area[b].connection \in DOMAIN open
      BY <1>0 DEF OwnConnection
    <3>8. \A b \in Connected' :
            /\ area'[b].connection \in DOMAIN open'
            /\ open'[area'[b].connection] = [id |-> area'[b].id, origin |-> area'[b].origin]
      BY <1>0, <3>3, <3>4, <3>5, <3>6, <3>7 DEF OwnConnection
    <3>9. \A b, c \in Connected' : area'[b].connection = area'[c].connection => b = c
      BY <1>0, <3>2, <3>3, <3>4, <3>5, <3>7 DEF OwnConnection
    <3>10. DOMAIN open' = {area'[b].connection : b \in Connected'}
      BY <1>0, <3>3, <3>4, <3>5, <3>6 DEF OwnConnection
    <3> QED
      BY <3>8, <3>9, <3>10 DEF OwnConnection
  <2>3. CASE ~Reaches(object)
    <3>1. area' = Put(area, a, object) /\ open' = open
      BY <1>6, <2>3 DEF CreateStorageArea
    <3>2. Connected' = Connected /\ \A b \in Connected : area'[b] = area[b]
      BY <2>1, <2>3, <3>1 DEF Connected, Reaches, Put
    <3> QED
      BY <1>0, <3>1, <3>2 DEF OwnConnection
  <2> QED
    BY <2>2, <2>3
<1>7. ASSUME NEW a \in DOMAIN area, DeleteArea(a) PROVE OwnConnection'
  <2>1. /\ instance' = instance /\ area' = Drop(area, a)
        /\ open' = IF Reaches(area[a]) THEN Drop(open, area[a].connection) ELSE open
    BY <1>7 DEF DeleteArea
  <2>2. Connected' = Connected \ {a} /\ \A b \in Connected' : area'[b] = area[b]
    BY <2>1 DEF Connected, Drop
  <2>3. CASE Reaches(area[a])
    <3>1. a \in Connected
      BY <2>3 DEF Connected, Reaches
    <3>2. /\ DOMAIN open' = DOMAIN open \ {area[a].connection}
          /\ \A c \in DOMAIN open' : open'[c] = open[c]
      BY <2>1, <2>3 DEF Drop
    <3>3. \A b \in Connected' : area'[b].connection \in DOMAIN open'
      BY <1>0, <2>2, <3>1, <3>2 DEF OwnConnection
    <3>4. \A c \in DOMAIN open' : \E b \in Connected' : c = area'[b].connection
      BY <1>0, <2>2, <3>1, <3>2 DEF OwnConnection
    <3> QED
      BY <1>0, <2>2, <3>2, <3>3, <3>4 DEF OwnConnection
  <2>4. CASE ~Reaches(area[a])
    <3>1. a \notin Connected
      BY <2>4 DEF Connected, Reaches
    <3> QED
      BY <1>0, <2>1, <2>2, <2>4, <3>1 DEF OwnConnection
  <2> QED
    BY <2>3, <2>4
<1>8. ASSUME NEW a \in DOMAIN area, ChangeItem(a) PROVE OwnConnection'
  BY <1>0, <1>8, ConnectionsKept DEF ChangeItem
<1>9. CASE UNCHANGED vars
  BY <1>0, <1>9, ConnectionsKept DEF vars, instanceVars
<1> QED
  BY <1>1, <1>2, <1>3, <1>4, <1>5, <1>6, <1>7, <1>8, <1>9 DEF Next

-----------------------------------------------------------------------------
(* Sessions. *)

\* A step that touches neither namespaces, sessions nor the instance.
LEMMA SessionsKept ==
  ASSUME SessionsReclaimed, UNCHANGED <<instance, sessions, namespace>>
  PROVE  SessionsReclaimed'
BY DEF SessionsReclaimed, HoldersOf

\* A new object holds a session of its own, or none.
LEMMA SessionMade ==
  ASSUME StorageTypeOK, SessionsReclaimed, instance' = instance,
         NEW n \in Namespaces, n \notin DOMAIN namespace,
         NEW made \in [parent : 1..instances, id : NamespaceIds],
         namespace' = Put(namespace, n, made),
         \/ /\ sessions' = sessions
            /\ made.id \in {Local, Invalid} \/ made.parent # instance
         \/ /\ sessions' = sessions \cup {nextSession}
            /\ made = [parent |-> instance, id |-> nextSession]
  PROVE  SessionsReclaimed'
<1>1. /\ DOMAIN namespace' = DOMAIN namespace \cup {n} /\ namespace'[n] = made
      /\ \A m \in DOMAIN namespace : namespace'[m] = namespace[m]
  BY DEF Put
<1>2. DOMAIN namespace \subseteq Namespaces
  BY DEF StorageTypeOK
<1>3. /\ \A id \in sessions : id \notin {Local, Invalid, nextSession}
      /\ nextSession \notin {Local, Invalid}
  BY DEF StorageTypeOK, SessionIds, Local, Invalid
<1>4. \A m \in DOMAIN namespace :
        namespace[m].parent = instance => namespace[m].id # nextSession
  BY <1>3 DEF SessionsReclaimed
<1>5. ASSUME NEW id \in sessions' PROVE \E m \in Namespaces : HoldersOf(id)' = {m}
  <2>1. CASE id \in sessions
    <3>1. PICK m \in Namespaces : HoldersOf(id) = {m}
      BY <2>1 DEF SessionsReclaimed
    <3>2. made # [parent |-> instance, id |-> id]
      BY <1>3, <2>1
    <3>3. HoldersOf(id)' = HoldersOf(id)
      BY <1>1, <3>2 DEF HoldersOf
    <3> QED
      BY <3>1, <3>3
  <2>2. CASE id \notin sessions
    <3>1. id = nextSession /\ made = [parent |-> instance, id |-> nextSession]
      BY <1>5, <2>2
    <3>2. HoldersOf(id)' = {n}
      BY <1>1, <1>4, <3>1 DEF HoldersOf
    <3> QED
      BY <3>2
  <2> QED
    BY <2>1, <2>2
<1>6. ASSUME NEW m \in DOMAIN namespace', namespace'[m].parent = instance',
             namespace'[m].id \notin {Local, Invalid}
      PROVE  namespace'[m].id \in sessions'
  <2>1. CASE m = n
    BY <1>1, <1>6, <2>1
  <2>2. CASE m # n
    BY <1>1, <1>6, <2>2 DEF SessionsReclaimed
  <2> QED
    BY <2>1, <2>2
<1> QED
  BY <1>5, <1>6 DEF SessionsReclaimed

\* No operation ends a session early, leaves one behind or makes two objects
\* share one.
LEMMA StepSessions ==
  ASSUME StoreInv, [Next]_vars
  PROVE  SessionsReclaimed'
<1>0. StorageTypeOK /\ SessionsReclaimed /\ {MaxInstances, MaxSessions, MaxConnections} \subseteq Nat
  BY StorageBounds DEF StoreInv, StorageInv
<1>1. CASE StartInstance \/ StopInstance
  <2>1. sessions' = {} /\ namespace' = namespace
    BY <1>1 DEF StartInstance, StopInstance
  <2>2. instance' = instances + 1 \/ instance' = 0
    BY <1>1 DEF StartInstance, StopInstance
  <2>3. \A m \in DOMAIN namespace : namespace[m].parent # instance'
    BY <1>0, <2>2 DEF StorageTypeOK
  <2> QED
    BY <2>1, <2>3 DEF SessionsReclaimed
<1>2. ASSUME NEW n \in Namespaces, CreateLocalStorageNamespace(n) PROVE SessionsReclaimed'
  <2> DEFINE made == [parent |-> instance, id |-> Local]
  <2>1. /\ n \notin DOMAIN namespace /\ namespace' = Put(namespace, n, made)
        /\ sessions' = sessions /\ instance' = instance
    BY <1>2 DEF CreateLocalStorageNamespace, instanceVars
  <2>2. made \in [parent : 1..instances, id : NamespaceIds]
    BY <1>0, <1>2 DEF CreateLocalStorageNamespace, StorageTypeOK, NamespaceIds
  <2>3. made.id \in {Local, Invalid}
    OBVIOUS
  <2> HIDE DEF made
  <2> QED
    BY <1>0, <2>1, <2>2, <2>3, SessionMade
<1>3. ASSUME NEW n \in Namespaces, CreateSessionStorageNamespace(n) PROVE SessionsReclaimed'
  <2> DEFINE made == [parent |-> instance, id |-> nextSession]
  <2>1. /\ n \notin DOMAIN namespace /\ namespace' = Put(namespace, n, made)
        /\ sessions' = sessions \cup {nextSession} /\ instance' = instance
    BY <1>3 DEF CreateSessionStorageNamespace
  <2>2. made \in [parent : 1..instances, id : NamespaceIds]
    BY <1>0, <1>3 DEF CreateSessionStorageNamespace, StorageTypeOK, NamespaceIds, SessionIds
  <2> QED
    BY <1>0, <2>1, <2>2, SessionMade
<1>4. ASSUME NEW n \in Namespaces, NEW from \in DOMAIN namespace, Copy(n, from)
      PROVE  SessionsReclaimed'
  <2>1. n \notin DOMAIN namespace /\ instance' = instance
    BY <1>4 DEF Copy
  <2>2. namespace[from] \in [parent : 1..instances, id : NamespaceIds]
    BY <1>0 DEF StorageTypeOK
  <2>3. CASE Reaches(namespace[from])
    <3> DEFINE made == [namespace[from] EXCEPT !.id = nextSession]
    <3>1. made = [parent |-> instance, id |-> nextSession]
      BY <2>2, <2>3 DEF Reaches
    <3>2. made \in [parent : 1..instances, id : NamespaceIds]
      BY <1>0, <1>4, <2>2, <2>3 DEF Copy, StorageTypeOK, NamespaceIds, SessionIds
    <3>3. namespace' = Put(namespace, n, made) /\ sessions' = sessions \cup {nextSession}
      BY <1>4, <2>3 DEF Copy
    <3> HIDE DEF made
    <3> QED
      BY <1>0, <2>1, <3>1, <3>2, <3>3, SessionMade
  <2>4. CASE ~Reaches(namespace[from])
    <3> DEFINE made == [namespace[from] EXCEPT !.id = Invalid]
    <3>1. made.id \in {Local, Invalid}
      BY <2>2
    <3>2. made \in [parent : 1..instances, id : NamespaceIds]
      BY <2>2 DEF NamespaceIds
    <3>3. namespace' = Put(namespace, n, made) /\ sessions' = sessions
      BY <1>4, <2>4 DEF Copy
    <3> HIDE DEF made
    <3> QED
      BY <1>0, <2>1, <3>1, <3>2, <3>3, SessionMade
  <2> QED
    BY <2>3, <2>4
<1>5. ASSUME NEW n \in DOMAIN namespace, DeleteNamespace(n) PROVE SessionsReclaimed'
  <2>1. /\ instance' = instance /\ namespace' = Drop(namespace, n)
        /\ sessions' = sessions \ SessionsDeletedWith(namespace[n])
    BY <1>5 DEF DeleteNamespace
  <2>2. /\ DOMAIN namespace' = DOMAIN namespace \ {n}
        /\ \A m \in DOMAIN namespace' : namespace'[m] = namespace[m]
    BY <2>1 DEF Drop
  <2>3. /\ SessionsDeletedWith(namespace[n]) \subseteq {namespace[n].id}
        /\ SessionsDeletedWith(namespace[n]) # {} => namespace[n].parent = instance
    BY DEF SessionsDeletedWith, Reaches
  <2>4. namespace[n] \in [parent : 1..instances, id : NamespaceIds]
    BY <1>0 DEF StorageTypeOK
  <2>5. \A id \in sessions :
          namespace[n] = [parent |-> instance, id |-> id]
            => id \in SessionsDeletedWith(namespace[n])
    BY <1>0 DEF SessionsDeletedWith, Reaches, StorageTypeOK, SessionIds, Local, Invalid
  <2>6. ASSUME NEW id \in sessions' PROVE \E m \in Namespaces : HoldersOf(id)' = {m}
    <3>1. id \in sessions /\ namespace[n] # [parent |-> instance, id |-> id]
      BY <2>1, <2>5, <2>6
    <3>2. HoldersOf(id)' = HoldersOf(id)
      BY <2>1, <2>2, <3>1 DEF HoldersOf
    <3> QED
      BY <1>0, <3>1, <3>2 DEF SessionsReclaimed
  <2>7. ASSUME NEW m \in DOMAIN namespace', namespace'[m].parent = instance',
               namespace'[m].id \notin {Local, Invalid}
        PROVE  namespace'[m].id \in sessions'
    <3>1. /\ namespace[m].parent = instance /\ namespace[m].id \notin {Local, Invalid}
          /\ m \in DOMAIN namespace /\ m # n
      BY <2>1, <2>2, <2>7
    <3>2. namespace[m].id \in sessions
      BY <1>0, <3>1 DEF SessionsReclaimed
    <3>3. PICK k : HoldersOf(namespace[m].id) = {k}
      BY <1>0, <3>2 DEF SessionsReclaimed
    <3>4. namespace[m] = [parent |-> instance, id |-> namespace[m].id]
      BY <1>0, <3>1 DEF StorageTypeOK
    <3>5. m \in HoldersOf(namespace[m].id)
      BY <3>1, <3>4 DEF HoldersOf
    <3>6. namespace[n] # [parent |-> instance, id |-> namespace[m].id]
      BY <3>1, <3>3, <3>5 DEF HoldersOf
    <3>7. namespace[m].id \notin SessionsDeletedWith(namespace[n])
      BY <2>3, <2>4, <3>6
    <3> QED
      BY <2>1, <2>2, <2>7, <3>2, <3>7
  <2> QED
    BY <2>6, <2>7 DEF SessionsReclaimed
<1>6. ASSUME NEW n \in DOMAIN namespace, NEW a \in Areas, NEW origin \in Origins,
             CreateStorageArea(a, n, origin)
      PROVE  SessionsReclaimed'
  BY <1>0, <1>6, SessionsKept DEF CreateStorageArea
<1>7. ASSUME NEW a \in DOMAIN area, DeleteArea(a) PROVE SessionsReclaimed'
  BY <1>0, <1>7, SessionsKept DEF DeleteArea
<1>9. ASSUME NEW a \in DOMAIN area, ChangeItem(a) PROVE SessionsReclaimed'
  <2>1. instance # 0
    BY <1>0, <1>9 DEF ChangeItem, Reaches, StorageTypeOK
  <2>2. SessionsDeletedWith(EventNamespace(open[area[a].connection])) = {}
    BY <2>1 DEF SessionsDeletedWith, EventNamespace, Reaches
  <2> QED
    BY <1>0, <1>9, <2>2, SessionsKept DEF ChangeItem
<1>8. CASE UNCHANGED vars
  BY <1>0, <1>8, SessionsKept DEF vars, instanceVars
<1> QED
  BY <1>1, <1>2, <1>3, <1>4, <1>5, <1>6, <1>7, <1>8, <1>9 DEF Next

-----------------------------------------------------------------------------

\* The inductive invariant holds in every reachable state.
THEOREM StoreInvariant == Spec => []StoreInv
<1>1. StoreInv /\ [Next]_vars => StoreInv'
  BY StepType, StepConnection, StepSessions DEF StoreInv, StorageInv
<1> QED
  BY <1>1, InitInv, PTL DEF Spec

\* Every area of the live instance owns an open connection of its namespace and
\* origin, and none is left open without its area.
THEOREM ConnectionsOwned == Spec => []StorageInv
<1>1. StoreInv => StorageInv
  BY DEF StoreInv
<1> QED
  BY <1>1, StoreInvariant, PTL

\* A session lives exactly as long as the object it was allocated for.
THEOREM SessionsExact == Spec => []SessionsReclaimed
<1>1. StoreInv => SessionsReclaimed
  BY DEF StoreInv
<1> QED
  BY <1>1, StoreInvariant, PTL
=============================================================================
