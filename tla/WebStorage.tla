----------------------------- MODULE WebStorage -----------------------------
(***************************************************************************)
(* BrowserWebStorageNamespace: DOM storage for WebKit on top of Chromium's  *)
(* dom_storage.  The platform owns one instance (g_instance_); WebKit is    *)
(* given NamespaceImpl objects (the local namespace, or a session of its    *)
(* own), makes AreaImpl objects from them, and deletes both whenever it     *)
(* likes.  An object reaches the instance through a weak pointer only: once *)
(* the shell was released it does nothing, also when a later shell has made *)
(* a new instance.  Everything runs on the main thread; an operation and    *)
(* the event it causes are one step, since WebKit queues storage events: no *)
(* operation begins inside another, so area_being_processed_ is always the  *)
(* area that acts and is left out.                                          *)
(*                                                                          *)
(* dom_storage is external: session ids and areas are what its context and  *)
(* host keep of the calls made here.                                        *)
(***************************************************************************)
EXTENDS Integers

CONSTANTS Namespaces,   \* addresses a NamespaceImpl can have
          Areas,        \* addresses an AreaImpl can have
          Origins,
          MaxInstances, \* bound on the instances made one after the other
          MaxSessions,  \* bound on the session ids of an instance
          MaxConnections

ASSUME StorageBounds == {MaxInstances, MaxSessions, MaxConnections} \subseteq Nat

VARIABLES
  instance,    \* the instance g_instance_ points to, or 0
  instances,   \* instances made so far (history)
  sessions,    \* session namespaces of context_ (external)
  nextSession, \* what AllocateSessionId returns next (external)
  open,        \* host_: the namespace and origin of each connection (external)
  nextConnection, \* next_connection_id_
  namespace,   \* the live NamespaceImpl objects
  area         \* the live AreaImpl objects

instanceVars == <<instance, instances, sessions, nextSession, open, nextConnection>>
vars == <<instanceVars, namespace, area>>

Local == 0      \* kLocalStorageNamespaceId
Invalid == -1   \* kInvalidNamespaceId

SessionIds == 1..MaxSessions
NamespaceIds == SessionIds \cup {Local, Invalid}
Connections == 1..MaxConnections

Drop(f, x) == [y \in DOMAIN f \ {x} |-> f[y]]
Put(f, x, v) == [y \in DOMAIN f \cup {x} |-> IF y = x THEN v ELSE f[y]]
Nothing == [x \in {} |-> x]

\* Type invariant; ids, connections and parents in use were handed out by the
\* counters.
StorageTypeOK ==
  /\ instances \in 0..MaxInstances /\ instance \in {0, instances}
  /\ sessions \subseteq SessionIds
  /\ nextSession \in 1..(MaxSessions + 1) /\ nextConnection \in 1..(MaxConnections + 1)
  /\ \A id \in sessions : id < nextSession
  /\ DOMAIN open \subseteq Connections
  /\ \A c \in DOMAIN open : c < nextConnection
  /\ \A c \in DOMAIN open : open[c] \in [id : NamespaceIds, origin : Origins]
  /\ DOMAIN namespace \subseteq Namespaces
  /\ \A n \in DOMAIN namespace :
       namespace[n] \in [parent : 1..instances, id : NamespaceIds]
  /\ DOMAIN area \subseteq Areas
  /\ \A a \in DOMAIN area :
       area[a] \in [parent : 1..instances, connection : Connections \cup {0},
                    id : NamespaceIds, origin : Origins]

Init == /\ instance = 0 /\ instances = 0
        /\ sessions = {} /\ nextSession = 1
        /\ open = Nothing /\ nextConnection = 1
        /\ namespace = Nothing /\ area = Nothing

-----------------------------------------------------------------------------
(* The instance: made with the platform, deleted with it. *)

StartInstance ==
  /\ instance = 0 /\ instances < MaxInstances
  /\ instances' = instances + 1 /\ instance' = instances'
  /\ sessions' = {} /\ nextSession' = 1
  /\ open' = Nothing /\ nextConnection' = 1
  /\ UNCHANGED <<namespace, area>>

StopInstance ==
  /\ instance # 0
  /\ instance' = 0 /\ sessions' = {} /\ open' = Nothing
  /\ UNCHANGED <<instances, nextSession, nextConnection, namespace, area>>

ReachesAny(object) == instance # 0 \* mutant: instance() instead of the weak pointer

\* Context() and Host() are not NULL.
Reaches(object) == object.parent = instance

-----------------------------------------------------------------------------
(* Namespaces. *)

CreateLocalStorageNamespace(n) ==
  /\ instance # 0 /\ n \notin DOMAIN namespace
  /\ namespace' = Put(namespace, n, [parent |-> instance, id |-> Local])
  /\ UNCHANGED <<instanceVars, area>>

CreateSessionStorageNamespace(n) ==
  /\ instance # 0 /\ n \notin DOMAIN namespace /\ nextSession <= MaxSessions
  /\ sessions' = sessions \cup {nextSession} /\ nextSession' = nextSession + 1
  /\ namespace' = Put(namespace, n, [parent |-> instance, id |-> nextSession])
  /\ UNCHANGED <<instance, instances, open, nextConnection, area>>

\* NamespaceImpl::copy: a session of its own, or none when the instance is gone.
\* Local storage is never copied (DCHECK_NE).
Copy(n, from) ==
  /\ n \notin DOMAIN namespace /\ namespace[from].id # Local
  /\ IF Reaches(namespace[from])
       THEN /\ nextSession <= MaxSessions
            /\ sessions' = sessions \cup {nextSession} /\ nextSession' = nextSession + 1
            /\ namespace' = Put(namespace, n, [namespace[from] EXCEPT !.id = nextSession])
       ELSE /\ namespace' = Put(namespace, n, [namespace[from] EXCEPT !.id = Invalid])
            /\ UNCHANGED <<sessions, nextSession>>
  /\ UNCHANGED <<instance, instances, open, nextConnection, area>>

\* What ~NamespaceImpl deletes in context_.
SessionsDeletedWith(object) ==
  IF object.id \in {Local, Invalid} \/ ~Reaches(object) THEN {} ELSE {object.id}

DeleteNamespace(n) ==
  /\ sessions' = sessions \ SessionsDeletedWith(namespace[n])
  /\ namespace' = Drop(namespace, n)
  /\ UNCHANGED <<instance, instances, nextSession, open, nextConnection, area>>

-----------------------------------------------------------------------------
(* Areas. *)

FirstConnection(c) == 1 \* mutant: next_connection_id_ is read and not counted up
Following(c) == c + 1

\* createStorageArea and the constructor of AreaImpl; connection 0 is none.
\* The area's own id and origin are kept as history.
CreateStorageArea(a, n, origin) ==
  LET object == [parent |-> namespace[n].parent, connection |-> 0,
                 id |-> namespace[n].id, origin |-> origin]
  IN  /\ a \notin DOMAIN area
      /\ IF Reaches(object)
           THEN /\ nextConnection <= MaxConnections
                /\ nextConnection' = Following(nextConnection)
                /\ open' = Put(open, nextConnection, [id |-> object.id, origin |-> origin])
                /\ area' = Put(area, a, [object EXCEPT !.connection = nextConnection])
           ELSE area' = Put(area, a, object) /\ UNCHANGED <<open, nextConnection>>
      /\ UNCHANGED <<instance, instances, sessions, nextSession, namespace>>

DeleteArea(a) ==
  /\ open' = IF Reaches(area[a]) THEN Drop(open, area[a].connection) ELSE open
  /\ area' = Drop(area, a)
  /\ UNCHANGED <<instance, instances, sessions, nextSession, nextConnection, namespace>>

\* DispatchDomStorageEvent: a session's event carries a NamespaceImpl made for it,
\* whose parent is null, and which is deleted when the event was dispatched.
OwningNamespace(changed) == \* mutant: it has the instance for a parent
  [parent |-> instance, id |-> changed.id]
EventNamespace(changed) == [parent |-> 0, id |-> changed.id]

\* setItem, removeItem, clear: with no host nothing happens; the host may find
\* that nothing changes (or that the quota is exceeded) and report no event.
ChangeItem(a) ==
  /\ Reaches(area[a])
  /\ sessions' = sessions \ SessionsDeletedWith(EventNamespace(open[area[a].connection]))
  /\ UNCHANGED <<instance, instances, nextSession, open, nextConnection, namespace, area>>

-----------------------------------------------------------------------------
Next ==
  \/ StartInstance \/ StopInstance
  \/ \E n \in Namespaces : CreateLocalStorageNamespace(n) \/ CreateSessionStorageNamespace(n)
  \/ \E n \in Namespaces, from \in DOMAIN namespace : Copy(n, from)
  \/ \E n \in DOMAIN namespace :
       \/ DeleteNamespace(n)
       \/ \E a \in Areas, origin \in Origins : CreateStorageArea(a, n, origin)
  \/ \E a \in DOMAIN area : DeleteArea(a) \/ ChangeItem(a)

Spec == Init /\ [][Next]_vars

-----------------------------------------------------------------------------
(* Properties. *)

Connected == {a \in DOMAIN area : area[a].parent = instance}

\* Every area of the live instance has a connection of its own, open on the
\* namespace and the origin it was created for, however namespaces and areas
\* were deleted and instances replaced meanwhile; and no connection stays open
\* without its area.
OwnConnection ==
  /\ \A a \in Connected :
       /\ area[a].connection \in DOMAIN open
       /\ open[area[a].connection] = [id |-> area[a].id, origin |-> area[a].origin]
  /\ \A a, b \in Connected : area[a].connection = area[b].connection => a = b
  /\ DOMAIN open = {area[a].connection : a \in Connected}

\* What the two identifiers of dom_storage promise, with the types.
StorageInv == StorageTypeOK /\ OwnConnection

HoldersOf(id) == {n \in DOMAIN namespace : namespace[n] = [parent |-> instance, id |-> id]}

\* A session lives exactly as long as the one NamespaceImpl it was allocated
\* for: copies have their own, and neither the end of another object, one left
\* by an earlier instance included, nor the one made for an event ends it.
SessionsReclaimed ==
  /\ \A id \in sessions : \E n \in Namespaces : HoldersOf(id) = {n}
  /\ \A n \in DOMAIN namespace :
       namespace[n].parent = instance /\ namespace[n].id \notin {Local, Invalid}
         => namespace[n].id \in sessions

\* The inductive invariant of the proofs.
StoreInv == StorageInv /\ SessionsReclaimed
=============================================================================
