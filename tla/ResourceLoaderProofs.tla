------------------------ MODULE ResourceLoaderProofs ------------------------
(***************************************************************************)
(* One load, for any number of redirects, chunks and cancels.  The two      *)
(* loops may hold any number of tasks; what orders them is a turn: after a  *)
(* redirect or a chunk nothing of the URL request goes on until the peer    *)
(* has answered and the IO thread has run the answer, and at most one such  *)
(* notification or answer is under way (Turns).  LoaderInv says who has the *)
(* turn and what the buffer, the request and the history are then.          *)
(*                                                                          *)
(* s is a state of the proxy, h what was heard (heard), n the number of     *)
(* chunks, p whether the peer listens (peer), b the state of the bridge.    *)
(* The lemmas are about one step of a proxy each, in terms of these; the    *)
(* actions are put together from them at the end.                           *)
(***************************************************************************)
EXTENDS ResourceLoader, TLAPS

-----------------------------------------------------------------------------
(* The invariant. *)

\* A notification that waits for the peer's answer, and a task that brings it.
PeerTurn(x) == x \in {"redirect", "data"}
IOTurn(x) == x \in {"follow", "read"}

\* At most one of them is under way.
Turns(s) ==
  /\ \A i, j \in DOMAIN s.main :
       PeerTurn(s.main[i].notice) /\ PeerTurn(s.main[j].notice) => i = j
  /\ \A i, j \in DOMAIN s.io : IOTurn(s.io[i]) /\ IOTurn(s.io[j]) => i = j
  /\ \A i \in DOMAIN s.main, j \in DOMAIN s.io :
       ~(PeerTurn(s.main[i].notice) /\ IOTurn(s.io[j]))

\* What the request and the buffer are while they are.
Waits(s) ==
  /\ \A i \in DOMAIN s.main :
       /\ s.main[i].notice = "redirect" =>
            s.request \in {"deferred", "gone"} /\ s.hop < MaxRedirects
       /\ s.main[i].notice = "data" =>
            s.request \in {"ready", "gone"} /\ s.buffer = s.read
  /\ \A i \in DOMAIN s.io :
       /\ s.io[i] = "follow" => s.request \in {"deferred", "gone"} /\ s.hop < MaxRedirects
       /\ s.io[i] = "read" => s.request \in {"ready", "gone"}
       /\ s.io[i] = "start" => i = 1 /\ s.request = "none"

\* The reference of the bridge: nothing releases it before the bridge is deleted.
Owned(s, b) ==
  /\ b = "new" => s.io = <<>> /\ s.main = <<>> /\ s.request = "none"
  /\ b \in {"loading", "returned"} =>
       s.held /\ \A i \in DOMAIN s.io : s.io[i] \notin {"release", "delete"}
  /\ b # "deleted" => s.alive
  /\ ~s.alive => s.request = "gone"

\* A synchronous load has no notifications; its result is what was read.
Synchronous(n, s, h) ==
  /\ s.read <= n
  /\ s.request = "again" => s.sync
  /\ s.sync =>
       /\ s.main = <<>> /\ \A i \in DOMAIN s.io : s.io[i] \notin {"follow", "read"}
       /\ s.result.data = [i \in 1..s.read |-> i]
       /\ s.result.code = "ok" => s.read = n
       /\ s.signalled <=> s.result.code # "none"
       /\ s.signalled => s.request = "gone"
       /\ h.outcome \in {"ok", "error"} => s.signalled /\ s.result.code = h.outcome

\* An accepted redirect is on its way, and a notification is.
Follows(s) == \E i \in DOMAIN s.io : s.io[i] = "follow"
Notified(s, n) == \E i \in DOMAIN s.main : s.main[i].notice = n

\* The redirects that were accepted are those that were followed, but for the one
\* on its way.
Permitted(s, h) ==
  /\ h.permitted <= s.hop + 1
  /\ Follows(s) => h.permitted = s.hop + 1 \/ s.request = "gone"
  /\ Notified(s, "redirect") => h.permitted = s.hop
  /\ ~s.sync /\ s.request # "gone" /\ ~Follows(s) => h.permitted = s.hop

\* The response is notified once, of the last URL, and before the body.
Ordered(s, h) ==
  /\ (s.request \in {"none", "connecting", "deferred"} \/ Follows(s) \/ Notified(s, "redirect")) =>
       h.page = -1 /\ ~Notified(s, "response")
  /\ s.request \in {"reading", "ready"} => h.page # -1 \/ Notified(s, "response")
  /\ \A i \in DOMAIN s.main :
       /\ s.main[i].notice = "response" =>
            /\ h.page = -1 /\ s.main[i].hop = h.permitted
            /\ \A j \in DOMAIN s.main : s.main[j].notice = "response" => i = j
       /\ s.main[i].notice \in {"data", "ok"} =>
            h.page # -1 \/ \E j \in 1..(i - 1) : s.main[j].notice = "response"

\* The peer has every chunk that was read, but for the one it is notified of.
Delivered(n, s, h) ==
  /\ Notified(s, "data") => s.read = Len(h.data) + 1
  /\ Notified(s, "ok") => Len(h.data) = n /\ ~Notified(s, "data")
  /\ s.request # "gone" /\ ~Notified(s, "data") => Len(h.data) = s.read

\* Of a load that did not begin nothing was heard; the order of things is promised
\* to a peer that listens.
Listening(n, s, h, p, b) ==
  /\ b = "new" => h.outcome = "none" /\ h.page = -1 /\ h.data = <<>> /\ s.read = 0
  /\ p => /\ ~s.sync /\ b = "loading" /\ h.outcome = "none"
          /\ Ordered(s, h) /\ Delivered(n, s, h)

\* The type of heard.
HeardState == [permitted : 0..MaxRedirects, refused : BOOLEAN, page : -1..MaxRedirects,
               data : Seq(0..MaxChunks), outcome : {"none", "ok", "error", "timeout"}]

\* All of it.
Sound(n, s, h, p, b) ==
  /\ s \in ProxyState /\ h \in HeardState /\ n \in 0..MaxChunks
  /\ Turns(s) /\ Waits(s) /\ Owned(s, b)
  /\ Synchronous(n, s, h) /\ Permitted(s, h) /\ Listening(n, s, h, p, b)

\* The inductive invariant.
LoaderInv == LoaderTypeOK /\ Sound(length, proxy, heard, peer, bridge)

\* Nothing waits for the peer.
NoTurn(s) ==
  /\ \A i \in DOMAIN s.main : ~PeerTurn(s.main[i].notice)
  /\ \A i \in DOMAIN s.io : ~IOTurn(s.io[i])

-----------------------------------------------------------------------------
(* Sequences, and the fields of a proxy. *)

\* The bounds are natural numbers.
LEMMA Bounds == MaxRedirects \in Nat /\ MaxChunks \in Nat /\ MaxCancels \in Nat
BY LoaderAssumption

\* What is in a loop after a post.
LEMMA AppendSeq ==
  ASSUME NEW S, NEW q \in Seq(S), NEW x \in S
  PROVE  /\ Append(q, x) \in Seq(S) /\ Len(q) \in Nat /\ DOMAIN q = 1..Len(q)
         /\ Append(q, x) # <<>>
         /\ DOMAIN Append(q, x) = 1..(Len(q) + 1)
         /\ Append(q, x)[Len(q) + 1] = x
         /\ \A i \in 1..Len(q) : Append(q, x)[i] = q[i]
OBVIOUS

\* What is left when the first of a loop was taken.
LEMMA TailSeq ==
  ASSUME NEW S, NEW q \in Seq(S), q # <<>>
  PROVE  /\ Tail(q) \in Seq(S) /\ Len(q) \in Nat \ {0} /\ DOMAIN q = 1..Len(q)
         /\ DOMAIN Tail(q) = 1..(Len(q) - 1)
         /\ Head(q) = q[1] /\ Head(q) \in S
         /\ \A i \in 1..(Len(q) - 1) : Tail(q)[i] = q[i + 1]
OBVIOUS

\* The types of a notification and of the caller's SyncLoadResponse.
Note == [notice : Notices, hop : 0..MaxRedirects]
Result == [url : 0..MaxRedirects, response : BOOLEAN, data : Seq(0..MaxChunks),
           code : {"none", "ok", "error"}]

\* The chunks of a body, in order.
LEMMA CountUp ==
  ASSUME NEW k \in Nat
  PROVE  Append([i \in 1..k |-> i], k + 1) = [i \in 1..(k + 1) |-> i]
OBVIOUS

\* The fields of a proxy state and their types.
LEMMA Fields ==
  ASSUME NEW s \in ProxyState
  PROVE  /\ s.hop \in 0..MaxRedirects /\ s.read \in 0..MaxChunks /\ s.buffer \in 0..MaxChunks
         /\ s.hop \in Nat /\ s.read \in Nat /\ s.buffer \in Nat
         /\ s.io \in Seq(IOTasks) /\ s.main \in Seq(Note) /\ s.result \in Result
BY Bounds DEF ProxyState, Note, Result

\* A field set to a value of its type.
LEMMA SetField ==
  ASSUME NEW s \in ProxyState
  PROVE  /\ \A x \in Seq(Note) : [s EXCEPT !.main = x] \in ProxyState
         /\ \A x \in Seq(IOTasks) : [s EXCEPT !.io = x] \in ProxyState
         /\ \A x \in {"none", "connecting", "deferred", "reading", "ready", "again", "gone"} :
              [s EXCEPT !.request = x] \in ProxyState
         /\ \A x \in 0..MaxRedirects : [s EXCEPT !.hop = x] \in ProxyState
         /\ \A x \in 0..MaxChunks : [s EXCEPT !.read = x] \in ProxyState
         /\ \A x \in 0..MaxChunks : [s EXCEPT !.buffer = x] \in ProxyState
         /\ \A x \in BOOLEAN : [s EXCEPT !.held = x] \in ProxyState
         /\ \A x \in BOOLEAN : [s EXCEPT !.alive = x] \in ProxyState
         /\ \A x \in Result : [s EXCEPT !.result = x] \in ProxyState
         /\ \A x \in BOOLEAN : [s EXCEPT !.signalled = x] \in ProxyState
<1>1. \A x \in Seq(Note) : [s EXCEPT !.main = x] \in ProxyState
  BY DEF ProxyState, Note
<1>2. \A x \in Seq(IOTasks) : [s EXCEPT !.io = x] \in ProxyState
  BY DEF ProxyState
<1>3. \A x \in {"none", "connecting", "deferred", "reading", "ready", "again", "gone"} :
        [s EXCEPT !.request = x] \in ProxyState
  BY DEF ProxyState
<1>4. \A x \in 0..MaxRedirects : [s EXCEPT !.hop = x] \in ProxyState
  BY DEF ProxyState
<1>5. \A x \in 0..MaxChunks : [s EXCEPT !.read = x] \in ProxyState
  BY DEF ProxyState
<1>6. \A x \in 0..MaxChunks : [s EXCEPT !.buffer = x] \in ProxyState
  BY DEF ProxyState
<1>7. \A x \in BOOLEAN : [s EXCEPT !.held = x] \in ProxyState
  BY DEF ProxyState
<1>8. \A x \in BOOLEAN : [s EXCEPT !.alive = x] \in ProxyState
  BY DEF ProxyState
<1>9. \A x \in Result : [s EXCEPT !.result = x] \in ProxyState
  BY DEF ProxyState, Result
<1>10. \A x \in BOOLEAN : [s EXCEPT !.signalled = x] \in ProxyState
  BY DEF ProxyState
<1> QED
  BY <1>1, <1>2, <1>3, <1>4, <1>5, <1>6, <1>7, <1>8, <1>9, <1>10

\* t has one more notification than s, and the same IO tasks.
Notifies(s, t, x) ==
  /\ Len(s.main) \in Nat /\ DOMAIN s.main = 1..Len(s.main)
  /\ DOMAIN t.main = 1..(Len(s.main) + 1)
  /\ t.main[Len(s.main) + 1] = [notice |-> x, hop |-> s.hop]
  /\ \A i \in 1..Len(s.main) : t.main[i] = s.main[i]
  /\ t.io = s.io

\* A notification is posted.
LEMMA NotifyFields ==
  ASSUME NEW s \in ProxyState, NEW x \in Notices
  PROVE  /\ Notify(s, x) \in ProxyState
         /\ \A t : t.main = Notify(s, x).main /\ t.io = s.io => Notifies(s, t, x)
<1>1. s.main \in Seq(Note) /\ [notice |-> x, hop |-> s.hop] \in Note
  BY Fields DEF Note
<1>2. Notify(s, x).main = Append(s.main, [notice |-> x, hop |-> s.hop])
  BY DEF Notify, ProxyState
<1>3. Append(s.main, [notice |-> x, hop |-> s.hop]) \in Seq(Note)
  BY <1>1, AppendSeq
<1>4. \A q \in Seq(Note) : [s EXCEPT !.main = q] \in ProxyState
  BY SetField
<1>5. Notify(s, x) \in ProxyState
  BY <1>3, <1>4 DEF Notify
<1> QED
  BY <1>1, <1>2, <1>5, AppendSeq DEF Notifies

\* What a posted notification changes of what is in the loops.
LEMMA NotifiesAdds ==
  ASSUME NEW s, NEW t, NEW x, Notifies(s, t, x)
  PROVE  /\ Turns(s) /\ (PeerTurn(x) => NoTurn(s)) => Turns(t)
         /\ Follows(t) <=> Follows(s)
         /\ \A y : Notified(t, y) <=> Notified(s, y) \/ y = x
         /\ \A i \in DOMAIN t.main : t.main[i].notice = x \/
              (i \in DOMAIN s.main /\ t.main[i] = s.main[i])
<1> DEFINE k == Len(s.main) + 1
<1>1. /\ k \in DOMAIN t.main /\ t.main[k].notice = x
      /\ \A i \in DOMAIN t.main : i = k \/ (i \in DOMAIN s.main /\ t.main[i] = s.main[i])
      /\ \A i \in DOMAIN s.main : i \in DOMAIN t.main /\ t.main[i] = s.main[i]
      /\ t.io = s.io
  BY DEF Notifies
<1> HIDE DEF k
<1>2. ASSUME Turns(s), PeerTurn(x) => NoTurn(s) PROVE Turns(t)
  <2>1. CASE PeerTurn(x)
    BY <1>1, <1>2, <2>1 DEF Turns, NoTurn
  <2>2. CASE ~PeerTurn(x)
    BY <1>1, <1>2, <2>2 DEF Turns
  <2> QED
    BY <2>1, <2>2
<1>3. Follows(t) <=> Follows(s)
  BY <1>1 DEF Follows
<1>4. \A y : Notified(t, y) <=> Notified(s, y) \/ y = x
  BY <1>1 DEF Notified
<1> QED
  BY <1>1, <1>2, <1>3, <1>4

\* A posted notification keeps responses single and first, if it is no response
\* and there is one before it.
LEMMA NotifiesInOrder ==
  ASSUME NEW s, NEW t, NEW x, NEW h, Notifies(s, t, x), Ordered(s, h), x # "response",
         x \in {"data", "ok"} => h.page # -1 \/ Notified(s, "response")
  PROVE  \A i \in DOMAIN t.main :
           /\ t.main[i].notice = "response" =>
                /\ h.page = -1 /\ t.main[i].hop = h.permitted
                /\ \A j \in DOMAIN t.main : t.main[j].notice = "response" => i = j
           /\ t.main[i].notice \in {"data", "ok"} =>
                h.page # -1 \/ \E j \in 1..(i - 1) : t.main[j].notice = "response"
<1> DEFINE k == Len(s.main) + 1
<1>1. /\ k \in DOMAIN t.main /\ t.main[k].notice = x /\ k \in Nat
      /\ \A i \in DOMAIN s.main : i \in 1..(k - 1)
      /\ \A i \in DOMAIN t.main : i # k => i \in DOMAIN s.main /\ t.main[i] = s.main[i]
  BY DEF Notifies
<1> HIDE DEF k
<1>2. ASSUME NEW i \in DOMAIN t.main, t.main[i].notice = "response"
      PROVE  /\ h.page = -1 /\ t.main[i].hop = h.permitted
             /\ \A j \in DOMAIN t.main : t.main[j].notice = "response" => i = j
  BY <1>1, <1>2 DEF Ordered
<1>3. ASSUME NEW i \in DOMAIN t.main, t.main[i].notice \in {"data", "ok"}, h.page = -1
      PROVE  \E j \in 1..(i - 1) : t.main[j].notice = "response"
  <2>1. CASE i = k
    <3>1. PICK j \in DOMAIN s.main : s.main[j].notice = "response"
      BY <1>1, <1>3, <2>1 DEF Notified
    <3>2. t.main[j] = s.main[j] /\ j \in 1..(i - 1)
      BY <1>1, <2>1 DEF Notifies
    <3> QED
      BY <3>1, <3>2
  <2>2. CASE i # k
    <3>1. i \in DOMAIN s.main /\ t.main[i] = s.main[i]
      BY <1>1, <2>2
    <3>2. PICK j \in 1..(i - 1) : s.main[j].notice = "response"
      BY <1>3, <3>1 DEF Ordered
    <3>3. j \in 1..Len(s.main)
      BY <3>1 DEF Notifies
    <3> QED
      BY <3>2, <3>3 DEF Notifies
  <2> QED
    BY <2>1, <2>2
<1> QED
  BY <1>2, <1>3

\* Steps that leave both loops alone.
LEMMA LoopsKept ==
  ASSUME NEW s, NEW t, t.main = s.main, t.io = s.io
  PROVE  /\ Turns(t) <=> Turns(s)
         /\ NoTurn(t) <=> NoTurn(s)
         /\ Follows(t) <=> Follows(s)
         /\ \A x : Notified(t, x) <=> Notified(s, x)
BY DEF Turns, NoTurn, Follows, Notified

\* The load completes, in a request that did not complete before.
LEMMA DoneSound ==
  ASSUME NEW n, NEW s, NEW h, NEW p, NEW b, Sound(n, s, h, p, b), HasRequest(s),
         NEW code \in {"ok", "error"},
         code = "ok" => /\ NoTurn(s) /\ s.read = n
                        /\ p => h.page # -1 \/ Notified(s, "response")
  PROVE  Sound(n, Done(s, code), h, p, b)
<1> DEFINE t == Done(s, code)
<1>0. /\ s \in ProxyState /\ h \in HeardState /\ n \in 0..MaxChunks
      /\ Turns(s) /\ Waits(s) /\ Owned(s, b)
      /\ Synchronous(n, s, h) /\ Permitted(s, h) /\ Listening(n, s, h, p, b)
  BY DEF Sound
<1>1. /\ t.request = "gone" /\ t.hop = s.hop /\ t.read = s.read /\ t.buffer = s.buffer
      /\ t.io = s.io /\ t.held = s.held /\ t.alive = s.alive /\ t.sync = s.sync
      /\ t.result.data = s.result.data
      /\ s.sync => t.main = s.main /\ t.signalled /\ t.result.code = code
      /\ ~s.sync => /\ t.main = Notify(s, code).main
                    /\ t.result = s.result /\ t.signalled = s.signalled
  BY <1>0 DEF Done, OnCompletedRequest, SyncCompletedRequest, Notify, ProxyState
<1>2. code \in Notices
  BY DEF Notices
<1>3. ~s.sync => Notifies(s, t, code)
  BY <1>0, <1>1, <1>2, NotifyFields
<1>4. t \in ProxyState
  <2>1. CASE s.sync
    <3> DEFINE r == [s.result EXCEPT !.code = code]
    <3>1. r \in Result
      BY <1>0, Fields DEF Result
    <3>2. [s EXCEPT !.result = r] \in ProxyState
      BY <1>0, <3>1, SetField
    <3>3. [[s EXCEPT !.result = r] EXCEPT !.signalled = TRUE] \in ProxyState
      BY <3>2, SetField
    <3>4. [[[s EXCEPT !.result = r] EXCEPT !.signalled = TRUE] EXCEPT !.request = "gone"]
            \in ProxyState
      BY <3>3, SetField
    <3> QED
      BY <2>1, <3>4 DEF Done, OnCompletedRequest, SyncCompletedRequest
  <2>2. CASE ~s.sync
    <3>1. Notify(s, code) \in ProxyState
      BY <1>0, <1>2, NotifyFields
    <3>2. [Notify(s, code) EXCEPT !.request = "gone"] \in ProxyState
      BY <3>1, SetField
    <3> QED
      BY <2>2, <3>2 DEF Done, OnCompletedRequest
  <2> QED
    BY <2>1, <2>2
<1> HIDE DEF t
<1>5. Turns(t)
  BY <1>0, <1>1, <1>3, LoopsKept, NotifiesAdds DEF PeerTurn, IOTurn
<1>6. Waits(t)
  <2>1. CASE s.sync
    BY <1>0, <1>1, <2>1 DEF Waits, HasRequest
  <2>2. CASE ~s.sync
    <3>1. \A i \in DOMAIN s.io : s.io[i] # "start"
      BY <1>0 DEF Waits, HasRequest
    <3>2. \A i \in DOMAIN t.main : t.main[i].notice = code \/
            (i \in DOMAIN s.main /\ t.main[i] = s.main[i])
      BY <1>3, <2>2 DEF Notifies
    <3> QED
      BY <1>0, <1>1, <3>1, <3>2 DEF Waits
  <2> QED
    BY <2>1, <2>2
<1>7. Owned(t, b)
  BY <1>0, <1>1 DEF Owned, HasRequest
<1>8. Synchronous(n, t, h)
  BY <1>0, <1>1 DEF Synchronous, HasRequest
<1>9. Permitted(t, h)
  BY <1>0, <1>1, <1>3, LoopsKept, NotifiesAdds DEF Permitted
<1>10. ASSUME p PROVE ~s.sync /\ Ordered(t, h) /\ Delivered(n, t, h)
  <2>1. /\ ~s.sync /\ Ordered(s, h) /\ Delivered(n, s, h)
        /\ Notifies(s, t, code)
    BY <1>0, <1>3, <1>10 DEF Listening
  <2>2. /\ Follows(t) <=> Follows(s)
        /\ \A y : Notified(t, y) <=> Notified(s, y) \/ y = code
    BY <2>1, NotifiesAdds
  <2>3. Delivered(n, t, h)
    BY <1>0, <1>1, <1>10, <2>1, <2>2 DEF Delivered, Notified, NoTurn, PeerTurn, IOTurn, HasRequest
  <2>4. Ordered(t, h)
    BY <1>1, <1>2, <1>10, <2>1, <2>2, NotifiesInOrder DEF Ordered
  <2> QED
    BY <2>1, <2>3, <2>4
<1>11. Listening(n, t, h, p, b)
  BY <1>0, <1>1, <1>10 DEF Listening
<1> QED
  BY <1>0, <1>4, <1>5, <1>6, <1>7, <1>8, <1>9, <1>11 DEF Sound, t

\* While the network is busy with the request, nobody else has a turn.
LEMMA BusyNoTurn ==
  ASSUME NEW s, Waits(s), s.request \in {"none", "connecting", "reading", "again"}
  PROVE  NoTurn(s)
BY DEF Waits, NoTurn, PeerTurn, IOTurn

\* A read stays pending.
LEMMA PendingSound ==
  ASSUME NEW n, NEW s, NEW h, NEW p, NEW b, Sound(n, s, h, p, b), HasRequest(s), NoTurn(s),
         p => h.page # -1 \/ Notified(s, "response")
  PROVE  Sound(n, [s EXCEPT !.request = "reading", !.buffer = 0], h, p, b)
<1> DEFINE t == [s EXCEPT !.request = "reading", !.buffer = 0]
<1>0. /\ s \in ProxyState /\ h \in HeardState /\ n \in 0..MaxChunks
      /\ Turns(s) /\ Waits(s) /\ Owned(s, b)
      /\ Synchronous(n, s, h) /\ Permitted(s, h) /\ Listening(n, s, h, p, b)
  BY DEF Sound
<1>1. /\ t.request = "reading" /\ t.hop = s.hop /\ t.read = s.read
      /\ t.main = s.main /\ t.io = s.io /\ t.held = s.held /\ t.alive = s.alive
      /\ t.sync = s.sync /\ t.result = s.result /\ t.signalled = s.signalled
  BY <1>0 DEF ProxyState
<1>2. t \in ProxyState
  <2>1. [s EXCEPT !.request = "reading"] \in ProxyState
    BY <1>0, SetField
  <2>2. [[s EXCEPT !.request = "reading"] EXCEPT !.buffer = 0] \in ProxyState
    <3>1. 0 \in 0..MaxChunks
      BY Bounds
    <3> QED
      BY <2>1, <3>1, SetField
  <2> QED
    BY <2>2
<1> HIDE DEF t
<1>3. /\ Turns(t) /\ NoTurn(t)
      /\ Follows(t) <=> Follows(s)
      /\ \A x : Notified(t, x) <=> Notified(s, x)
  BY <1>0, <1>1, LoopsKept
<1>4. Waits(t)
  BY <1>0, <1>1, <1>3 DEF Waits, NoTurn, PeerTurn, IOTurn, HasRequest
<1>5. Owned(t, b)
  BY <1>0, <1>1 DEF Owned, HasRequest
<1>6. Synchronous(n, t, h)
  BY <1>0, <1>1 DEF Synchronous, HasRequest
<1>7. Permitted(t, h)
  BY <1>0, <1>1, <1>3 DEF Permitted, HasRequest
<1>8. ASSUME p PROVE Ordered(t, h)
  <2>1. ~Follows(t) /\ ~Notified(t, "redirect")
    BY <1>3 DEF NoTurn, PeerTurn, IOTurn, Follows, Notified
  <2>2. h.page # -1 \/ Notified(t, "response")
    BY <1>3, <1>8
  <2>3. Ordered(s, h)
    BY <1>0, <1>8 DEF Listening
  <2> QED
    BY <1>1, <2>1, <2>2, <2>3 DEF Ordered
<1>9. Listening(n, t, h, p, b)
  BY <1>0, <1>1, <1>3, <1>8 DEF Listening, Delivered, HasRequest
<1> QED
  BY <1>0, <1>2, <1>3, <1>4, <1>5, <1>6, <1>7, <1>9 DEF Sound, t

\* A chunk was read: it is the peer's turn, or the synchronous proxy reads again.
LEMMA DataSound ==
  ASSUME NEW n, NEW s, NEW h, NEW p, NEW b, Sound(n, s, h, p, b), HasRequest(s), NoTurn(s),
         p => h.page # -1 \/ Notified(s, "response"), s.read < n
  PROVE  Sound(n, ReadIs(s, "data"), h, p, b)
<1> DEFINE u == [s EXCEPT !.read = @ + 1, !.buffer = s.read + 1]
           t == OnReceivedData(u)
<1>0. /\ s \in ProxyState /\ h \in HeardState /\ n \in 0..MaxChunks
      /\ Turns(s) /\ Waits(s) /\ Owned(s, b)
      /\ Synchronous(n, s, h) /\ Permitted(s, h) /\ Listening(n, s, h, p, b)
      /\ s.read \in Nat /\ n \in Nat
  BY Fields, Bounds DEF Sound
<1>1. /\ u.request = s.request /\ u.hop = s.hop /\ u.read = s.read + 1
      /\ u.buffer = s.read + 1 /\ u.main = s.main /\ u.io = s.io
      /\ u.held = s.held /\ u.alive = s.alive
      /\ u.sync = s.sync /\ u.result = s.result /\ u.signalled = s.signalled
  BY <1>0 DEF ProxyState
<1>2. u \in ProxyState
  <2>1. s.read + 1 \in 0..MaxChunks
    BY <1>0, Bounds
  <2>2. [s EXCEPT !.read = s.read + 1] \in ProxyState
    BY <1>0, <2>1, SetField
  <2>3. [[s EXCEPT !.read = s.read + 1] EXCEPT !.buffer = s.read + 1] \in ProxyState
    BY <2>1, <2>2, SetField
  <2> QED
    BY <2>3
<1> HIDE DEF u
<1>3. /\ t.request = (IF s.sync THEN "again" ELSE "ready") /\ t.hop = s.hop
      /\ t.read = s.read + 1 /\ t.buffer = s.read + 1
      /\ t.io = s.io /\ t.held = s.held /\ t.alive = s.alive
      /\ t.sync = s.sync /\ t.signalled = s.signalled /\ t.result.code = s.result.code
      /\ s.sync => t.main = s.main /\ t.result.data = Append(s.result.data, s.read + 1)
      /\ ~s.sync => t.main = Notify([u EXCEPT !.request = "ready"], "data").main
  BY <1>1, <1>2 DEF OnReceivedData, SyncReceivedData, Notify, ProxyState
<1>4. ~s.sync => /\ t = Notify([u EXCEPT !.request = "ready"], "data")
                 /\ [u EXCEPT !.request = "ready"].main = s.main
                 /\ [u EXCEPT !.request = "ready"].io = s.io
                 /\ [u EXCEPT !.request = "ready"].hop = s.hop
                 /\ [u EXCEPT !.request = "ready"] \in ProxyState
  <2>1. [u EXCEPT !.request = "ready"] \in ProxyState
    BY <1>2, SetField
  <2>2. ~s.sync => t = Notify([u EXCEPT !.request = "ready"], "data")
    BY <1>1 DEF OnReceivedData
  <2>3. /\ [u EXCEPT !.request = "ready"].main = u.main
        /\ [u EXCEPT !.request = "ready"].io = u.io
        /\ [u EXCEPT !.request = "ready"].hop = u.hop
    BY <1>2 DEF ProxyState
  <2> QED
    BY <1>1, <2>1, <2>2, <2>3
<1>5. "data" \in Notices
  BY DEF Notices
<1>6. ~s.sync => Notifies(s, t, "data") /\ t \in ProxyState
  <2> SUFFICES ASSUME ~s.sync PROVE Notifies(s, t, "data") /\ t \in ProxyState
    OBVIOUS
  <2>1. Notifies([u EXCEPT !.request = "ready"], t, "data") /\ t \in ProxyState
    BY <1>1, <1>3, <1>4, <1>5, NotifyFields
  <2> QED
    BY <1>4, <2>1 DEF Notifies
<1>7. s.sync => t \in ProxyState
  <2> SUFFICES ASSUME s.sync PROVE t \in ProxyState
    OBVIOUS
  <2> DEFINE r == [u.result EXCEPT !.data = Append(u.result.data, u.buffer)]
  <2>1. u.result.data \in Seq(0..MaxChunks) /\ u.buffer \in 0..MaxChunks /\ u.result \in Result
    BY <1>2, Fields DEF Result
  <2>2. Append(u.result.data, u.buffer) \in Seq(0..MaxChunks)
    BY <2>1, AppendSeq
  <2>3. r \in Result
    BY <2>1, <2>2 DEF Result
  <2>4. [u EXCEPT !.result = r] \in ProxyState
    BY <1>2, <2>3, SetField
  <2>5. [[u EXCEPT !.result = r] EXCEPT !.request = "again"] \in ProxyState
    BY <2>4, SetField
  <2> QED
    BY <1>1, <2>5 DEF OnReceivedData, SyncReceivedData
<1> HIDE DEF t
<1>8. /\ Turns(t)
      /\ Follows(t) <=> Follows(s)
      /\ \A y : Notified(t, y) <=> Notified(s, y) \/ (~s.sync /\ y = "data")
  BY <1>0, <1>3, <1>6, LoopsKept, NotifiesAdds
<1>9. Waits(t)
  <2>1. \A i \in DOMAIN s.io : s.io[i] \notin {"start", "read", "follow"}
    BY <1>0 DEF Waits, NoTurn, PeerTurn, IOTurn, HasRequest
  <2>2. \A i \in DOMAIN s.main : s.main[i].notice \notin {"redirect", "data"}
    BY DEF NoTurn, PeerTurn, IOTurn
  <2>3. \A i \in DOMAIN t.main : \/ (t.main[i].notice = "data" /\ ~s.sync)
                                 \/ i \in DOMAIN s.main /\ t.main[i] = s.main[i]
    BY <1>3, <1>6 DEF Notifies
  <2>4. \A i \in DOMAIN t.main : t.main[i].notice # "redirect" /\
            (t.main[i].notice = "data" => t.request = "ready" /\ t.buffer = t.read)
    BY <1>3, <2>2, <2>3
  <2> QED
    BY <1>3, <2>1, <2>4 DEF Waits
<1>10. Owned(t, b)
  BY <1>0, <1>3 DEF Owned, HasRequest
<1>11. Synchronous(n, t, h)
  <2>1. s.sync => t.result.data = [i \in 1..t.read |-> i]
    BY <1>0, <1>3, CountUp DEF Synchronous
  <2> QED
    BY <1>0, <1>3, <2>1 DEF Synchronous, HasRequest
<1>12. Permitted(t, h)
  BY <1>0, <1>3, <1>8 DEF Permitted, HasRequest
<1>13. ASSUME p PROVE Ordered(t, h) /\ Delivered(n, t, h)
  <2>1. ~s.sync /\ Ordered(s, h) /\ Delivered(n, s, h) /\ Notifies(s, t, "data")
    BY <1>0, <1>6, <1>13 DEF Listening
  <2>2. ~Follows(t) /\ ~Notified(t, "redirect") /\ ~Notified(s, "data")
    BY <1>8, <2>1 DEF NoTurn, PeerTurn, IOTurn, Follows, Notified
  <2>3. ~Notified(s, "ok")
    BY <1>0, <2>1, <2>2 DEF Delivered, HasRequest
  <2>4. Delivered(n, t, h)
    BY <1>3, <1>8, <2>1, <2>2, <2>3 DEF Delivered, HasRequest
  <2>5. Ordered(t, h)
    BY <1>3, <1>8, <1>13, <2>1, <2>2, NotifiesInOrder DEF Ordered
  <2> QED
    BY <2>4, <2>5
<1>14. Listening(n, t, h, p, b)
  BY <1>0, <1>3, <1>13 DEF Listening, Owned, HasRequest
<1>15. ReadIs(s, "data") = t
  BY DEF ReadIs, t, u
<1> QED
  BY <1>0, <1>6, <1>7, <1>8, <1>9, <1>10, <1>11, <1>12, <1>14, <1>15 DEF Sound

\* Whatever URLRequest::Read says.
LEMMA ReadSound ==
  ASSUME NEW n, NEW s, NEW h, NEW p, NEW b, Sound(n, s, h, p, b), HasRequest(s), NoTurn(s),
         p => h.page # -1 \/ Notified(s, "response"),
         NEW r \in {"data", "eof", "error", "pending"},
         r = "data" => s.read < n, r = "eof" => ~(s.read < n)
  PROVE  Sound(n, ReadIs(s, r), h, p, b)
<1>1. s.read \in Nat /\ n \in Nat /\ s.read <= n
  BY Fields, Bounds DEF Sound, Synchronous
<1>2. CASE r = "data"
  BY <1>2, DataSound
<1>3. CASE r = "pending"
  BY <1>3, PendingSound DEF ReadIs
<1>4. CASE r = "eof"
  BY <1>1, <1>4, DoneSound DEF ReadIs
<1>5. CASE r = "error"
  BY <1>5, DoneSound DEF ReadIs
<1> QED
  BY <1>2, <1>3, <1>4, <1>5

\* The response is posted before the first read; what the read leaves does not
\* depend on the state the request was in.
LEMMA ResponseSound ==
  ASSUME NEW n, NEW s, NEW h, NEW p, NEW b, Sound(n, s, h, p, b), s.request = "connecting"
  PROVE  LET u == [OnReceivedResponse(s) EXCEPT !.request = "ready"]
         IN  /\ Sound(n, u, h, p, b) /\ HasRequest(u) /\ NoTurn(u) /\ u.read = s.read
             /\ p => Notified(u, "response")
             /\ HasRequest(OnReceivedResponse(s))
             /\ \A r \in {"data", "eof", "error", "pending"} :
                  ReadIs(OnReceivedResponse(s), r) = ReadIs(u, r)
<1> DEFINE v == OnReceivedResponse(s)
           t == [v EXCEPT !.request = "ready"]
<1>0. /\ s \in ProxyState /\ h \in HeardState /\ n \in 0..MaxChunks
      /\ Turns(s) /\ Waits(s) /\ Owned(s, b)
      /\ Synchronous(n, s, h) /\ Permitted(s, h) /\ Listening(n, s, h, p, b)
      /\ NoTurn(s)
  BY BusyNoTurn DEF Sound
<1>1. "response" \in Notices
  BY DEF Notices
<1>2. v \in ProxyState
  <2>1. CASE s.sync
    <3> DEFINE r == [s.result EXCEPT !.response = TRUE]
    <3>1. r \in Result
      BY <1>0, Fields DEF Result
    <3>2. [s EXCEPT !.result = r] \in ProxyState
      BY <1>0, <3>1, SetField
    <3> QED
      BY <2>1, <3>2 DEF OnReceivedResponse, SyncReceivedResponse
  <2>2. CASE ~s.sync
    BY <1>0, <1>1, <2>2, NotifyFields DEF OnReceivedResponse
  <2> QED
    BY <2>1, <2>2
<1>3. /\ v.request = "connecting" /\ v.hop = s.hop /\ v.read = s.read /\ v.buffer = s.buffer
      /\ v.io = s.io /\ v.held = s.held /\ v.alive = s.alive
      /\ v.sync = s.sync /\ v.signalled = s.signalled
      /\ v.result.data = s.result.data /\ v.result.code = s.result.code
      /\ s.sync => v.main = s.main
      /\ ~s.sync => v.main = Notify(s, "response").main
  BY <1>0 DEF OnReceivedResponse, SyncReceivedResponse, Notify, ProxyState
<1> HIDE DEF v
<1>4. t \in ProxyState
  BY <1>2, SetField
<1>5. /\ t.request = "ready" /\ t.hop = s.hop /\ t.read = s.read
      /\ t.io = s.io /\ t.held = s.held /\ t.alive = s.alive
      /\ t.sync = s.sync /\ t.signalled = s.signalled
      /\ t.result.data = s.result.data /\ t.result.code = s.result.code
      /\ t.main = v.main
  BY <1>2, <1>3 DEF ProxyState
<1>6. /\ ReadIs(v, "data") = ReadIs(t, "data") /\ ReadIs(v, "eof") = ReadIs(t, "eof")
      /\ ReadIs(v, "error") = ReadIs(t, "error") /\ ReadIs(v, "pending") = ReadIs(t, "pending")
  <2>1. ReadIs(v, "pending") = ReadIs(t, "pending")
    BY <1>2 DEF ReadIs, ProxyState
  <2>2. ASSUME NEW code PROVE Done(v, code) = Done(t, code)
    BY <1>2 DEF Done, OnCompletedRequest, SyncCompletedRequest, Notify, ProxyState
  <2>3. ReadIs(v, "data") = ReadIs(t, "data")
    BY <1>2 DEF ReadIs, OnReceivedData, SyncReceivedData, Notify, ProxyState
  <2> QED
    BY <2>1, <2>2, <2>3 DEF ReadIs
<1> HIDE DEF t
<1>7. ~s.sync => Notifies(s, t, "response")
  BY <1>0, <1>1, <1>3, <1>5, NotifyFields
<1>8. /\ Turns(t)
      /\ Follows(t) <=> Follows(s)
      /\ \A y : Notified(t, y) <=> Notified(s, y) \/ (~s.sync /\ y = "response")
  BY <1>0, <1>3, <1>5, <1>7, LoopsKept, NotifiesAdds DEF PeerTurn
<1>9. NoTurn(t)
  BY <1>0, <1>3, <1>5, <1>7 DEF NoTurn, Notifies, PeerTurn
<1>10. Waits(t)
  <2>1. \A i \in DOMAIN t.io : t.io[i] \notin {"start", "read", "follow"}
    BY <1>0, <1>5 DEF Waits, NoTurn, IOTurn
  <2> QED
    BY <1>9, <2>1 DEF Waits, NoTurn, PeerTurn
<1>11. Owned(t, b)
  BY <1>0, <1>5 DEF Owned
<1>12. Synchronous(n, t, h)
  BY <1>0, <1>3, <1>5 DEF Synchronous
<1>13. Permitted(t, h)
  BY <1>0, <1>5, <1>8 DEF Permitted
<1>14. ASSUME p PROVE Ordered(t, h) /\ Delivered(n, t, h)
  <2>1. ~s.sync /\ Ordered(s, h) /\ Delivered(n, s, h) /\ Notifies(s, t, "response")
    BY <1>0, <1>7, <1>14 DEF Listening
  <2>2. ~Follows(t) /\ ~Notified(t, "redirect") /\ ~Notified(s, "response") /\ h.page = -1
    BY <1>9, <2>1 DEF NoTurn, PeerTurn, IOTurn, Follows, Notified, Ordered
  <2>3. Delivered(n, t, h)
    BY <1>5, <1>8, <2>1 DEF Delivered
  <2>4. s.hop = h.permitted
    BY <1>0, <1>8, <2>1, <2>2 DEF Permitted
  <2> DEFINE k == Len(s.main) + 1
  <2>5. /\ t.main[k] = [notice |-> "response", hop |-> s.hop]
        /\ \A i \in DOMAIN t.main : i = k \/ (i \in DOMAIN s.main /\ t.main[i] = s.main[i])
    BY <2>1 DEF Notifies
  <2>6. \A i \in DOMAIN s.main : s.main[i].notice \notin {"response", "data", "ok"}
    <3>1. \A i \in DOMAIN s.main : s.main[i].notice # "response"
      BY <2>2 DEF Notified
    <3>2. \A i \in DOMAIN s.main : 1..(i - 1) \subseteq DOMAIN s.main
      BY <2>1 DEF Notifies
    <3> QED
      BY <2>1, <2>2, <3>1, <3>2 DEF Ordered
  <2> HIDE DEF k
  <2>7. Ordered(t, h)
    <3>1. \A i \in DOMAIN t.main : t.main[i].notice \in {"response", "data", "ok"} => i = k
      BY <2>5, <2>6
    <3>2. t.main[k].notice = "response" /\ t.main[k].hop = h.permitted
      BY <2>4, <2>5
    <3>3. Notified(t, "response")
      BY <1>8, <2>1
    <3> QED
      BY <1>5, <1>8, <2>2, <3>1, <3>2, <3>3 DEF Ordered
  <2> QED
    BY <2>3, <2>7
<1>15. Listening(n, t, h, p, b)
  BY <1>0, <1>5, <1>14 DEF Listening
<1>16. Sound(n, t, h, p, b)
  BY <1>0, <1>4, <1>8, <1>10, <1>11, <1>12, <1>13, <1>15 DEF Sound
<1>17. p => Notified(t, "response")
  BY <1>0, <1>8 DEF Listening
<1>18. HasRequest(t) /\ HasRequest(v)
  BY <1>3, <1>5 DEF HasRequest
<1> QED
  BY <1>5, <1>6, <1>9, <1>16, <1>17, <1>18 DEF t, v

\* A server's redirect: the peer is asked, or the synchronous proxy decides.
LEMMA RedirectSound ==
  ASSUME NEW n, NEW s, NEW h, NEW p, NEW b, Sound(n, s, h, p, b), s.request = "connecting",
         s.hop < MaxRedirects, NEW sameOrigin \in BOOLEAN
  PROVE  Sound(n, OnReceivedRedirect(s, sameOrigin), h, p, b)
<1> DEFINE t == OnReceivedRedirect(s, sameOrigin)
<1>0. /\ s \in ProxyState /\ h \in HeardState /\ n \in 0..MaxChunks
      /\ Turns(s) /\ Waits(s) /\ Owned(s, b)
      /\ Synchronous(n, s, h) /\ Permitted(s, h) /\ Listening(n, s, h, p, b)
      /\ NoTurn(s) /\ s.hop \in Nat /\ s.hop + 1 \in 0..MaxRedirects
  BY BusyNoTurn, Fields, Bounds DEF Sound
<1>1. CASE ~s.sync
  <2> DEFINE v == [s EXCEPT !.request = "deferred"]
  <2>1. /\ v \in ProxyState /\ v.main = s.main /\ v.io = s.io /\ v.hop = s.hop
        /\ t = Notify(v, "redirect") /\ "redirect" \in Notices
    <3>1. v \in ProxyState
      BY <1>0, SetField
    <3>2. v.main = s.main /\ v.io = s.io /\ v.hop = s.hop
      BY <1>0 DEF ProxyState
    <3>3. t = Notify(v, "redirect")
      BY <1>1 DEF OnReceivedRedirect
    <3> QED
      BY <3>1, <3>2, <3>3 DEF Notices
  <2>2. /\ t.request = "deferred" /\ t.hop = s.hop /\ t.read = s.read /\ t.buffer = s.buffer
        /\ t.io = s.io /\ t.held = s.held /\ t.alive = s.alive
        /\ t.sync = s.sync /\ t.signalled = s.signalled /\ t.result = s.result
    BY <1>0, <1>1 DEF OnReceivedRedirect, Notify, ProxyState
  <2> HIDE DEF v, t
  <2>3. t \in ProxyState /\ Notifies(v, t, "redirect")
    BY <2>1, <2>2, NotifyFields
  <2>4. Notifies(s, t, "redirect")
    BY <2>1, <2>3 DEF Notifies
  <2>5. /\ Turns(t)
        /\ Follows(t) <=> Follows(s)
        /\ \A y : Notified(t, y) <=> Notified(s, y) \/ y = "redirect"
    BY <1>0, <2>4, NotifiesAdds
  <2>6. Waits(t)
    <3>1. \A i \in DOMAIN t.io : t.io[i] \notin {"start", "read", "follow"}
      BY <1>0, <2>2 DEF Waits, NoTurn, IOTurn
    <3>2. \A i \in DOMAIN t.main : t.main[i].notice # "data"
      BY <1>0, <2>4, NotifiesAdds DEF NoTurn, PeerTurn
    <3> QED
      BY <2>2, <3>1, <3>2 DEF Waits
  <2>7. Owned(t, b)
    BY <1>0, <2>2 DEF Owned
  <2>8. Synchronous(n, t, h)
    BY <1>0, <1>1, <2>2 DEF Synchronous
  <2>9. ~Follows(s)
    BY <1>0 DEF NoTurn, IOTurn, Follows
  <2>10. Permitted(t, h)
    BY <1>0, <1>1, <2>2, <2>5, <2>9 DEF Permitted
  <2>11. ASSUME p PROVE Ordered(t, h) /\ Delivered(n, t, h)
    <3>1. Ordered(s, h) /\ Delivered(n, s, h)
      BY <1>0, <2>11 DEF Listening
    <3>2. Delivered(n, t, h)
      BY <2>2, <2>5, <3>1 DEF Delivered
    <3>3. Ordered(t, h)
      BY <2>2, <2>4, <2>5, <3>1, NotifiesInOrder DEF Ordered
    <3> QED
      BY <3>2, <3>3
  <2>12. Listening(n, t, h, p, b)
    BY <1>0, <2>2, <2>11 DEF Listening
  <2> QED
    BY <1>0, <2>3, <2>5, <2>6, <2>7, <2>8, <2>10, <2>12 DEF Sound, t
<1>2. CASE s.sync
  <2> DEFINE q == IF sameOrigin THEN s.io ELSE Append(s.io, "cancel")
  <2>1. /\ t.request = "connecting" /\ t.hop = s.hop + 1 /\ t.read = s.read
        /\ t.buffer = s.buffer /\ t.main = s.main /\ t.io = q
        /\ t.held = s.held /\ t.alive = s.alive
        /\ t.sync = s.sync /\ t.signalled = s.signalled
        /\ t.result.data = s.result.data /\ t.result.code = s.result.code
    BY <1>0, <1>2 DEF OnReceivedRedirect, SyncReceivedRedirect, Post, ProxyState
  <2>2. s.io \in Seq(IOTasks) /\ "cancel" \in IOTasks
    BY <1>0, Fields DEF IOTasks
  <2>3. t \in ProxyState
    <3>1. [s EXCEPT !.hop = s.hop + 1] \in ProxyState
      BY <1>0, SetField
    <3>2. CASE sameOrigin
      <4> DEFINE r == [s.result EXCEPT !.url = s.hop + 1]
      <4>1. r \in Result
        BY <1>0, Fields DEF Result
      <4>2. [[s EXCEPT !.hop = s.hop + 1] EXCEPT !.result = r] \in ProxyState
        BY <3>1, <4>1, SetField
      <4>3. [s EXCEPT !.hop = s.hop + 1].result = s.result
        BY <1>0 DEF ProxyState
      <4> QED
        BY <1>2, <3>2, <4>2, <4>3 DEF OnReceivedRedirect, SyncReceivedRedirect
    <3>3. CASE ~sameOrigin
      <4>1. [s EXCEPT !.hop = s.hop + 1].io = s.io
        BY <1>0 DEF ProxyState
      <4>2. Append(s.io, "cancel") \in Seq(IOTasks)
        BY <2>2, AppendSeq
      <4>3. [[s EXCEPT !.hop = s.hop + 1] EXCEPT !.io = Append(s.io, "cancel")] \in ProxyState
        BY <3>1, <4>2, SetField
      <4> QED
        BY <1>2, <3>3, <4>1, <4>3 DEF OnReceivedRedirect, SyncReceivedRedirect, Post
    <3> QED
      BY <3>2, <3>3
  <2> HIDE DEF t
  <2>4. \A i \in DOMAIN t.io : t.io[i] = "cancel" \/ (i \in DOMAIN s.io /\ t.io[i] = s.io[i])
    BY <2>1, <2>2, AppendSeq
  <2>5. \A i \in DOMAIN t.io : t.io[i] \notin {"start", "read", "follow"}
    BY <1>0, <2>4 DEF Waits, NoTurn, IOTurn
  <2>6. t.main = <<>> /\ DOMAIN t.main = {}
    BY <1>0, <1>2, <2>1 DEF Synchronous
  <2>7. Turns(t) /\ Waits(t) /\ ~Follows(t)
    BY <2>5, <2>6 DEF Turns, Waits, IOTurn, Follows
  <2>8. Owned(t, b)
    BY <1>0, <2>1, <2>4 DEF Owned
  <2>9. Synchronous(n, t, h)
    BY <1>0, <1>2, <2>1, <2>5, <2>6 DEF Synchronous
  <2>10. Permitted(t, h)
    <3>1. h.permitted \in Nat
      BY <1>0, Bounds DEF HeardState
    <3> QED
      BY <1>0, <1>2, <2>1, <2>6, <2>7, <3>1 DEF Permitted, Notified
  <2>11. Listening(n, t, h, p, b)
    <3>1. b # "new"
      BY <1>0 DEF Owned
    <3> QED
      BY <1>0, <1>2, <3>1 DEF Listening
  <2> QED
    BY <1>0, <2>3, <2>7, <2>8, <2>9, <2>10, <2>11 DEF Sound, t
<1> QED
  BY <1>1, <1>2

\* t is s without its first IO task.
LEMMA PopFields ==
  ASSUME NEW s \in ProxyState, s.io # <<>>
  PROVE  LET t == [s EXCEPT !.io = Tail(@)]
         IN  /\ t \in ProxyState /\ t.main = s.main /\ t.request = s.request /\ t.hop = s.hop
             /\ t.read = s.read /\ t.buffer = s.buffer /\ t.held = s.held /\ t.alive = s.alive
             /\ t.sync = s.sync /\ t.signalled = s.signalled /\ t.result = s.result
             /\ \A i \in DOMAIN t.io : i + 1 \in DOMAIN s.io /\ t.io[i] = s.io[i + 1]
             /\ \A i \in DOMAIN s.io : i \in Nat /\ (i = 1 \/ i - 1 \in DOMAIN t.io)
             /\ DOMAIN t.io \subseteq Nat \ {0}
             /\ 1 \in DOMAIN s.io /\ Head(s.io) = s.io[1] /\ Head(s.io) \in IOTasks
<1> DEFINE t == [s EXCEPT !.io = Tail(@)]
<1>1. s.io \in Seq(IOTasks)
  BY Fields
<1>2. Tail(s.io) \in Seq(IOTasks)
  BY <1>1, TailSeq
<1>3. t \in ProxyState
  BY <1>2, SetField
<1>4. /\ t.io = Tail(s.io) /\ t.main = s.main /\ t.request = s.request /\ t.hop = s.hop
      /\ t.read = s.read /\ t.buffer = s.buffer /\ t.held = s.held /\ t.alive = s.alive
      /\ t.sync = s.sync /\ t.signalled = s.signalled /\ t.result = s.result
  BY DEF ProxyState
<1>5. /\ \A i \in DOMAIN t.io : i + 1 \in DOMAIN s.io /\ t.io[i] = s.io[i + 1]
      /\ \A i \in DOMAIN s.io : i \in Nat /\ (i = 1 \/ i - 1 \in DOMAIN t.io)
      /\ DOMAIN t.io \subseteq Nat \ {0}
      /\ 1 \in DOMAIN s.io /\ Head(s.io) = s.io[1] /\ Head(s.io) \in IOTasks
  <2> HIDE DEF t
  <2> QED
    BY <1>1, <1>4, TailSeq
<1> QED
  BY <1>3, <1>4, <1>5

\* An IO task that changes nothing else is taken.
LEMMA PopSound ==
  ASSUME NEW n, NEW s, NEW h, NEW p, NEW b, Sound(n, s, h, p, b), s.io # <<>>,
         Head(s.io) = "follow" => s.request = "gone"
  PROVE  LET t == [s EXCEPT !.io = Tail(@)]
         IN  /\ Sound(n, t, h, p, b)
             /\ Head(s.io) \in {"read", "follow"} => NoTurn(t)
             /\ Head(s.io) = "start" => t.request = "none"
             /\ \A i \in DOMAIN t.io : t.io[i] # "start"
<1> DEFINE t == [s EXCEPT !.io = Tail(@)]
<1>0. /\ s \in ProxyState /\ h \in HeardState /\ n \in 0..MaxChunks
      /\ Turns(s) /\ Waits(s) /\ Owned(s, b)
      /\ Synchronous(n, s, h) /\ Permitted(s, h) /\ Listening(n, s, h, p, b)
  BY DEF Sound
<1>1. /\ t \in ProxyState /\ t.main = s.main /\ t.request = s.request /\ t.hop = s.hop
      /\ t.read = s.read /\ t.buffer = s.buffer /\ t.held = s.held /\ t.alive = s.alive
      /\ t.sync = s.sync /\ t.signalled = s.signalled /\ t.result = s.result
      /\ \A i \in DOMAIN t.io : i + 1 \in DOMAIN s.io /\ t.io[i] = s.io[i + 1]
      /\ \A i \in DOMAIN s.io : i \in Nat /\ (i = 1 \/ i - 1 \in DOMAIN t.io)
      /\ DOMAIN t.io \subseteq Nat \ {0}
      /\ 1 \in DOMAIN s.io /\ Head(s.io) = s.io[1] /\ Head(s.io) \in IOTasks
  BY <1>0, PopFields
<1> HIDE DEF t
<1>2. /\ Follows(t) => Follows(s)
      /\ Follows(s) /\ s.request # "gone" => Follows(t)
      /\ \A y : Notified(t, y) <=> Notified(s, y)
  BY <1>1 DEF Follows, Notified
<1>3. Turns(t)
  <2>1. ASSUME NEW i \in DOMAIN t.io, NEW j \in DOMAIN t.io,
               IOTurn(t.io[i]), IOTurn(t.io[j])
        PROVE  i = j
    <3>1. i + 1 = j + 1
      BY <1>0, <1>1, <2>1 DEF Turns
    <3> QED
      BY <1>1, <3>1
  <2>2. \A i \in DOMAIN t.main, j \in DOMAIN t.io :
          ~(PeerTurn(t.main[i].notice) /\ IOTurn(t.io[j]))
    BY <1>0, <1>1 DEF Turns
  <2> QED
    BY <1>0, <1>1, <2>1, <2>2 DEF Turns
<1>4. \A i \in DOMAIN t.io : t.io[i] # "start"
  BY <1>0, <1>1 DEF Waits
<1>5. Waits(t)
  BY <1>0, <1>1, <1>4 DEF Waits
<1>7. Owned(t, b)
  BY <1>0, <1>1 DEF Owned
<1>8. Synchronous(n, t, h)
  BY <1>0, <1>1 DEF Synchronous
<1>9. Permitted(t, h)
  BY <1>0, <1>1, <1>2 DEF Permitted
<1>10. Listening(n, t, h, p, b)
  <2>1. p => Ordered(t, h)
    BY <1>0, <1>1, <1>2 DEF Listening, Ordered
  <2>2. p => Delivered(n, t, h)
    BY <1>0, <1>1, <1>2 DEF Listening, Delivered
  <2> QED
    BY <1>0, <1>1, <2>1, <2>2 DEF Listening
<1>11. Head(s.io) \in {"read", "follow"} => NoTurn(t)
  <2> SUFFICES ASSUME IOTurn(s.io[1]) PROVE NoTurn(t)
    BY <1>1 DEF IOTurn
  <2>1. \A i \in DOMAIN t.io : ~IOTurn(t.io[i])
    <3> SUFFICES ASSUME NEW i \in DOMAIN t.io, IOTurn(t.io[i]) PROVE FALSE
      OBVIOUS
    <3>1. i + 1 = 1
      BY <1>0, <1>1 DEF Turns
    <3> QED
      BY <1>1, <3>1
  <2>2. \A i \in DOMAIN t.main : ~PeerTurn(t.main[i].notice)
    BY <1>0, <1>1 DEF Turns
  <2> QED
    BY <2>1, <2>2 DEF NoTurn
<1>12. Head(s.io) = "start" => t.request = "none"
  BY <1>0, <1>1 DEF Waits
<1> QED
  BY <1>0, <1>1, <1>3, <1>4, <1>5, <1>7, <1>8, <1>9, <1>10, <1>11, <1>12 DEF Sound, t

\* The proxy's destructor, once the bridge is gone.
LEMMA DestructSound ==
  ASSUME NEW n, NEW s, NEW h, NEW p, NEW b, Sound(n, s, h, p, b), b = "deleted",
         \A i \in DOMAIN s.io : s.io[i] # "start"
  PROVE  Sound(n, Destruct(s), h, p, b)
<1> DEFINE t == Destruct(s)
<1>0. /\ s \in ProxyState /\ h \in HeardState /\ n \in 0..MaxChunks
      /\ Turns(s) /\ Waits(s) /\ Owned(s, b)
      /\ Synchronous(n, s, h) /\ Permitted(s, h) /\ Listening(n, s, h, p, b)
  BY DEF Sound
<1>1. /\ t.request = "gone" /\ t.hop = s.hop /\ t.read = s.read /\ t.buffer = s.buffer
      /\ t.main = s.main /\ t.io = s.io /\ t.held = s.held
      /\ t.sync = s.sync /\ t.result = s.result /\ t.signalled = s.signalled
  BY <1>0 DEF Destruct, ProxyState
<1>2. t \in ProxyState
  <2>1. [s EXCEPT !.alive = FALSE] \in ProxyState
    BY <1>0, SetField
  <2>2. [[s EXCEPT !.alive = FALSE] EXCEPT !.request = "gone"] \in ProxyState
    BY <2>1, SetField
  <2> QED
    BY <2>2 DEF Destruct
<1> HIDE DEF t
<1>3. /\ Turns(t)
      /\ Follows(t) <=> Follows(s)
      /\ \A x : Notified(t, x) <=> Notified(s, x)
  BY <1>0, <1>1, LoopsKept
<1>4. Waits(t)
  BY <1>0, <1>1 DEF Waits
<1>5. Owned(t, b)
  BY <1>0, <1>1 DEF Owned
<1>6. Synchronous(n, t, h)
  BY <1>0, <1>1 DEF Synchronous
<1>7. Permitted(t, h)
  BY <1>0, <1>1, <1>3 DEF Permitted
<1>8. Listening(n, t, h, p, b)
  BY <1>0 DEF Listening
<1> QED
  BY <1>0, <1>2, <1>3, <1>4, <1>5, <1>6, <1>7, <1>8 DEF Sound, t

\* The URL request starts.
LEMMA ConnectSound ==
  ASSUME NEW n, NEW s, NEW h, NEW p, NEW b, Sound(n, s, h, p, b), s.request = "none",
         b # "new", s.alive, \A i \in DOMAIN s.io : s.io[i] # "start"
  PROVE  Sound(n, [s EXCEPT !.request = "connecting"], h, p, b)
<1> DEFINE t == [s EXCEPT !.request = "connecting"]
<1>0. /\ s \in ProxyState /\ h \in HeardState /\ n \in 0..MaxChunks
      /\ Turns(s) /\ Waits(s) /\ Owned(s, b) /\ NoTurn(s)
      /\ Synchronous(n, s, h) /\ Permitted(s, h) /\ Listening(n, s, h, p, b)
  BY BusyNoTurn DEF Sound
<1>1. /\ t.request = "connecting" /\ t.hop = s.hop /\ t.read = s.read /\ t.buffer = s.buffer
      /\ t.main = s.main /\ t.io = s.io /\ t.held = s.held /\ t.alive = s.alive
      /\ t.sync = s.sync /\ t.result = s.result /\ t.signalled = s.signalled
  BY <1>0 DEF ProxyState
<1>2. t \in ProxyState
  BY <1>0, SetField
<1> HIDE DEF t
<1>3. /\ Turns(t) /\ NoTurn(t)
      /\ Follows(t) <=> Follows(s)
      /\ \A x : Notified(t, x) <=> Notified(s, x)
  BY <1>0, <1>1, LoopsKept
<1>4. Waits(t)
  BY <1>0, <1>1 DEF Waits, NoTurn, PeerTurn, IOTurn
<1>5. Owned(t, b)
  BY <1>0, <1>1 DEF Owned
<1>6. Synchronous(n, t, h)
  BY <1>0, <1>1 DEF Synchronous
<1>7. Permitted(t, h)
  BY <1>0, <1>1, <1>3 DEF Permitted
<1>8. Listening(n, t, h, p, b)
  BY <1>0, <1>1, <1>3 DEF Listening, Ordered, Delivered
<1> QED
  BY <1>0, <1>2, <1>3, <1>4, <1>5, <1>6, <1>7, <1>8 DEF Sound, t

\* A permitted redirect is followed.
LEMMA FollowSound ==
  ASSUME NEW n, NEW s, NEW h, NEW p, NEW b, Sound(n, s, h, p, b), s.io # <<>>,
         Head(s.io) = "follow"
  PROVE  Sound(n, AsyncFollowDeferredRedirect([s EXCEPT !.io = Tail(@)]), h, p, b)
<1>1. CASE s.request = "gone"
  <2>1. Sound(n, [s EXCEPT !.io = Tail(@)], h, p, b)
    BY <1>1, PopSound
  <2>2. [s EXCEPT !.io = Tail(@)].request = "gone"
    BY <1>1, PopFields DEF Sound
  <2> QED
    BY <2>1, <2>2 DEF AsyncFollowDeferredRedirect, HasRequest
<1>2. CASE s.request # "gone"
  <2> DEFINE q == [s EXCEPT !.io = Tail(@)]
             t == [q EXCEPT !.request = "connecting", !.hop = @ + 1]
  <2>0. /\ s \in ProxyState /\ h \in HeardState /\ n \in 0..MaxChunks
        /\ Turns(s) /\ Waits(s) /\ Owned(s, b)
        /\ Synchronous(n, s, h) /\ Permitted(s, h) /\ Listening(n, s, h, p, b)
    BY DEF Sound
  <2>1. /\ q \in ProxyState /\ q.main = s.main /\ q.request = s.request /\ q.hop = s.hop
        /\ q.read = s.read /\ q.buffer = s.buffer /\ q.held = s.held /\ q.alive = s.alive
        /\ q.sync = s.sync /\ q.signalled = s.signalled /\ q.result = s.result
        /\ \A i \in DOMAIN q.io : i + 1 \in DOMAIN s.io /\ q.io[i] = s.io[i + 1]
        /\ DOMAIN q.io \subseteq Nat \ {0}
        /\ 1 \in DOMAIN s.io /\ Head(s.io) = s.io[1]
    BY <2>0, PopFields
  <2> HIDE DEF q
  <2>2. s.request = "deferred" /\ s.hop < MaxRedirects /\ ~s.sync /\ Follows(s)
    BY <1>2, <2>0, <2>1 DEF Waits, Synchronous, Follows
  <2>3. q.hop + 1 \in 0..MaxRedirects /\ s.hop \in Nat
    BY <2>0, <2>1, <2>2, Fields, Bounds
  <2>4. /\ t.request = "connecting" /\ t.hop = s.hop + 1 /\ t.read = s.read
        /\ t.main = s.main /\ t.io = q.io /\ t.held = s.held /\ t.alive = s.alive
        /\ t.sync = s.sync /\ t.signalled = s.signalled /\ t.result = s.result
    BY <2>1 DEF ProxyState
  <2>5. t \in ProxyState
    <3>1. [q EXCEPT !.request = "connecting"] \in ProxyState
      BY <2>1, SetField
    <3>2. [[q EXCEPT !.request = "connecting"] EXCEPT !.hop = q.hop + 1] \in ProxyState
      BY <2>3, <3>1, SetField
    <3>3. [q EXCEPT !.request = "connecting"].hop = q.hop
      BY <2>1 DEF ProxyState
    <3> QED
      BY <3>2, <3>3
  <2>6. AsyncFollowDeferredRedirect(q) = t
    BY <2>1, <2>2 DEF AsyncFollowDeferredRedirect, HasRequest
  <2> HIDE DEF t
  <2>7. \A i \in DOMAIN t.io : ~IOTurn(t.io[i])
    <3> SUFFICES ASSUME NEW i \in DOMAIN t.io, IOTurn(t.io[i]) PROVE FALSE
      OBVIOUS
    <3>1. i + 1 \in DOMAIN s.io /\ IOTurn(s.io[i + 1]) /\ IOTurn(s.io[1])
      BY <2>1, <2>4 DEF IOTurn
    <3>2. i + 1 = 1
      BY <2>0, <2>1, <3>1 DEF Turns
    <3> QED
      BY <2>1, <2>4, <3>2
  <2>8. \A i \in DOMAIN t.main : ~PeerTurn(t.main[i].notice)
    BY <2>0, <2>1, <2>4 DEF Turns, IOTurn
  <2>9. Turns(t) /\ ~Follows(t) /\ ~Notified(t, "redirect") /\ ~Notified(t, "data")
    BY <2>7, <2>8 DEF Turns, Follows, Notified, PeerTurn, IOTurn
  <2>10. \A i \in DOMAIN t.io : t.io[i] # "start"
    BY <2>0, <2>1, <2>2, <2>4 DEF Waits
  <2>11. Waits(t)
    BY <2>7, <2>8, <2>10 DEF Waits, PeerTurn, IOTurn
  <2>12. Owned(t, b)
    BY <2>0, <2>1, <2>2, <2>4 DEF Owned
  <2>13. Synchronous(n, t, h)
    BY <2>0, <2>2, <2>4 DEF Synchronous
  <2>14. Permitted(t, h)
    <3>1. h.permitted = t.hop
      BY <2>0, <2>2, <2>4 DEF Permitted
    <3>2. t.hop \in Nat
      BY <2>3, <2>4
    <3> QED
      BY <2>9, <3>1, <3>2 DEF Permitted
  <2>15. \A y : Notified(t, y) <=> Notified(s, y)
    BY <2>4 DEF Notified
  <2>16. Listening(n, t, h, p, b)
    BY <2>0, <2>2, <2>4, <2>9, <2>15 DEF Listening, Ordered, Delivered
  <2> QED
    BY <2>0, <2>5, <2>6, <2>9, <2>11, <2>12, <2>13, <2>14, <2>16 DEF Sound, q
<1> QED
  BY <1>1, <1>2

\* ReleaseSoon runs.
LEMMA ReleaseSound ==
  ASSUME NEW n, NEW s, NEW h, NEW p, NEW b, Sound(n, s, h, p, b), b = "deleted"
  PROVE  Sound(n, [s EXCEPT !.held = FALSE], h, p, b)
<1> DEFINE t == [s EXCEPT !.held = FALSE]
<1>0. /\ s \in ProxyState /\ h \in HeardState /\ n \in 0..MaxChunks
      /\ Turns(s) /\ Waits(s) /\ Owned(s, b)
      /\ Synchronous(n, s, h) /\ Permitted(s, h) /\ Listening(n, s, h, p, b)
  BY DEF Sound
<1>1. /\ t.request = s.request /\ t.hop = s.hop /\ t.read = s.read /\ t.buffer = s.buffer
      /\ t.main = s.main /\ t.io = s.io /\ t.alive = s.alive
      /\ t.sync = s.sync /\ t.result = s.result /\ t.signalled = s.signalled
  BY <1>0 DEF ProxyState
<1>2. t \in ProxyState
  BY <1>0, SetField
<1> HIDE DEF t
<1>3. /\ Turns(t)
      /\ Follows(t) <=> Follows(s)
      /\ \A x : Notified(t, x) <=> Notified(s, x)
  BY <1>0, <1>1, LoopsKept
<1>4. Waits(t)
  BY <1>0, <1>1 DEF Waits
<1>5. Owned(t, b)
  BY <1>0, <1>1 DEF Owned
<1>6. Synchronous(n, t, h)
  BY <1>0, <1>1 DEF Synchronous
<1>7. Permitted(t, h)
  BY <1>0, <1>1, <1>3 DEF Permitted
<1>8. Listening(n, t, h, p, b)
  BY <1>0 DEF Listening
<1> QED
  BY <1>0, <1>2, <1>3, <1>4, <1>5, <1>6, <1>7, <1>8 DEF Sound, t

\* A task is posted to the IO thread.
LEMMA PostFields ==
  ASSUME NEW s \in ProxyState, NEW task \in IOTasks
  PROVE  LET t == Post(s, task)
         IN  /\ t \in ProxyState /\ t.main = s.main /\ t.request = s.request /\ t.hop = s.hop
             /\ t.read = s.read /\ t.buffer = s.buffer /\ t.held = s.held /\ t.alive = s.alive
             /\ t.sync = s.sync /\ t.signalled = s.signalled /\ t.result = s.result
             /\ t.io # <<>> /\ Len(s.io) + 1 \in DOMAIN t.io /\ t.io[Len(s.io) + 1] = task
             /\ \A i \in DOMAIN t.io : \/ i = Len(s.io) + 1
                                       \/ i \in DOMAIN s.io /\ t.io[i] = s.io[i]
             /\ \A i \in DOMAIN s.io : i \in DOMAIN t.io /\ t.io[i] = s.io[i]
             /\ s.io = <<>> => DOMAIN t.io = {1}
<1>1. s.io \in Seq(IOTasks)
  BY Fields
<1>2. /\ Append(s.io, task) \in Seq(IOTasks) /\ Len(s.io) \in Nat /\ DOMAIN s.io = 1..Len(s.io)
      /\ Append(s.io, task) # <<>>
      /\ DOMAIN Append(s.io, task) = 1..(Len(s.io) + 1)
      /\ Append(s.io, task)[Len(s.io) + 1] = task
      /\ \A i \in 1..Len(s.io) : Append(s.io, task)[i] = s.io[i]
  BY <1>1, AppendSeq
<1>3. Post(s, task) \in ProxyState
  <2>1. \A q \in Seq(IOTasks) : [s EXCEPT !.io = q] \in ProxyState
    BY SetField
  <2> QED
    BY <1>2, <2>1 DEF Post
<1>4. LET t == Post(s, task)
      IN  /\ t.main = s.main /\ t.request = s.request /\ t.hop = s.hop
          /\ t.read = s.read /\ t.buffer = s.buffer /\ t.held = s.held /\ t.alive = s.alive
          /\ t.sync = s.sync /\ t.signalled = s.signalled /\ t.result = s.result
          /\ t.io = Append(s.io, task)
  BY DEF Post, ProxyState
<1>5. s.io = <<>> => DOMAIN Append(s.io, task) = {1}
  BY <1>2
<1> QED
  BY <1>2, <1>3, <1>4, <1>5

\* A task that gives nobody a turn.
LEMMA PostSound ==
  ASSUME NEW n, NEW s, NEW h, NEW p, NEW b, Sound(n, s, h, p, b), b # "new",
         NEW task \in {"cancel", "release", "delete"},
         task # "cancel" => b = "deleted"
  PROVE  Sound(n, Post(s, task), h, p, b)
<1> DEFINE t == Post(s, task)
<1>0. /\ s \in ProxyState /\ h \in HeardState /\ n \in 0..MaxChunks
      /\ Turns(s) /\ Waits(s) /\ Owned(s, b)
      /\ Synchronous(n, s, h) /\ Permitted(s, h) /\ Listening(n, s, h, p, b)
      /\ task \in IOTasks
  BY DEF Sound, IOTasks
<1>1. /\ t \in ProxyState /\ t.main = s.main /\ t.request = s.request /\ t.hop = s.hop
      /\ t.read = s.read /\ t.buffer = s.buffer /\ t.held = s.held /\ t.alive = s.alive
      /\ t.sync = s.sync /\ t.signalled = s.signalled /\ t.result = s.result
      /\ \A i \in DOMAIN t.io : t.io[i] = task \/ (i \in DOMAIN s.io /\ t.io[i] = s.io[i])
      /\ \A i \in DOMAIN s.io : i \in DOMAIN t.io /\ t.io[i] = s.io[i]
  BY <1>0, PostFields
<1> HIDE DEF t
<1>2. Turns(t)
  BY <1>0, <1>1 DEF Turns, IOTurn
<1>3. Waits(t)
  BY <1>0, <1>1 DEF Waits
<1>4. Owned(t, b)
  BY <1>0, <1>1 DEF Owned
<1>5. Synchronous(n, t, h)
  BY <1>0, <1>1 DEF Synchronous
<1>6. /\ Follows(t) <=> Follows(s)
      /\ \A x : Notified(t, x) <=> Notified(s, x)
  BY <1>1 DEF Follows, Notified
<1>7. Permitted(t, h)
  BY <1>0, <1>1, <1>6 DEF Permitted
<1>8. Listening(n, t, h, p, b)
  BY <1>0, <1>1, <1>6 DEF Listening, Ordered, Delivered
<1> QED
  BY <1>0, <1>1, <1>2, <1>3, <1>4, <1>5, <1>7, <1>8 DEF Sound, t

\* The main thread takes a notification.
LEMMA TakeFields ==
  ASSUME NEW s \in ProxyState, s.main # <<>>
  PROVE  LET q == [s EXCEPT !.main = Tail(@)]
         IN  /\ q \in ProxyState /\ q.io = s.io /\ q.request = s.request /\ q.hop = s.hop
             /\ q.read = s.read /\ q.buffer = s.buffer /\ q.held = s.held /\ q.alive = s.alive
             /\ q.sync = s.sync /\ q.signalled = s.signalled /\ q.result = s.result
             /\ \A i \in DOMAIN q.main : i + 1 \in DOMAIN s.main /\ q.main[i] = s.main[i + 1]
             /\ \A i \in DOMAIN s.main : i \in Nat /\ (i = 1 \/ i - 1 \in DOMAIN q.main)
             /\ DOMAIN q.main \subseteq Nat \ {0}
             /\ 1 \in DOMAIN s.main /\ Head(s.main) = s.main[1] /\ Head(s.main) \in Note
             /\ DOMAIN s.main = 1..Len(s.main) /\ Len(s.main) \in Nat
             /\ DOMAIN q.main = 1..(Len(s.main) - 1)
<1> DEFINE q == [s EXCEPT !.main = Tail(@)]
<1>1. s.main \in Seq(Note)
  BY Fields
<1>2. Tail(s.main) \in Seq(Note)
  BY <1>1, TailSeq
<1>3. q \in ProxyState
  BY <1>2, SetField
<1>4. /\ q.main = Tail(s.main) /\ q.io = s.io /\ q.request = s.request /\ q.hop = s.hop
      /\ q.read = s.read /\ q.buffer = s.buffer /\ q.held = s.held /\ q.alive = s.alive
      /\ q.sync = s.sync /\ q.signalled = s.signalled /\ q.result = s.result
  BY DEF ProxyState
<1>5. /\ \A i \in DOMAIN q.main : i + 1 \in DOMAIN s.main /\ q.main[i] = s.main[i + 1]
      /\ \A i \in DOMAIN s.main : i \in Nat /\ (i = 1 \/ i - 1 \in DOMAIN q.main)
      /\ DOMAIN q.main \subseteq Nat \ {0}
      /\ 1 \in DOMAIN s.main /\ Head(s.main) = s.main[1] /\ Head(s.main) \in Note
      /\ DOMAIN s.main = 1..Len(s.main) /\ Len(s.main) \in Nat
      /\ DOMAIN q.main = 1..(Len(s.main) - 1)
  <2> HIDE DEF q
  <2> QED
    BY <1>1, <1>4, TailSeq
<1> QED
  BY <1>3, <1>4, <1>5

\* What a notification that was taken leaves, whatever the peer, if there still
\* is one, was told.
LEMMA TakeSound ==
  ASSUME NEW n, NEW s, NEW h, NEW p, NEW b, Sound(n, s, h, p, b), s.main # <<>>,
         NEW h2 \in HeardState, h2.permitted = h.permitted
  PROVE  LET q == [s EXCEPT !.main = Tail(@)]
         IN  /\ Sound(n, q, h2, FALSE, b)
             /\ PeerTurn(Head(s.main).notice) => NoTurn(q)
             /\ \A y : Notified(q, y) => Notified(s, y)
             /\ \A y : Notified(s, y) => Notified(q, y) \/ y = Head(s.main).notice
<1> DEFINE q == [s EXCEPT !.main = Tail(@)]
<1>0. /\ s \in ProxyState /\ h \in HeardState /\ n \in 0..MaxChunks
      /\ Turns(s) /\ Waits(s) /\ Owned(s, b)
      /\ Synchronous(n, s, h) /\ Permitted(s, h) /\ Listening(n, s, h, p, b)
      /\ ~s.sync /\ b # "new"
  BY DEF Sound, Synchronous, Owned
<1>1. /\ q \in ProxyState /\ q.io = s.io /\ q.request = s.request /\ q.hop = s.hop
      /\ q.read = s.read /\ q.buffer = s.buffer /\ q.held = s.held /\ q.alive = s.alive
      /\ q.sync = s.sync /\ q.signalled = s.signalled /\ q.result = s.result
      /\ \A i \in DOMAIN q.main : i + 1 \in DOMAIN s.main /\ q.main[i] = s.main[i + 1]
      /\ \A i \in DOMAIN s.main : i \in Nat /\ (i = 1 \/ i - 1 \in DOMAIN q.main)
      /\ DOMAIN q.main \subseteq Nat \ {0}
      /\ 1 \in DOMAIN s.main /\ Head(s.main) = s.main[1]
  BY <1>0, TakeFields
<1> HIDE DEF q
<1>2. Turns(q)
  <2>1. ASSUME NEW i \in DOMAIN q.main, NEW j \in DOMAIN q.main,
               PeerTurn(q.main[i].notice), PeerTurn(q.main[j].notice)
        PROVE  i = j
    <3>1. i + 1 = j + 1
      BY <1>0, <1>1, <2>1 DEF Turns
    <3> QED
      BY <1>1, <3>1
  <2>2. \A i \in DOMAIN q.main, j \in DOMAIN q.io :
          ~(PeerTurn(q.main[i].notice) /\ IOTurn(q.io[j]))
    BY <1>0, <1>1 DEF Turns
  <2> QED
    BY <1>0, <1>1, <2>1, <2>2 DEF Turns
<1>3. Waits(q)
  BY <1>0, <1>1 DEF Waits
<1>4. Owned(q, b)
  BY <1>0, <1>1 DEF Owned
<1>5. Synchronous(n, q, h2)
  BY <1>0, <1>1 DEF Synchronous
<1>6. /\ Follows(q) <=> Follows(s)
      /\ \A y : Notified(q, y) => Notified(s, y)
  BY <1>1 DEF Follows, Notified
<1>7. Permitted(q, h2)
  BY <1>0, <1>1, <1>6 DEF Permitted
<1>8. \A y : Notified(s, y) => Notified(q, y) \/ y = Head(s.main).notice
  <2> SUFFICES ASSUME NEW y, Notified(s, y), y # Head(s.main).notice PROVE Notified(q, y)
    OBVIOUS
  <2>1. PICK i \in DOMAIN s.main : s.main[i].notice = y
    BY DEF Notified
  <2>2. i - 1 \in DOMAIN q.main /\ q.main[i - 1] = s.main[i]
    BY <1>1, <2>1
  <2> QED
    BY <2>1, <2>2 DEF Notified
<1>9. PeerTurn(Head(s.main).notice) => NoTurn(q)
  <2> SUFFICES ASSUME PeerTurn(s.main[1].notice) PROVE NoTurn(q)
    BY <1>1
  <2>1. \A i \in DOMAIN q.main : ~PeerTurn(q.main[i].notice)
    <3> SUFFICES ASSUME NEW i \in DOMAIN q.main, PeerTurn(q.main[i].notice) PROVE FALSE
      OBVIOUS
    <3>1. i + 1 = 1
      BY <1>0, <1>1 DEF Turns
    <3> QED
      BY <1>1, <3>1
  <2>2. \A i \in DOMAIN q.io : ~IOTurn(q.io[i])
    BY <1>0, <1>1 DEF Turns
  <2> QED
    BY <2>1, <2>2 DEF NoTurn
<1>10. Listening(n, q, h2, FALSE, b)
  BY <1>0 DEF Listening
<1> QED
  BY <1>0, <1>1, <1>2, <1>3, <1>4, <1>5, <1>6, <1>7, <1>8, <1>9, <1>10 DEF Sound, q

\* The peer answers: the turn goes to the IO thread.
LEMMA TurnSound ==
  ASSUME NEW n, NEW s, NEW h, NEW p, NEW b, Sound(n, s, h, p, b), NoTurn(s), ~s.sync,
         b = "loading", NEW task \in {"follow", "read"}, NEW h2 \in HeardState,
         task = "follow" => /\ s.request \in {"deferred", "gone"} /\ s.hop < MaxRedirects
                            /\ h2.permitted = s.hop + 1,
         task = "read" => s.request \in {"ready", "gone"} /\ h2.permitted = h.permitted
  PROVE  LET t == Post(s, task)
         IN  /\ Sound(n, t, h2, FALSE, b)
             /\ Follows(t) <=> task = "follow"
             /\ \A y : Notified(t, y) <=> Notified(s, y)
<1> DEFINE t == Post(s, task)
<1>0. /\ s \in ProxyState /\ h \in HeardState /\ n \in 0..MaxChunks
      /\ Turns(s) /\ Waits(s) /\ Owned(s, b)
      /\ Synchronous(n, s, h) /\ Permitted(s, h) /\ Listening(n, s, h, p, b)
      /\ task \in IOTasks /\ s.hop \in Nat
  BY Fields DEF Sound, IOTasks
<1>1. /\ t \in ProxyState /\ t.main = s.main /\ t.request = s.request /\ t.hop = s.hop
      /\ t.read = s.read /\ t.buffer = s.buffer /\ t.held = s.held /\ t.alive = s.alive
      /\ t.sync = s.sync /\ t.signalled = s.signalled /\ t.result = s.result
      /\ Len(s.io) + 1 \in DOMAIN t.io /\ t.io[Len(s.io) + 1] = task
      /\ \A i \in DOMAIN t.io : \/ i = Len(s.io) + 1
                                \/ i \in DOMAIN s.io /\ t.io[i] = s.io[i]
      /\ \A i \in DOMAIN s.io : i \in DOMAIN t.io /\ t.io[i] = s.io[i]
  BY <1>0, PostFields
<1> HIDE DEF t
<1>2. \A i \in DOMAIN t.io : IOTurn(t.io[i]) => i = Len(s.io) + 1
  BY <1>1 DEF NoTurn
<1>3. \A i \in DOMAIN t.main : ~PeerTurn(t.main[i].notice)
  BY <1>1 DEF NoTurn
<1>4. Turns(t)
  BY <1>2, <1>3 DEF Turns
<1>5. \A i \in DOMAIN t.io : t.io[i] = task \/ (i \in DOMAIN s.io /\ t.io[i] = s.io[i])
  BY <1>1
<1>6. Waits(t)
  BY <1>0, <1>1, <1>3, <1>5 DEF Waits, PeerTurn
<1>7. Owned(t, b)
  BY <1>0, <1>1, <1>5 DEF Owned
<1>8. Synchronous(n, t, h2)
  BY <1>0, <1>1 DEF Synchronous
<1>9. /\ Follows(t) <=> task = "follow"
      /\ \A y : Notified(t, y) <=> Notified(s, y)
      /\ ~Follows(s) /\ ~Notified(t, "redirect")
  <2>1. ~Follows(s) /\ ~Notified(t, "redirect")
    BY <1>3 DEF NoTurn, Follows, Notified, IOTurn, PeerTurn
  <2>2. Follows(t) <=> task = "follow"
    BY <1>1, <2>1 DEF Follows
  <2> QED
    BY <1>1, <2>1, <2>2 DEF Notified
<1>10. Permitted(t, h2)
  BY <1>0, <1>1, <1>9 DEF Permitted
<1>11. Listening(n, t, h2, FALSE, b)
  BY DEF Listening
<1> QED
  BY <1>0, <1>1, <1>4, <1>6, <1>7, <1>8, <1>9, <1>10, <1>11 DEF Sound, t

\* The peer hears of a redirect and accepts or refuses it.
LEMMA RedirectHeard ==
  ASSUME NEW n, NEW s, NEW h, NEW b, Sound(n, s, h, TRUE, b), s.main # <<>>,
         Head(s.main).notice = "redirect"
  PROVE  LET q == [s EXCEPT !.main = Tail(@)]
         IN  /\ h.page = -1
             /\ Sound(n, q, [h EXCEPT !.refused = TRUE], TRUE, b)
             /\ Sound(n, Post(q, "follow"), [h EXCEPT !.permitted = @ + 1], TRUE, b)
<1> DEFINE q == [s EXCEPT !.main = Tail(@)]
           f == Post(q, "follow")
           no == [h EXCEPT !.refused = TRUE]
           yes == [h EXCEPT !.permitted = @ + 1]
<1>0. /\ s \in ProxyState /\ h \in HeardState /\ n \in 0..MaxChunks
      /\ Waits(s) /\ Permitted(s, h) /\ ~s.sync /\ b = "loading" /\ h.outcome = "none"
      /\ Ordered(s, h) /\ Delivered(n, s, h)
  BY DEF Sound, Listening
<1>1. /\ q.request = s.request /\ q.hop = s.hop /\ q.read = s.read /\ q.io = s.io
      /\ q.sync = s.sync
      /\ \A i \in DOMAIN q.main : i + 1 \in DOMAIN s.main /\ q.main[i] = s.main[i + 1]
      /\ 1 \in DOMAIN s.main /\ Head(s.main) = s.main[1] /\ DOMAIN s.main = 1..Len(s.main)
      /\ Len(s.main) \in Nat
  BY <1>0, TakeFields
<1>2. /\ Notified(s, "redirect") /\ s.request \in {"deferred", "gone"}
      /\ s.hop < MaxRedirects /\ h.permitted = s.hop
  BY <1>0, <1>1 DEF Notified, Waits, Permitted
<1>3. no \in HeardState /\ no.permitted = h.permitted /\ no.page = h.page /\ no.data = h.data
      /\ no.outcome = "none"
  BY <1>0 DEF HeardState
<1>4. yes \in HeardState /\ yes.permitted = s.hop + 1 /\ yes.page = h.page /\ yes.data = h.data
      /\ yes.outcome = "none"
  <2>1. h.permitted + 1 \in 0..MaxRedirects
    BY <1>0, <1>2, Fields, Bounds
  <2> QED
    BY <1>0, <1>2, <2>1 DEF HeardState
<1>5. /\ Sound(n, q, no, FALSE, b) /\ Sound(n, q, h, FALSE, b) /\ NoTurn(q)
      /\ \A y : Notified(q, y) => Notified(s, y)
      /\ \A y : Notified(s, y) => Notified(q, y) \/ y = "redirect"
  BY <1>0, <1>3, TakeSound DEF PeerTurn
<1> HIDE DEF q, no, yes
<1>6. h.page = -1 /\ ~Notified(s, "response")
  BY <1>0, <1>2 DEF Ordered
<1>7. \A i \in DOMAIN s.main : s.main[i].notice \notin {"response", "data", "ok"}
  <2>1. \A i \in DOMAIN s.main : 1..(i - 1) \subseteq DOMAIN s.main
    BY <1>1
  <2> QED
    BY <1>0, <1>6, <2>1 DEF Ordered, Notified
<1>8. \A i \in DOMAIN q.main : q.main[i].notice \notin {"response", "data", "ok"}
  BY <1>1, <1>7
<1>9. \A y \in {"response", "data", "ok"} : ~Notified(q, y) /\ ~Notified(s, y)
  BY <1>7, <1>8 DEF Notified
<1>10. Ordered(q, no) /\ Delivered(n, q, no)
  BY <1>0, <1>1, <1>2, <1>3, <1>6, <1>8, <1>9 DEF Ordered, Delivered
<1>11. Sound(n, q, no, TRUE, b)
  BY <1>0, <1>1, <1>3, <1>5, <1>10 DEF Sound, Listening
<1>12. /\ Sound(n, f, yes, FALSE, b) /\ \A y : Notified(f, y) <=> Notified(q, y)
       /\ f.main = q.main /\ f.request = q.request /\ f.read = q.read /\ f.sync = q.sync
  <2>1. Sound(n, q, h, FALSE, b) /\ NoTurn(q) /\ ~q.sync /\ b = "loading"
    BY <1>0, <1>1, <1>5
  <2>2. /\ q.request \in {"deferred", "gone"} /\ q.hop < MaxRedirects
        /\ yes \in HeardState /\ yes.permitted = q.hop + 1
    BY <1>1, <1>2, <1>4
  <2>3. Sound(n, Post(q, "follow"), yes, FALSE, b)
    BY <2>1, <2>2, TurnSound
  <2>4. \A y : Notified(Post(q, "follow"), y) <=> Notified(q, y)
    BY <2>1, <2>2, TurnSound
  <2>5. /\ Post(q, "follow").main = q.main /\ Post(q, "follow").request = q.request
        /\ Post(q, "follow").read = q.read /\ Post(q, "follow").sync = q.sync
    <3>1. q \in ProxyState /\ "follow" \in IOTasks
      BY <2>1 DEF Sound, IOTasks
    <3> QED
      BY <3>1, PostFields
  <2> QED
    BY <2>3, <2>4, <2>5
<1> HIDE DEF f
<1>13. Ordered(f, yes) /\ Delivered(n, f, yes)
  BY <1>0, <1>1, <1>2, <1>4, <1>6, <1>8, <1>9, <1>12 DEF Ordered, Delivered
<1>14. Sound(n, f, yes, TRUE, b)
  BY <1>0, <1>1, <1>4, <1>12, <1>13 DEF Sound, Listening
<1> QED
  BY <1>6, <1>11, <1>14 DEF q, f, no, yes

\* The peer hears the response.
LEMMA ResponseHeard ==
  ASSUME NEW n, NEW s, NEW h, NEW b, Sound(n, s, h, TRUE, b), s.main # <<>>,
         Head(s.main).notice = "response"
  PROVE  LET q == [s EXCEPT !.main = Tail(@)]
         IN  /\ h.page = -1 /\ Head(s.main).hop = h.permitted
             /\ Sound(n, q, [h EXCEPT !.page = Head(s.main).hop], TRUE, b)
<1> DEFINE q == [s EXCEPT !.main = Tail(@)]
           h2 == [h EXCEPT !.page = Head(s.main).hop]
<1>0. /\ s \in ProxyState /\ h \in HeardState /\ n \in 0..MaxChunks
      /\ ~s.sync /\ b = "loading" /\ h.outcome = "none"
      /\ Ordered(s, h) /\ Delivered(n, s, h)
  BY DEF Sound, Listening
<1>1. /\ q.request = s.request /\ q.read = s.read /\ q.io = s.io /\ q.sync = s.sync
      /\ \A i \in DOMAIN q.main : i + 1 \in DOMAIN s.main /\ q.main[i] = s.main[i + 1]
      /\ DOMAIN q.main \subseteq Nat \ {0}
      /\ 1 \in DOMAIN s.main /\ Head(s.main) = s.main[1]
  BY <1>0, TakeFields
<1>2. h.page = -1 /\ Head(s.main).hop = h.permitted
  BY <1>0, <1>1 DEF Ordered
<1>3. /\ h2 \in HeardState /\ h2.permitted = h.permitted /\ h2.page = h.permitted
      /\ h2.data = h.data /\ h2.outcome = "none" /\ h.permitted \in Nat
  <2>1. h.permitted \in 0..MaxRedirects /\ h.permitted \in -1..MaxRedirects
    BY <1>0, Bounds DEF HeardState
  <2> QED
    BY <1>0, <1>2, <2>1, Bounds DEF HeardState
<1>4. /\ Sound(n, q, h2, FALSE, b)
      /\ \A y : Notified(q, y) => Notified(s, y)
      /\ \A y : Notified(s, y) => Notified(q, y) \/ y = "response"
  BY <1>0, <1>3, TakeSound
<1> HIDE DEF q, h2
<1>5. \A i \in DOMAIN q.main : q.main[i].notice # "response"
  <2> SUFFICES ASSUME NEW i \in DOMAIN q.main, q.main[i].notice = "response" PROVE FALSE
    OBVIOUS
  <2>1. i + 1 = 1
    BY <1>0, <1>1 DEF Ordered
  <2> QED
    BY <1>1, <2>1
<1>6. Notified(s, "response") /\ ~Notified(q, "response")
  BY <1>1, <1>5 DEF Notified
<1>7. /\ s.request \notin {"none", "connecting", "deferred"}
      /\ ~Follows(s) /\ ~Notified(s, "redirect")
  BY <1>0, <1>6 DEF Ordered
<1>8. ~Follows(q) /\ ~Notified(q, "redirect")
  BY <1>1, <1>4, <1>7 DEF Follows
<1>9. h2.page # -1
  BY <1>3
<1>10. Ordered(q, h2)
  BY <1>1, <1>5, <1>7, <1>8, <1>9 DEF Ordered
<1>11. Delivered(n, q, h2)
  BY <1>0, <1>1, <1>3, <1>4 DEF Delivered
<1>12. Sound(n, q, h2, TRUE, b)
  BY <1>0, <1>1, <1>3, <1>4, <1>10, <1>11 DEF Sound, Listening
<1> QED
  BY <1>2, <1>12 DEF q, h2

\* The peer hears the next chunk, and reading goes on.
LEMMA DataHeard ==
  ASSUME NEW n, NEW s, NEW h, NEW b, Sound(n, s, h, TRUE, b), s.main # <<>>,
         Head(s.main).notice = "data"
  PROVE  LET q == [s EXCEPT !.main = Tail(@)]
         IN  /\ h.page # -1 /\ q.buffer = Len(h.data) + 1 /\ Len(h.data) < n
             /\ Sound(n, Post(q, "read"), [h EXCEPT !.data = Append(@, q.buffer)], TRUE, b)
<1> DEFINE q == [s EXCEPT !.main = Tail(@)]
           f == Post(q, "read")
           h2 == [h EXCEPT !.data = Append(@, q.buffer)]
<1>0. /\ s \in ProxyState /\ h \in HeardState /\ n \in 0..MaxChunks
      /\ Waits(s) /\ Synchronous(n, s, h) /\ ~s.sync /\ b = "loading" /\ h.outcome = "none"
      /\ Ordered(s, h) /\ Delivered(n, s, h) /\ s.read \in Nat /\ n \in Nat
      /\ s.buffer \in 0..MaxChunks
  BY Fields, Bounds DEF Sound, Listening
<1>1. /\ q.request = s.request /\ q.read = s.read /\ q.io = s.io /\ q.sync = s.sync
      /\ q.buffer = s.buffer
      /\ \A i \in DOMAIN q.main : i + 1 \in DOMAIN s.main /\ q.main[i] = s.main[i + 1]
      /\ DOMAIN q.main \subseteq Nat \ {0}
      /\ 1 \in DOMAIN s.main /\ Head(s.main) = s.main[1]
  BY <1>0, TakeFields
<1>2. /\ Notified(s, "data") /\ s.request \in {"ready", "gone"} /\ s.buffer = s.read
      /\ s.read = Len(h.data) + 1 /\ ~Notified(s, "ok")
  BY <1>0, <1>1 DEF Notified, Waits, Delivered
<1>3. h.data \in Seq(0..MaxChunks) /\ Len(h.data) \in Nat
  <2>1. h.data \in Seq(0..MaxChunks)
    BY <1>0 DEF HeardState
  <2> QED
    BY <2>1
<1>4. h.page # -1
  BY <1>0, <1>1 DEF Ordered
<1>5. Len(h.data) < n
  BY <1>0, <1>2, <1>3 DEF Synchronous
<1>6. /\ h2 \in HeardState /\ h2.permitted = h.permitted /\ h2.page = h.page
      /\ h2.outcome = "none" /\ Len(h2.data) = Len(h.data) + 1
  <2>1. Append(h.data, q.buffer) \in Seq(0..MaxChunks)
    BY <1>0, <1>1, <1>3, AppendSeq
  <2>2. Len(Append(h.data, q.buffer)) = Len(h.data) + 1
    BY <1>0, <1>1, <1>3
  <2> QED
    BY <1>0, <2>1, <2>2 DEF HeardState
<1> HIDE DEF h2
<1>7. /\ Sound(n, q, h2, FALSE, b) /\ NoTurn(q)
      /\ \A y : Notified(q, y) => Notified(s, y)
  <2>1. PeerTurn(Head(s.main).notice)
    BY DEF PeerTurn
  <2>2. h2 \in HeardState /\ h2.permitted = h.permitted
    BY <1>6
  <2> QED
    BY <2>1, <2>2, TakeSound
<1> HIDE DEF q
<1>8. /\ Sound(n, f, h2, FALSE, b) /\ ~Follows(f)
      /\ \A y : Notified(f, y) <=> Notified(q, y)
      /\ f.main = q.main /\ f.request = q.request /\ f.read = q.read /\ f.sync = q.sync
  <2>1. Sound(n, q, h2, FALSE, b) /\ NoTurn(q) /\ ~q.sync /\ b = "loading"
    BY <1>0, <1>1, <1>7
  <2>2. q.request \in {"ready", "gone"} /\ h2 \in HeardState
    BY <1>1, <1>2, <1>6
  <2>3. Sound(n, Post(q, "read"), h2, FALSE, b)
    BY <2>1, <2>2, TurnSound
  <2>4. ~Follows(Post(q, "read"))
    BY <2>1, <2>2, TurnSound
  <2>5. \A y : Notified(Post(q, "read"), y) <=> Notified(q, y)
    BY <2>1, <2>2, TurnSound
  <2>6. /\ Post(q, "read").main = q.main /\ Post(q, "read").request = q.request
        /\ Post(q, "read").read = q.read /\ Post(q, "read").sync = q.sync
    <3>1. q \in ProxyState /\ "read" \in IOTasks
      BY <2>1 DEF Sound, IOTasks
    <3> QED
      BY <3>1, PostFields
  <2> QED
    BY <2>3, <2>4, <2>5, <2>6
<1> HIDE DEF f
<1>9. ~Notified(q, "data") /\ ~Notified(q, "redirect")
  BY <1>7 DEF NoTurn, PeerTurn, Notified
<1>10. Delivered(n, f, h2)
  BY <1>1, <1>2, <1>6, <1>7, <1>8, <1>9 DEF Delivered
<1>11. \A i \in DOMAIN q.main : q.main[i].notice # "response"
  BY <1>0, <1>1, <1>4 DEF Ordered
<1>12. Ordered(f, h2)
  BY <1>1, <1>2, <1>4, <1>6, <1>8, <1>9, <1>11 DEF Ordered
<1>13. Sound(n, f, h2, TRUE, b)
  BY <1>0, <1>1, <1>6, <1>8, <1>10, <1>12 DEF Sound, Listening
<1> QED
  BY <1>1, <1>2, <1>4, <1>5, <1>13 DEF q, f, h2

\* The peer hears the completion.
LEMMA EndHeard ==
  ASSUME NEW n, NEW s, NEW h, NEW b, Sound(n, s, h, TRUE, b), s.main # <<>>,
         Head(s.main).notice = "ok"
  PROVE  h.page # -1 /\ Len(h.data) = n
<1>0. s \in ProxyState /\ Ordered(s, h) /\ Delivered(n, s, h)
  BY DEF Sound, Listening
<1>1. 1 \in DOMAIN s.main /\ Head(s.main) = s.main[1]
  BY <1>0, TakeFields
<1>2. Notified(s, "ok")
  BY <1>1 DEF Notified
<1> QED
  BY <1>0, <1>1, <1>2 DEF Ordered, Delivered

-----------------------------------------------------------------------------
(* The steps of the two threads. *)

\* Whatever a proxy does, it stays synchronous or not.
LEMMA Kept ==
  ASSUME NEW s \in ProxyState, NEW r \in {"data", "eof", "error", "pending"},
         NEW code, NEW task \in IOTasks, NEW sameOrigin
  PROVE  /\ ReadIs(s, r).sync = s.sync /\ Done(s, code).sync = s.sync
         /\ OnReceivedResponse(s).sync = s.sync
         /\ OnReceivedRedirect(s, sameOrigin).sync = s.sync
         /\ IOTaskRuns(s, task, r).sync = s.sync
         /\ Destruct(s).sync = s.sync
<1>1. /\ Done(s, code).sync = s.sync /\ Done(s, "ok").sync = s.sync
      /\ Done(s, "error").sync = s.sync
  BY DEF Done, OnCompletedRequest, SyncCompletedRequest, Notify, ProxyState
<1>2. ReadIs(s, "data").sync = s.sync
  BY DEF ReadIs, OnReceivedData, SyncReceivedData, Notify, ProxyState
<1>3. ReadIs(s, "pending").sync = s.sync
  BY DEF ReadIs, ProxyState
<1>4. ReadIs(s, r).sync = s.sync
  <2>1. CASE r = "data"
    BY <1>2, <2>1
  <2>2. CASE r = "pending"
    BY <1>3, <2>2
  <2>3. CASE r \in {"eof", "error"}
    BY <1>1, <2>3 DEF ReadIs
  <2> QED
    BY <2>1, <2>2, <2>3
<1>5. OnReceivedResponse(s).sync = s.sync
  BY DEF OnReceivedResponse, SyncReceivedResponse, Notify, ProxyState
<1>6. OnReceivedRedirect(s, sameOrigin).sync = s.sync
  BY DEF OnReceivedRedirect, SyncReceivedRedirect, Notify, Post, ProxyState
<1>7. Destruct(s).sync = s.sync
  BY DEF Destruct, ProxyState
<1>8. IOTaskRuns(s, task, r).sync = s.sync
  <2>1. CASE task = "start"
    BY <2>1 DEF IOTaskRuns, ProxyState
  <2>2. CASE task = "cancel"
    BY <1>1, <2>2 DEF IOTaskRuns, AsyncCancel
  <2>3. CASE task = "follow"
    BY <2>3 DEF IOTaskRuns, AsyncFollowDeferredRedirect, ProxyState
  <2>4. CASE task = "read"
    BY <1>4, <2>4 DEF IOTaskRuns, AsyncReadData
  <2>5. CASE task = "release"
    BY <2>5 DEF IOTaskRuns, ProxyState
  <2>6. CASE task = "delete"
    BY <1>7, <2>6 DEF IOTaskRuns
  <2> QED
    BY <2>1, <2>2, <2>3, <2>4, <2>5, <2>6 DEF IOTasks
<1> QED
  BY <1>1, <1>4, <1>5, <1>6, <1>7, <1>8

\* An IO task of a proxy that is alive.
LEMMA TaskSound ==
  ASSUME NEW n, NEW s, NEW h, NEW p, NEW b, Sound(n, s, h, p, b), s.io # <<>>, s.alive,
         b \in {"new", "loading", "returned", "deleted"},
         NEW r \in {"data", "eof", "error", "pending"},
         r = "data" => s.read < n, r = "eof" => ~(s.read < n)
  PROVE  LET t == IOTaskRuns([s EXCEPT !.io = Tail(@)], Head(s.io), r)
         IN  /\ Sound(n, t, h, p, b) /\ t.sync = s.sync
             /\ Unreferenced(t) => Sound(n, Destruct(t), h, p, b)
<1> DEFINE q == [s EXCEPT !.io = Tail(@)]
           t == IOTaskRuns(q, Head(s.io), r)
<1>0. s \in ProxyState /\ Waits(s) /\ Owned(s, b) /\ b # "new"
  BY DEF Sound, Owned
<1>1. /\ q \in ProxyState /\ q.request = s.request /\ q.read = s.read /\ q.alive
      /\ q.sync = s.sync /\ 1 \in DOMAIN s.io /\ Head(s.io) = s.io[1] /\ Head(s.io) \in IOTasks
  BY <1>0, PopFields
<1>2. t.sync = s.sync
  BY <1>1, Kept
<1>3. Head(s.io) # "follow" => /\ Sound(n, q, h, p, b)
                               /\ Head(s.io) = "read" => NoTurn(q)
                               /\ Head(s.io) = "start" => q.request = "none"
                               /\ \A i \in DOMAIN q.io : q.io[i] # "start"
  BY PopSound
<1>4. Sound(n, t, h, p, b)
  <2>1. CASE Head(s.io) = "start"
    <3> HIDE DEF q
    <3>1. Sound(n, [q EXCEPT !.request = "connecting"], h, p, b)
      BY <1>0, <1>1, <1>3, <2>1, ConnectSound
    <3> QED
      BY <2>1, <3>1 DEF IOTaskRuns
  <2>2. CASE Head(s.io) = "cancel"
    <3> HIDE DEF q
    <3>1. CASE HasRequest(q)
      <4>1. Sound(n, Done(q, "error"), h, p, b)
        BY <1>3, <2>2, <3>1, DoneSound
      <4> QED
        BY <2>2, <3>1, <4>1 DEF IOTaskRuns, AsyncCancel
    <3>2. CASE ~HasRequest(q)
      BY <1>3, <2>2, <3>2 DEF IOTaskRuns, AsyncCancel
    <3> QED
      BY <3>1, <3>2
  <2>3. CASE Head(s.io) = "follow"
    BY <2>3, FollowSound DEF IOTaskRuns
  <2>4. CASE Head(s.io) = "read"
    <3> HIDE DEF q
    <3>1. CASE HasRequest(q)
      <4>1. q.request = "ready"
        BY <1>0, <1>1, <2>4, <3>1 DEF Waits, HasRequest
      <4>2. p => h.page # -1 \/ Notified(q, "response")
        BY <1>3, <2>4, <4>1 DEF Sound, Listening, Ordered
      <4>3. Sound(n, ReadIs(q, r), h, p, b)
        BY <1>1, <1>3, <2>4, <3>1, <4>2, ReadSound
      <4> QED
        BY <2>4, <3>1, <4>3 DEF IOTaskRuns, AsyncReadData
    <3>2. CASE ~HasRequest(q)
      BY <1>3, <2>4, <3>2 DEF IOTaskRuns, AsyncReadData
    <3> QED
      BY <3>1, <3>2
  <2>5. CASE Head(s.io) = "release"
    <3> HIDE DEF q
    <3>1. b = "deleted"
      BY <1>0, <1>1, <2>5 DEF Owned
    <3>2. Sound(n, [q EXCEPT !.held = FALSE], h, p, b)
      BY <1>3, <2>5, <3>1, ReleaseSound
    <3> QED
      BY <2>5, <3>2 DEF IOTaskRuns
  <2>6. CASE Head(s.io) = "delete"
    <3> HIDE DEF q
    <3>1. b = "deleted"
      BY <1>0, <1>1, <2>6 DEF Owned
    <3>2. Sound(n, Destruct(q), h, p, b)
      BY <1>3, <2>6, <3>1, DestructSound
    <3> QED
      BY <2>6, <3>2 DEF IOTaskRuns
  <2> QED
    BY <1>1, <2>1, <2>2, <2>3, <2>4, <2>5, <2>6 DEF IOTasks
<1> HIDE DEF t
<1>5. Unreferenced(t) => Sound(n, Destruct(t), h, p, b)
  <2> SUFFICES ASSUME Unreferenced(t) PROVE Sound(n, Destruct(t), h, p, b)
    OBVIOUS
  <2>1. b = "deleted"
    BY <1>0, <1>4 DEF Unreferenced, Sound, Owned
  <2>2. \A i \in DOMAIN t.io : t.io[i] # "start"
    BY DEF Unreferenced, ToSet
  <2> QED
    BY <1>4, <2>1, <2>2, DestructSound
<1> QED
  BY <1>2, <1>4, <1>5 DEF t

\* A step of the IO thread.
LEMMA IOStep ==
  ASSUME LoaderInv, NEW t, NEW u, IOLeaves(t, u), Sound(length, t, heard, peer, bridge),
         t.sync = proxy.sync
  PROVE  LoaderInv' /\ proxy'.sync = proxy.sync
         /\ UNCHANGED <<length, bridge, peer, heard, cancels>>
<1>1. /\ proxy' = t /\ crashed' \in BOOLEAN
      /\ UNCHANGED <<length, bridge, peer, heard, cancels>>
  BY DEF IOLeaves
<1>2. t \in ProxyState
  BY DEF Sound
<1>3. LoaderTypeOK'
  BY <1>1, <1>2 DEF LoaderInv, LoaderTypeOK
<1>4. Sound(length', proxy', heard', peer', bridge')
  BY <1>1
<1> QED
  BY <1>1, <1>3, <1>4 DEF LoaderInv

\* What URLRequest::Read may say agrees with what was read.
LEMMA Outcomes ==
  /\ \A r \in ReadOutcomes \cup {"pending"} :
       /\ r \in {"data", "eof", "error", "pending"}
       /\ r = "data" => proxy.read < length
       /\ r = "eof" => ~(proxy.read < length)
BY DEF ReadOutcomes

\* The steps of the IO thread, among them all that the network does.
LEMMA IOSteps ==
  ASSUME LoaderInv, RunIOTask \/ ReadAgain \/ Network
  PROVE  LoaderInv' /\ proxy'.sync = proxy.sync
         /\ UNCHANGED <<length, bridge, peer, heard, cancels>>
<1>0. /\ Sound(length, proxy, heard, peer, bridge) /\ proxy \in ProxyState
      /\ bridge \in {"new", "loading", "returned", "deleted"}
      /\ Waits(proxy) /\ Owned(proxy, bridge) /\ Synchronous(length, proxy, heard)
      /\ Listening(length, proxy, heard, peer, bridge)
  BY DEF LoaderInv, LoaderTypeOK, Sound
<1>1. CASE RunIOTask
  <2>1. proxy.io # <<>>
    BY <1>1 DEF RunIOTask
  <2>2. PICK r \in ReadOutcomes \cup {"pending"} :
          LET s == [proxy EXCEPT !.io = Tail(@)]
              t == IOTaskRuns(s, Head(proxy.io), r)
          IN  IF ~proxy.alive THEN IOLeaves(s, TRUE)
              ELSE IOLeaves(IF Unreferenced(t) THEN Destruct(t) ELSE t, FALSE)
    BY <1>1 DEF RunIOTask
  <2> DEFINE s == [proxy EXCEPT !.io = Tail(@)]
             t == IOTaskRuns(s, Head(proxy.io), r)
  <2>3. CASE ~proxy.alive
    <3>1. proxy.request = "gone"
      BY <1>0, <2>3 DEF Owned
    <3>2. Sound(length, s, heard, peer, bridge) /\ s.sync = proxy.sync
      BY <1>0, <2>1, <3>1, PopSound, PopFields
    <3>3. IOLeaves(s, TRUE)
      BY <2>2, <2>3
    <3> QED
      BY <3>2, <3>3, IOStep
  <2>4. CASE proxy.alive
    <3>1. /\ Sound(length, t, heard, peer, bridge) /\ t.sync = proxy.sync
          /\ Unreferenced(t) => Sound(length, Destruct(t), heard, peer, bridge)
      BY <1>0, <2>1, <2>4, Outcomes, TaskSound
    <3>2. IOLeaves(IF Unreferenced(t) THEN Destruct(t) ELSE t, FALSE)
      BY <2>2, <2>4
    <3> HIDE DEF t
    <3>3. t \in ProxyState /\ Destruct(t).sync = t.sync
      BY <3>1 DEF Sound, Destruct, ProxyState
    <3>4. CASE Unreferenced(t)
      BY <3>1, <3>2, <3>3, <3>4, IOStep
    <3>5. CASE ~Unreferenced(t)
      BY <3>1, <3>2, <3>5, IOStep
    <3> QED
      BY <3>4, <3>5
  <2> QED
    BY <2>3, <2>4
<1>2. CASE ReadAgain
  <2>1. proxy.request = "again" /\ proxy.sync /\ ~peer /\ HasRequest(proxy)
    BY <1>0, <1>2 DEF ReadAgain, Synchronous, Listening, HasRequest
  <2>2. NoTurn(proxy)
    BY <1>0, <2>1, BusyNoTurn
  <2>3. PICK r \in ReadOutcomes \cup {"pending"} : IOLeaves(ReadIs(proxy, r), FALSE)
    BY <1>2, <2>1 DEF ReadAgain, AsyncReadData
  <2>4. Sound(length, ReadIs(proxy, r), heard, peer, bridge)
    BY <1>0, <2>1, <2>2, Outcomes, ReadSound
  <2>5. ReadIs(proxy, r).sync = proxy.sync
    BY <1>0, Outcomes, Kept DEF IOTasks
  <2> QED
    BY <2>3, <2>4, <2>5, IOStep
<1>3. CASE RedirectReceived
  <2>1. PICK sameOrigin \in BOOLEAN : IOLeaves(OnReceivedRedirect(proxy, sameOrigin), FALSE)
    BY <1>3 DEF RedirectReceived
  <2>2. Sound(length, OnReceivedRedirect(proxy, sameOrigin), heard, peer, bridge)
    BY <1>0, <1>3, RedirectSound DEF RedirectReceived
  <2>3. OnReceivedRedirect(proxy, sameOrigin).sync = proxy.sync
    BY <1>0 DEF OnReceivedRedirect, SyncReceivedRedirect, Notify, Post, ProxyState
  <2> QED
    BY <2>1, <2>2, <2>3, IOStep
<1>4. CASE ResponseStarted
  <2>0. proxy.request = "connecting" /\ HasRequest(proxy) /\ NoTurn(proxy)
    BY <1>0, <1>4, BusyNoTurn DEF ResponseStarted, HasRequest
  <2>1. ASSUME NEW r \in ReadOutcomes \cup {"pending"}, IOLeaves(OnResponseStarted(proxy, r), FALSE)
        PROVE  LoaderInv' /\ proxy'.sync = proxy.sync
               /\ UNCHANGED <<length, bridge, peer, heard, cancels>>
    <3> DEFINE u == [OnReceivedResponse(proxy) EXCEPT !.request = "ready"]
    <3>1. r \in {"data", "eof", "error", "pending"}
      BY Outcomes
    <3>2. /\ Sound(length, u, heard, peer, bridge) /\ HasRequest(u) /\ NoTurn(u)
          /\ u.read = proxy.read
          /\ peer => Notified(u, "response")
          /\ HasRequest(OnReceivedResponse(proxy))
          /\ ReadIs(OnReceivedResponse(proxy), r) = ReadIs(u, r)
      BY <1>0, <2>0, <3>1, ResponseSound
    <3>3. OnResponseStarted(proxy, r) = ReadIs(u, r)
      BY <3>2 DEF OnResponseStarted, AsyncReadData
    <3>4. u.sync = proxy.sync
      BY <1>0 DEF OnReceivedResponse, SyncReceivedResponse, Notify, ProxyState
    <3> HIDE DEF u
    <3>5. Sound(length, ReadIs(u, r), heard, peer, bridge)
      BY <3>2, Outcomes, ReadSound
    <3>6. ReadIs(u, r).sync = proxy.sync
      BY <3>1, <3>2, <3>4, Kept DEF Sound, IOTasks
    <3> QED
      BY <2>1, <3>3, <3>5, <3>6, IOStep
  <2>2. ASSUME IOLeaves(Done(proxy, "error"), FALSE)
        PROVE  LoaderInv' /\ proxy'.sync = proxy.sync
               /\ UNCHANGED <<length, bridge, peer, heard, cancels>>
    <3>1. Sound(length, Done(proxy, "error"), heard, peer, bridge)
      BY <1>0, <2>0, DoneSound
    <3>2. Done(proxy, "error").sync = proxy.sync
      BY <1>0 DEF Done, OnCompletedRequest, SyncCompletedRequest, Notify, ProxyState
    <3> QED
      BY <2>2, <3>1, <3>2, IOStep
  <2> QED
    BY <1>4, <2>1, <2>2 DEF ResponseStarted
<1>5. CASE ReadCompleted
  <2>1. proxy.request = "reading" /\ HasRequest(proxy) /\ NoTurn(proxy)
    BY <1>0, <1>5, BusyNoTurn DEF ReadCompleted, HasRequest
  <2>2. peer => heard.page # -1 \/ Notified(proxy, "response")
    BY <1>0, <2>1 DEF Listening, Ordered
  <2>3. PICK r \in ReadOutcomes : IOLeaves(ReadIs(proxy, r), FALSE)
    BY <1>5 DEF ReadCompleted
  <2>4. Sound(length, ReadIs(proxy, r), heard, peer, bridge)
    BY <1>0, <2>1, <2>2, Outcomes, ReadSound
  <2>5. ReadIs(proxy, r).sync = proxy.sync
    BY <1>0, Outcomes, Kept DEF IOTasks
  <2> QED
    BY <2>3, <2>4, <2>5, IOStep
<1> QED
  BY <1>1, <1>2, <1>3, <1>4, <1>5 DEF Network

\* The initial states.
LEMMA InitInv == Init => LoaderInv
<1> SUFFICES ASSUME Init PROVE LoaderInv
  OBVIOUS
<1> USE Bounds
<1>1. PICK sync \in BOOLEAN :
        proxy = [sync |-> sync, request |-> "none", hop |-> 0, read |-> 0, buffer |-> 0,
                 io |-> <<>>, main |-> <<>>, held |-> FALSE, alive |-> TRUE,
                 result |-> [url |-> 0, response |-> FALSE, data |-> <<>>, code |-> "none"],
                 signalled |-> FALSE]
  BY DEF Init
<1>2. proxy \in ProxyState
  BY <1>1 DEF ProxyState
<1>3. heard \in HeardState /\ heard.outcome = "none" /\ heard.permitted = 0 /\ heard.page = -1
      /\ heard.data = <<>>
  BY DEF Init, HeardState
<1>4. LoaderTypeOK
  <2>1. /\ length \in 0..MaxChunks /\ bridge = "new" /\ peer = FALSE
        /\ cancels = 0 /\ crashed = FALSE
    BY DEF Init
  <2>2. 0 \in 0..MaxCancels
    BY Bounds
  <2> QED
    BY <1>2, <1>3, <2>1, <2>2 DEF LoaderTypeOK, HeardState
<1>5. /\ proxy.io = <<>> /\ proxy.main = <<>> /\ proxy.request = "none" /\ proxy.read = 0
      /\ proxy.hop = 0 /\ proxy.alive /\ proxy.result.data = <<>> /\ proxy.result.code = "none"
      /\ ~proxy.signalled
  BY <1>1
<1>6. DOMAIN proxy.io = {} /\ DOMAIN proxy.main = {}
  BY <1>5
<1>7. Turns(proxy) /\ Waits(proxy)
  BY <1>6 DEF Turns, Waits
<1>8. Owned(proxy, bridge) /\ Permitted(proxy, heard)
  BY <1>3, <1>5, <1>6 DEF Owned, Permitted, Follows, Notified, Init
<1>9. Synchronous(length, proxy, heard)
  BY <1>3, <1>5, <1>6 DEF Synchronous, Init
<1>10. Listening(length, proxy, heard, peer, bridge)
  BY <1>3, <1>5 DEF Listening, Init
<1> QED
  BY <1>2, <1>3, <1>4, <1>7, <1>8, <1>9, <1>10 DEF Sound, LoaderInv, LoaderTypeOK

\* Start and SyncLoad post the first task.
LEMMA StartStep ==
  ASSUME LoaderInv, Start
  PROVE  LoaderInv' /\ proxy'.sync = proxy.sync
<1>0. /\ proxy \in ProxyState /\ heard \in HeardState /\ length \in 0..MaxChunks
      /\ Turns(proxy) /\ Waits(proxy) /\ Owned(proxy, bridge)
      /\ Synchronous(length, proxy, heard) /\ Permitted(proxy, heard)
      /\ Listening(length, proxy, heard, peer, bridge) /\ bridge = "new"
      /\ LoaderTypeOK
  BY DEF LoaderInv, Sound, Start
<1> DEFINE s == [proxy EXCEPT !.held = TRUE]
           t == Post(s, "start")
<1>1. "start" \in IOTasks /\ s \in ProxyState
  BY <1>0, SetField DEF IOTasks
<1>2. /\ s.main = proxy.main /\ s.request = proxy.request /\ s.hop = proxy.hop
      /\ s.read = proxy.read /\ s.held /\ s.alive = proxy.alive /\ s.io = proxy.io
      /\ s.sync = proxy.sync /\ s.signalled = proxy.signalled /\ s.result = proxy.result
  BY <1>0 DEF ProxyState
<1>3. /\ proxy.io = <<>> /\ proxy.main = <<>> /\ proxy.request = "none" /\ proxy.alive
      /\ heard.outcome = "none" /\ heard.page = -1 /\ heard.data = <<>> /\ proxy.read = 0
  BY <1>0 DEF Owned, Listening
<1> HIDE DEF s
<1>4. /\ t \in ProxyState /\ t.main = <<>> /\ t.request = "none" /\ t.hop = proxy.hop
      /\ t.read = 0 /\ t.held /\ t.alive
      /\ t.sync = proxy.sync /\ t.signalled = proxy.signalled /\ t.result = proxy.result
      /\ DOMAIN t.io = {1} /\ t.io[1] = "start"
  <2>1. /\ t \in ProxyState /\ t.main = s.main /\ t.request = s.request /\ t.hop = s.hop
        /\ t.read = s.read /\ t.held = s.held /\ t.alive = s.alive
        /\ t.sync = s.sync /\ t.signalled = s.signalled /\ t.result = s.result
        /\ s.io = <<>> => DOMAIN t.io = {1}
        /\ t.io[Len(s.io) + 1] = "start"
    BY <1>1, PostFields
  <2>2. s.io = <<>> /\ Len(s.io) + 1 = 1
    BY <1>2, <1>3
  <2> QED
    BY <1>2, <1>3, <2>1, <2>2
<1>5. proxy' = t /\ bridge' = "loading" /\ peer' = ~proxy.sync
      /\ UNCHANGED <<length, heard, cancels, crashed>>
  BY DEF Start, s
<1> HIDE DEF t
<1>6. LoaderTypeOK'
  <2>1. proxy.sync \in BOOLEAN
    BY <1>0 DEF ProxyState
  <2>2. peer' \in BOOLEAN
    BY <1>5, <2>1
  <2> QED
    BY <1>0, <1>4, <1>5, <2>2 DEF LoaderTypeOK
<1>7. DOMAIN t.main = {}
  BY <1>4
<1>8. Turns(t) /\ Waits(t) /\ ~Follows(t) /\ \A y : ~Notified(t, y)
  BY <1>4, <1>7 DEF Turns, Waits, IOTurn, Follows, Notified
<1>9. Owned(t, "loading")
  BY <1>4 DEF Owned
<1>10. Synchronous(length, t, heard)
  BY <1>0, <1>3, <1>4 DEF Synchronous
<1>11. Permitted(t, heard)
  <2>1. ~Follows(proxy)
    BY <1>3 DEF Follows
  <2> QED
    BY <1>0, <1>3, <1>4, <1>8, <2>1 DEF Permitted
<1>12. ~proxy.sync => Ordered(t, heard) /\ Delivered(length, t, heard)
  <2>1. Ordered(t, heard)
    BY <1>3, <1>4, <1>7, <1>8 DEF Ordered
  <2>2. Len(heard.data) = 0
    BY <1>3
  <2>3. Delivered(length, t, heard)
    BY <1>4, <1>8, <2>2 DEF Delivered
  <2> QED
    BY <2>1, <2>3
<1>13. Listening(length, t, heard, ~proxy.sync, "loading")
  BY <1>3, <1>4, <1>12 DEF Listening
<1>14. Sound(length, t, heard, ~proxy.sync, "loading")
  BY <1>0, <1>4, <1>8, <1>9, <1>10, <1>11, <1>13 DEF Sound
<1>15. Sound(length', proxy', heard', peer', bridge')
  BY <1>5, <1>14
<1> QED
  BY <1>4, <1>5, <1>6, <1>15 DEF LoaderInv

\* A cancel is posted behind whatever is queued.
LEMMA CancelStep ==
  ASSUME LoaderInv, Cancel
  PROVE  LoaderInv' /\ proxy'.sync = proxy.sync
<1>0. /\ Sound(length, proxy, heard, peer, bridge) /\ bridge # "new" /\ LoaderTypeOK
      /\ proxy \in ProxyState /\ "cancel" \in IOTasks
  BY DEF LoaderInv, Sound, Cancel, IOTasks
<1>1. Sound(length, Post(proxy, "cancel"), heard, peer, bridge)
  BY <1>0, PostSound
<1>2. /\ Post(proxy, "cancel") \in ProxyState
      /\ Post(proxy, "cancel").sync = proxy.sync
  BY <1>0, PostFields
<1>3. proxy' = Post(proxy, "cancel") /\ cancels' = cancels + 1 /\ cancels < MaxCancels
      /\ UNCHANGED <<length, bridge, peer, heard, crashed>>
  BY DEF Cancel
<1>4. LoaderTypeOK'
  BY <1>0, <1>2, <1>3, Bounds DEF LoaderTypeOK
<1>5. Sound(length', proxy', heard', peer', bridge')
  BY <1>1, <1>3
<1> QED
  BY <1>2, <1>3, <1>4, <1>5 DEF LoaderInv

\* The bridge lets go of the proxy; from here on nobody listens.
LEMMA DeleteStep ==
  ASSUME LoaderInv, DeleteBridge
  PROVE  LoaderInv' /\ proxy'.sync = proxy.sync
<1>0. /\ proxy \in ProxyState /\ heard \in HeardState /\ length \in 0..MaxChunks
      /\ Turns(proxy) /\ Waits(proxy) /\ Owned(proxy, bridge)
      /\ Synchronous(length, proxy, heard) /\ Permitted(proxy, heard)
      /\ bridge \in {"loading", "returned"} /\ LoaderTypeOK /\ "release" \in IOTasks
  BY DEF LoaderInv, Sound, DeleteBridge, IOTasks
<1>1. Sound(length, proxy, heard, FALSE, "deleted")
  <2>1. Owned(proxy, "deleted")
    BY <1>0 DEF Owned
  <2>2. Listening(length, proxy, heard, FALSE, "deleted")
    BY DEF Listening
  <2> QED
    BY <1>0, <2>1, <2>2 DEF Sound
<1>2. Sound(length, Post(proxy, "release"), heard, FALSE, "deleted")
  BY <1>1, PostSound
<1>3. Post(proxy, "release") \in ProxyState /\ Post(proxy, "release").sync = proxy.sync
  BY <1>0, PostFields
<1>4. proxy' = Post(proxy, "release") /\ bridge' = "deleted" /\ peer' = FALSE
      /\ UNCHANGED <<length, heard, cancels, crashed>>
  BY DEF DeleteBridge
<1>5. LoaderTypeOK'
  BY <1>0, <1>3, <1>4 DEF LoaderTypeOK
<1>6. Sound(length', proxy', heard', peer', bridge')
  BY <1>2, <1>4
<1> QED
  BY <1>3, <1>4, <1>5, <1>6 DEF LoaderInv

\* SyncLoad returns, signalled or not.
LEMMA WaitStep ==
  ASSUME LoaderInv, WaitForCompletion
  PROVE  LoaderInv' /\ proxy'.sync = proxy.sync
<1>0. /\ proxy \in ProxyState /\ heard \in HeardState /\ length \in 0..MaxChunks
      /\ Turns(proxy) /\ Waits(proxy) /\ Owned(proxy, bridge)
      /\ Synchronous(length, proxy, heard) /\ Permitted(proxy, heard)
      /\ Listening(length, proxy, heard, peer, bridge)
      /\ bridge = "loading" /\ proxy.sync /\ LoaderTypeOK
  BY DEF LoaderInv, Sound, WaitForCompletion
<1> DEFINE o == IF proxy.signalled THEN proxy.result.code ELSE "timeout"
           h2 == [heard EXCEPT !.outcome = o]
<1>1. proxy.result.code \in {"none", "ok", "error"}
  BY <1>0, Fields DEF Result
<1>2. o \in {"none", "ok", "error", "timeout"}
  BY <1>1
<1>3. h2 \in HeardState /\ h2.permitted = heard.permitted /\ h2.outcome = o
  BY <1>0, <1>2 DEF HeardState
<1>4. /\ bridge' = "returned" /\ heard' = h2
      /\ UNCHANGED <<length, peer, proxy, cancels, crashed>>
  BY DEF WaitForCompletion
<1>5. Synchronous(length, proxy, h2)
  BY <1>0, <1>3 DEF Synchronous
<1> HIDE DEF h2, o
<1>6. Owned(proxy, "returned") /\ Permitted(proxy, h2)
  BY <1>0, <1>3 DEF Owned, Permitted
<1>7. Listening(length, proxy, h2, peer, "returned")
  BY <1>0 DEF Listening
<1>8. Sound(length, proxy, h2, peer, "returned")
  BY <1>0, <1>3, <1>5, <1>6, <1>7 DEF Sound
<1>9. LoaderTypeOK'
  BY <1>0, <1>3, <1>4 DEF LoaderTypeOK, HeardState
<1>10. Sound(length', proxy', heard', peer', bridge')
  BY <1>4, <1>8
<1> QED
  BY <1>4, <1>9, <1>10 DEF LoaderInv

\* The proxy is deleted by the main thread's release only after its bridge was.
LEMMA ReleasedSound ==
  ASSUME NEW n, NEW s, NEW h, NEW p, NEW b \in {"loading", "returned", "deleted"},
         Sound(n, s, h, p, b)
  PROVE  /\ Sound(n, Released(s), h, p, b) /\ Released(s).sync = s.sync
         /\ b = "loading" => Released(s) = s
<1>0. s \in ProxyState /\ Owned(s, b) /\ "delete" \in IOTasks
  BY DEF Sound, IOTasks
<1>1. CASE ~Unreferenced(s)
  BY <1>1 DEF Released
<1>2. CASE Unreferenced(s)
  <2>1. b = "deleted"
    BY <1>0, <1>2 DEF Unreferenced, Owned
  <2>2. Sound(n, Post(s, "delete"), h, p, b)
    BY <2>1, PostSound
  <2>3. Post(s, "delete").sync = s.sync
    BY <1>0, PostFields
  <2> QED
    BY <1>2, <2>1, <2>2, <2>3 DEF Released
<1> QED
  BY <1>1, <1>2

\* A notification runs on the main thread, and the peer answers if it listens.
LEMMA NotificationStep ==
  ASSUME LoaderInv, RunNotification
  PROVE  LoaderInv' /\ proxy'.sync = proxy.sync
<1> DEFINE q == [proxy EXCEPT !.main = Tail(@)]
           n == Head(proxy.main)
<1>0. /\ proxy \in ProxyState /\ heard \in HeardState /\ LoaderTypeOK
      /\ Owned(proxy, bridge) /\ Listening(length, proxy, heard, peer, bridge)
      /\ Sound(length, proxy, heard, peer, bridge)
      /\ proxy.main # <<>> /\ UNCHANGED <<length, bridge, cancels>>
      /\ heard.permitted \in Nat
  BY Bounds DEF LoaderInv, Sound, RunNotification, HeardState
<1>1. bridge \in {"loading", "returned", "deleted"}
  BY <1>0 DEF Owned, LoaderTypeOK
<1>2. /\ q \in ProxyState /\ q.sync = proxy.sync /\ n \in Note /\ "follow" \in IOTasks
      /\ "cancel" \in IOTasks /\ "read" \in IOTasks
  BY <1>0, TakeFields DEF IOTasks
<1>3. ASSUME NEW h2 \in HeardState, h2.permitted = heard.permitted
      PROVE  Sound(length, q, h2, FALSE, bridge)
  BY <1>0, <1>3, TakeSound
<1>4. ASSUME crashed' \in BOOLEAN, Sound(length, proxy', heard', peer', bridge),
             proxy'.sync = proxy.sync, peer' \in BOOLEAN
      PROVE  LoaderInv' /\ proxy'.sync = proxy.sync
  <2>1. proxy' \in ProxyState /\ heard' \in HeardState
    BY <1>4 DEF Sound
  <2>2. LoaderTypeOK'
    BY <1>0, <1>4, <2>1 DEF LoaderTypeOK, HeardState
  <2>3. Sound(length', proxy', heard', peer', bridge')
    BY <1>0, <1>4
  <2> QED
    BY <1>4, <2>2, <2>3 DEF LoaderInv
<1>5. peer \in BOOLEAN /\ crashed \in BOOLEAN
  BY <1>0 DEF LoaderTypeOK
<1>6. CASE ~proxy.alive
  <2>1. proxy' = q /\ crashed' \in BOOLEAN /\ UNCHANGED <<peer, heard>>
    BY <1>6 DEF RunNotification
  <2>2. peer = FALSE
    BY <1>0, <1>5, <1>6 DEF Owned, Listening
  <2>3. Sound(length, q, heard, FALSE, bridge)
    BY <1>0, <1>3
  <2> QED
    BY <1>2, <1>4, <1>5, <2>1, <2>2, <2>3
<1>7. CASE proxy.alive /\ n.notice = "redirect"
  <2>1. NotifyReceivedRedirect(q) /\ UNCHANGED <<peer, crashed>>
    BY <1>7 DEF RunNotification
  <2>2. CASE peer /\ proxy' = Post(q, "follow") /\ heard' = [heard EXCEPT !.permitted = @ + 1]
    <3>1. Sound(length, proxy, heard, TRUE, bridge)
      BY <1>0, <1>5, <2>2
    <3>2. Sound(length, Post(q, "follow"), [heard EXCEPT !.permitted = @ + 1], TRUE, bridge)
      BY <1>0, <1>7, <3>1, RedirectHeard
    <3>3. Post(q, "follow").sync = proxy.sync
      <4> HIDE DEF q
      <4> QED
        BY <1>2, PostFields
    <3> QED
      BY <1>4, <1>5, <2>1, <2>2, <3>2, <3>3
  <2>3. CASE proxy' = Post(q, "cancel") /\ heard' = [heard EXCEPT !.refused = @ \/ peer]
    <3>1. Post(q, "cancel").sync = proxy.sync
      <4> HIDE DEF q
      <4> QED
        BY <1>2, PostFields
    <3>2. CASE peer
      <4>1. Sound(length, proxy, heard, TRUE, bridge)
        BY <1>0, <1>5, <3>2
      <4>2. Sound(length, q, [heard EXCEPT !.refused = TRUE], TRUE, bridge)
        BY <1>0, <1>7, <4>1, RedirectHeard
      <4>3. heard' = [heard EXCEPT !.refused = TRUE]
        BY <1>0, <2>3, <3>2 DEF HeardState
      <4>4. Sound(length, Post(q, "cancel"), heard', TRUE, bridge)
        BY <1>1, <4>2, <4>3, PostSound
      <4> QED
        BY <1>4, <1>5, <2>1, <2>3, <3>1, <3>2, <4>4
    <3>3. CASE ~peer
      <4>1. heard' = heard
        BY <1>0, <2>3, <3>3 DEF HeardState
      <4>2. Sound(length, q, heard, FALSE, bridge)
        BY <1>0, <1>3
      <4>3. Sound(length, Post(q, "cancel"), heard', FALSE, bridge)
        BY <1>1, <4>1, <4>2, PostSound
      <4> QED
        BY <1>4, <1>5, <2>1, <2>3, <3>1, <3>3, <4>3
    <3> QED
      BY <3>2, <3>3
  <2> QED
    BY <2>1, <2>2, <2>3 DEF NotifyReceivedRedirect
<1>8. CASE proxy.alive /\ n.notice = "response"
  <2>1. proxy' = Released(q) /\ UNCHANGED <<peer, crashed>>
        /\ heard' = IF peer THEN [heard EXCEPT !.page = n.hop] ELSE heard
    BY <1>8 DEF RunNotification
  <2>2. Sound(length, q, heard', peer, bridge)
    <3>1. CASE peer
      <4>1. Sound(length, proxy, heard, TRUE, bridge)
        BY <1>0, <1>5, <3>1
      <4>2. Sound(length, q, [heard EXCEPT !.page = n.hop], TRUE, bridge)
        BY <1>0, <1>8, <4>1, ResponseHeard
      <4> QED
        BY <1>5, <2>1, <3>1, <4>2
    <3>2. CASE ~peer
      BY <1>0, <1>3, <1>5, <2>1, <3>2
    <3> QED
      BY <3>1, <3>2
  <2>3. Sound(length, Released(q), heard', peer, bridge) /\ Released(q).sync = proxy.sync
    <3> HIDE DEF q
    <3> QED
      BY <1>1, <1>2, <2>2, ReleasedSound
  <2> QED
    BY <1>4, <1>5, <2>1, <2>3
<1>9. CASE proxy.alive /\ n.notice = "data"
  <2>1. NotifyReceivedData(Released(q)) /\ UNCHANGED <<peer, crashed>>
    BY <1>9 DEF RunNotification
  <2>2. CASE peer
    <3>1. Sound(length, proxy, heard, TRUE, bridge) /\ bridge = "loading"
      BY <1>0, <1>5, <2>2 DEF Listening
    <3>2. Sound(length, Post(q, "read"), [heard EXCEPT !.data = Append(@, q.buffer)], TRUE, bridge)
      BY <1>0, <1>9, <3>1, DataHeard
    <3>3. Sound(length, q, heard, FALSE, bridge)
      BY <1>0, <1>3
    <3>4. Released(q) = q
      BY <1>1, <3>1, <3>3, ReleasedSound
    <3>5. Post(q, "read").sync = proxy.sync
      <4> HIDE DEF q
      <4> QED
        BY <1>2, PostFields
    <3>6. proxy' = Post(q, "read") /\ heard' = [heard EXCEPT !.data = Append(@, q.buffer)]
      BY <2>1, <2>2, <3>4 DEF NotifyReceivedData
    <3> QED
      BY <1>4, <1>5, <2>1, <2>2, <3>2, <3>5, <3>6
  <2>3. CASE ~peer
    <3>1. Sound(length, q, heard, FALSE, bridge)
      BY <1>0, <1>3
    <3>2. Sound(length, Released(q), heard, FALSE, bridge) /\ Released(q).sync = proxy.sync
      <4> HIDE DEF q
      <4> QED
        BY <1>1, <1>2, <3>1, ReleasedSound
    <3> QED
      BY <1>4, <1>5, <2>1, <2>3, <3>2 DEF NotifyReceivedData
  <2> QED
    BY <2>2, <2>3
<1>10. CASE proxy.alive /\ n.notice \in {"ok", "error"}
  <2>1. proxy' = Released(q) /\ peer' = FALSE /\ UNCHANGED crashed
        /\ heard' = IF peer THEN [heard EXCEPT !.outcome = n.notice] ELSE heard
    BY <1>10 DEF RunNotification
  <2>2. heard' \in HeardState /\ heard'.permitted = heard.permitted
    BY <1>0, <1>10, <2>1 DEF HeardState
  <2>3. Sound(length, q, heard', FALSE, bridge)
    BY <1>3, <2>2
  <2>4. Sound(length, Released(q), heard', FALSE, bridge) /\ Released(q).sync = proxy.sync
    <3> HIDE DEF q
    <3> QED
      BY <1>1, <1>2, <2>3, ReleasedSound
  <2> QED
    BY <1>4, <1>5, <2>1, <2>4
<1> QED
  BY <1>2, <1>6, <1>7, <1>8, <1>9, <1>10 DEF Note, Notices

\* Every step keeps the invariant, and the kind of the load.
LEMMA StepInv ==
  ASSUME LoaderInv, [Next]_vars
  PROVE  LoaderInv' /\ proxy'.sync = proxy.sync
<1>1. CASE RunIOTask \/ ReadAgain \/ Network
  BY <1>1, IOSteps
<1>2. CASE Start
  BY <1>2, StartStep
<1>3. CASE Cancel
  BY <1>3, CancelStep
<1>4. CASE RunNotification
  BY <1>4, NotificationStep
<1>5. CASE DeleteBridge
  BY <1>5, DeleteStep
<1>6. CASE WaitForCompletion
  BY <1>6, WaitStep
<1>7. CASE UNCHANGED vars
  BY <1>7 DEF vars, LoaderInv, LoaderTypeOK
<1> QED
  BY <1>1, <1>2, <1>3, <1>4, <1>5, <1>6, <1>7 DEF Next

\* The turns, the references and the order of what is heard, in every reachable state
\* of a load.
THEOREM LoaderInvHolds == Spec => []LoaderInv
<1>1. LoaderInv /\ [Next]_vars => LoaderInv'
  BY StepInv
<1> QED
  BY InitInv, <1>1, PTL DEF Spec

-----------------------------------------------------------------------------
(* What the invariant gives. *)

\* The buffer is handed back and forth, and the proxy outlives its bridge's
\* interest, whichever thread drops the last reference.
THEOREM LoaderSharedSafely == Spec => []SharedSafely
<1>1. LoaderInv => SharedSafely
  <2> SUFFICES ASSUME LoaderInv PROVE SharedSafely
    OBVIOUS
  <2>1. LoaderTypeOK /\ Waits(proxy) /\ Owned(proxy, bridge)
    BY DEF LoaderInv, Sound
  <2>2. BufferHandedOver
    BY <2>1 DEF BufferHandedOver, Waits
  <2>3. LiveWhileListening
    BY <2>1 DEF LiveWhileListening, Owned
  <2> QED
    BY <2>1, <2>2, <2>3 DEF SharedSafely
<1> QED
  BY <1>1, LoaderInvHolds, PTL

\* A synchronous load that says ok has the whole body, in order.
THEOREM LoaderResultWhole == Spec => []ResultWhole
<1>1. LoaderInv => ResultWhole
  <2> SUFFICES ASSUME LoaderInv, proxy.sync, heard.outcome = "ok"
               PROVE  proxy.result.data = [i \in 1..length |-> i]
    BY DEF ResultWhole
  <2>1. Synchronous(length, proxy, heard)
    BY DEF LoaderInv, Sound
  <2>2. proxy.read = length
    BY <2>1 DEF Synchronous
  <2>3. proxy.result.data = [i \in 1..proxy.read |-> i]
    BY <2>1 DEF Synchronous
  <2> QED
    BY <2>2, <2>3
<1> QED
  BY <1>1, LoaderInvHolds, PTL

\* The result of an asynchronous load is never written, and that of a synchronous
\* one only while it has a request.
LEMMA ResultKept ==
  ASSUME NEW s \in ProxyState, NEW r \in {"data", "eof", "error", "pending"},
         NEW task \in IOTasks, NEW sameOrigin
  PROVE  /\ ~s.sync => /\ ReadIs(s, r).result = s.result
                       /\ Done(s, "error").result = s.result
                       /\ OnReceivedResponse(s).result = s.result
                       /\ OnReceivedRedirect(s, sameOrigin).result = s.result
         /\ ~s.sync \/ ~HasRequest(s) => IOTaskRuns(s, task, r).result = s.result
         /\ Destruct(s).result = s.result
<1>1. ~s.sync => /\ Done(s, "ok").result = s.result /\ Done(s, "error").result = s.result
                 /\ OnReceivedResponse(s).result = s.result
                 /\ OnReceivedRedirect(s, sameOrigin).result = s.result
  BY DEF Done, OnCompletedRequest, OnReceivedResponse, OnReceivedRedirect, Notify, ProxyState
<1>2. ~s.sync => ReadIs(s, r).result = s.result
  <2>1. CASE r = "data"
    BY <2>1 DEF ReadIs, OnReceivedData, Notify, ProxyState
  <2>2. CASE r = "pending"
    BY <2>2 DEF ReadIs, ProxyState
  <2>3. CASE r \in {"eof", "error"}
    BY <1>1, <2>3 DEF ReadIs
  <2> QED
    BY <2>1, <2>2, <2>3
<1>3. Destruct(s).result = s.result
  BY DEF Destruct, ProxyState
<1>4. ~s.sync \/ ~HasRequest(s) => IOTaskRuns(s, task, r).result = s.result
  <2>1. CASE task \in {"start", "release"}
    BY <2>1 DEF IOTaskRuns, ProxyState
  <2>2. CASE task = "cancel"
    BY <1>1, <2>2 DEF IOTaskRuns, AsyncCancel
  <2>3. CASE task = "follow"
    BY <2>3 DEF IOTaskRuns, AsyncFollowDeferredRedirect, ProxyState
  <2>4. CASE task = "read"
    BY <1>2, <2>4 DEF IOTaskRuns, AsyncReadData
  <2>5. CASE task = "delete"
    BY <1>3, <2>5 DEF IOTaskRuns
  <2> QED
    BY <2>1, <2>2, <2>3, <2>4, <2>5 DEF IOTasks
<1> QED
  BY <1>1, <1>2, <1>3, <1>4

\* Once SyncLoad returned because it was signalled, no step writes the response.
THEOREM LoaderResultSettled == Spec => ResultSettled
<1>1. LoaderInv /\ [Next]_vars
        => [heard.outcome \in {"ok", "error"} => proxy.result' = proxy.result]_vars
  <2> SUFFICES ASSUME LoaderInv, Next, heard.outcome \in {"ok", "error"}
               PROVE  proxy'.result = proxy.result
    OBVIOUS
  <2>1. proxy \in ProxyState /\ Synchronous(length, proxy, heard)
    BY DEF LoaderInv, Sound
  <2>2. proxy.sync => proxy.request = "gone"
    BY <2>1 DEF Synchronous
  <2>3. CASE RunIOTask
    <3> DEFINE s == [proxy EXCEPT !.io = Tail(@)]
    <3>1. PICK r \in ReadOutcomes \cup {"pending"} :
            LET t == IOTaskRuns(s, Head(proxy.io), r)
            IN  IF ~proxy.alive THEN IOLeaves(s, TRUE)
                ELSE IOLeaves(IF Unreferenced(t) THEN Destruct(t) ELSE t, FALSE)
      BY <2>3 DEF RunIOTask
    <3> DEFINE t == IOTaskRuns(s, Head(proxy.io), r)
    <3>2. /\ s \in ProxyState /\ s.request = proxy.request /\ s.sync = proxy.sync
          /\ s.result = proxy.result /\ Head(proxy.io) \in IOTasks
      BY <2>1, <2>3, PopFields DEF RunIOTask
    <3>3. r \in {"data", "eof", "error", "pending"}
      BY Outcomes
    <3>4. ~s.sync \/ ~HasRequest(s)
      BY <2>2, <3>2 DEF HasRequest
    <3>5. proxy' = s \/ proxy' = t \/ proxy' = Destruct(t)
      BY <3>1 DEF IOLeaves
    <3> HIDE DEF s
    <3>6. t.result = s.result
      BY <3>2, <3>3, <3>4, ResultKept
    <3> HIDE DEF t
    <3>7. Destruct(t).result = t.result
      BY DEF Destruct
    <3> QED
      BY <3>2, <3>5, <3>6, <3>7
  <2>4. CASE ReadAgain
    <3>1. ~proxy.sync
      BY <2>2, <2>4 DEF ReadAgain
    <3>2. PICK r \in ReadOutcomes \cup {"pending"} : proxy' = AsyncReadData(proxy, r)
      BY <2>4 DEF ReadAgain, IOLeaves
    <3>3. r \in {"data", "eof", "error", "pending"} /\ "read" \in IOTasks
      BY Outcomes DEF IOTasks
    <3> QED
      BY <2>1, <3>1, <3>2, <3>3, ResultKept DEF AsyncReadData
  <2>5. CASE RedirectReceived
    <3>1. ~proxy.sync
      BY <2>2, <2>5 DEF RedirectReceived
    <3>2. PICK sameOrigin : proxy' = OnReceivedRedirect(proxy, sameOrigin)
      BY <2>5 DEF RedirectReceived, IOLeaves
    <3> QED
      BY <2>1, <3>1, <3>2 DEF OnReceivedRedirect, Notify, ProxyState
  <2>6. CASE ResponseStarted
    <3>1. ~proxy.sync
      BY <2>2, <2>6 DEF ResponseStarted
    <3>2. CASE proxy' = Done(proxy, "error")
      BY <2>1, <3>1, <3>2 DEF Done, OnCompletedRequest, Notify, ProxyState
    <3>3. ASSUME NEW r \in ReadOutcomes \cup {"pending"}, proxy' = OnResponseStarted(proxy, r)
          PROVE  proxy'.result = proxy.result
      <4> DEFINE u == OnReceivedResponse(proxy)
      <4>1. "response" \in Notices
        BY DEF Notices
      <4>2. u \in ProxyState
        BY <2>1, <3>1, <4>1, NotifyFields DEF OnReceivedResponse
      <4>3. u.sync = proxy.sync /\ u.result = proxy.result
        BY <2>1, <3>1 DEF OnReceivedResponse, Notify, ProxyState
      <4>4. r \in {"data", "eof", "error", "pending"} /\ "read" \in IOTasks
        BY Outcomes DEF IOTasks
      <4>5. proxy' = AsyncReadData(u, r)
        BY <3>3 DEF OnResponseStarted
      <4> HIDE DEF u
      <4>6. ReadIs(u, r).result = u.result
        BY <3>1, <4>2, <4>3, <4>4, ResultKept
      <4> QED
        BY <4>3, <4>5, <4>6 DEF AsyncReadData
    <3> QED
      BY <2>6, <3>2, <3>3 DEF ResponseStarted, IOLeaves
  <2>7. CASE ReadCompleted
    <3>1. ~proxy.sync
      BY <2>2, <2>7 DEF ReadCompleted
    <3>2. PICK r \in ReadOutcomes : proxy' = ReadIs(proxy, r)
      BY <2>7 DEF ReadCompleted, IOLeaves
    <3>3. r \in {"data", "eof", "error", "pending"} /\ "read" \in IOTasks
      BY Outcomes DEF IOTasks
    <3> QED
      BY <2>1, <3>1, <3>2, <3>3, ResultKept
  <2>8. CASE Start
    BY <2>1, <2>8 DEF Start, Post, ProxyState
  <2>9. CASE Cancel
    BY <2>1, <2>9 DEF Cancel, Post, ProxyState
  <2>10. CASE RunNotification
    <3> DEFINE q == [proxy EXCEPT !.main = Tail(@)]
    <3>1. q.result = proxy.result /\ q \in ProxyState
      BY <2>1, <2>10, TakeFields DEF RunNotification
    <3>2. \/ proxy' = q \/ proxy' = Post(q, "follow") \/ proxy' = Post(q, "cancel")
          \/ proxy' = Released(q) \/ proxy' = Post(Released(q), "read")
      BY <2>10 DEF RunNotification, NotifyReceivedRedirect, NotifyReceivedData
    <3> HIDE DEF q
    <3>3. /\ Post(q, "follow").result = q.result /\ Post(q, "cancel").result = q.result
          /\ Post(q, "delete").result = q.result
          /\ Post(Post(q, "delete"), "read").result = q.result
          /\ Post(q, "read").result = q.result
      BY <3>1 DEF Post, ProxyState
    <3> QED
      BY <3>1, <3>2, <3>3 DEF Released
  <2>11. CASE DeleteBridge
    BY <2>1, <2>11 DEF DeleteBridge, Post, ProxyState
  <2>12. CASE WaitForCompletion
    BY <2>12 DEF WaitForCompletion
  <2> QED
    BY <2>3, <2>4, <2>5, <2>6, <2>7, <2>8, <2>9, <2>10, <2>11, <2>12 DEF Next, Network
<1> QED
  BY <1>1, LoaderInvHolds, PTL DEF Spec, ResultSettled

-----------------------------------------------------------------------------
(* The refinement. *)

\* A step of the IO thread, and whatever the caller of SyncLoad does, is none of
\* the stream's.
LEMMA StreamKept ==
  ASSUME UNCHANGED <<length, bridge, heard, cancels>>, proxy'.sync = proxy.sync
  PROVE  UNCHANGED Stream!vars
BY DEF Stream!vars

\* What the peer hears of a notification is a step of the stream.
LEMMA StreamHears ==
  ASSUME LoaderInv, RunNotification
  PROVE  [Stream!Next]_(Stream!vars)
<1> DEFINE q == [proxy EXCEPT !.main = Tail(@)]
           n == Head(proxy.main)
<1>0. /\ proxy \in ProxyState /\ heard \in HeardState /\ LoaderTypeOK
      /\ Owned(proxy, bridge) /\ Listening(length, proxy, heard, peer, bridge)
      /\ Sound(length, proxy, heard, peer, bridge)
      /\ proxy.main # <<>> /\ UNCHANGED <<length, bridge, cancels>>
      /\ peer \in BOOLEAN
  BY DEF LoaderInv, LoaderTypeOK, Sound, RunNotification
<1>1. proxy'.sync = proxy.sync
  BY NotificationStep
<1>2. CASE ~peer
  <2>1. heard' = heard
    BY <1>0, <1>2 DEF RunNotification, NotifyReceivedRedirect, NotifyReceivedData, HeardState
  <2> QED
    BY <1>0, <1>1, <2>1, StreamKept
<1>3. CASE peer
  <2>1. /\ Sound(length, proxy, heard, TRUE, bridge)
        /\ bridge = "loading" /\ ~proxy.sync /\ heard.outcome = "none" /\ proxy.alive
    BY <1>0, <1>3 DEF Listening, Owned
  <2>2. CASE n.notice = "redirect" /\ heard' = [heard EXCEPT !.permitted = @ + 1]
    <3>1. heard.page = -1
      BY <1>0, <2>1, <2>2, RedirectHeard
    <3>2. /\ heard'.permitted = heard.permitted + 1 /\ heard'.page = heard.page
          /\ heard'.data = heard.data /\ heard'.outcome = heard.outcome
          /\ heard'.refused = heard.refused
      BY <1>0, <2>2 DEF HeardState
    <3> QED
      BY <1>0, <1>1, <2>1, <3>1, <3>2 DEF Stream!Next, Stream!Permit
  <2>3. CASE n.notice = "redirect" /\ heard' = [heard EXCEPT !.refused = @ \/ peer]
    <3>1. /\ heard'.permitted = heard.permitted /\ heard'.page = heard.page
          /\ heard'.data = heard.data /\ heard'.outcome = heard.outcome
          /\ heard'.refused
      BY <1>0, <1>3, <2>3 DEF HeardState
    <3> QED
      BY <1>0, <1>1, <2>1, <3>1 DEF Stream!Next, Stream!Cancel
  <2>4. CASE n.notice = "response" /\ heard' = [heard EXCEPT !.page = n.hop]
    <3>1. heard.page = -1 /\ n.hop = heard.permitted
      BY <1>0, <2>1, <2>4, ResponseHeard
    <3>2. /\ heard'.permitted = heard.permitted /\ heard'.page = heard.permitted
          /\ heard'.data = heard.data /\ heard'.outcome = heard.outcome
          /\ heard'.refused = heard.refused
      BY <1>0, <2>4, <3>1 DEF HeardState
    <3> QED
      BY <1>0, <1>1, <2>1, <3>1, <3>2 DEF Stream!Next, Stream!Response
  <2>5. CASE n.notice = "data" /\ heard' = [heard EXCEPT !.data = Append(@, q.buffer)]
    <3>1. heard.page # -1 /\ q.buffer = Len(heard.data) + 1 /\ Len(heard.data) < length
      BY <1>0, <2>1, <2>5, DataHeard
    <3>2. /\ heard'.permitted = heard.permitted /\ heard'.page = heard.page
          /\ heard'.data = Append(heard.data, Len(heard.data) + 1)
          /\ heard'.outcome = heard.outcome /\ heard'.refused = heard.refused
      BY <1>0, <2>5, <3>1 DEF HeardState
    <3> QED
      BY <1>0, <1>1, <2>1, <3>1, <3>2 DEF Stream!Next, Stream!Data
  <2>6. CASE n.notice \in {"ok", "error"} /\ heard' = [heard EXCEPT !.outcome = n.notice]
    <3>1. n.notice = "ok" => heard.page # -1 /\ Len(heard.data) = length
      BY <1>0, <2>1, EndHeard
    <3>2. /\ heard'.permitted = heard.permitted /\ heard'.page = heard.page
          /\ heard'.data = heard.data /\ heard'.outcome = n.notice
          /\ heard'.refused = heard.refused
      BY <1>0, <2>6 DEF HeardState
    <3> HIDE DEF n
    <3> QED
      BY <1>0, <1>1, <2>1, <2>6, <3>1, <3>2 DEF Stream!Next, Stream!Complete
  <2>7. n.notice = "data" => Released(q).buffer = q.buffer
    <3>1. Sound(length, q, heard, FALSE, bridge)
      BY <1>0, TakeSound
    <3> HIDE DEF q
    <3> QED
      BY <2>1, <3>1, ReleasedSound
  <2> QED
    BY <1>3, <2>1, <2>2, <2>3, <2>4, <2>5, <2>6, <2>7
    DEF RunNotification, NotifyReceivedRedirect, NotifyReceivedData
<1> QED
  BY <1>0, <1>2, <1>3

\* Every step of a load is a step of its stream, or none of it.
LEMMA StreamStep ==
  ASSUME LoaderInv, [Next]_vars
  PROVE  [Stream!Next]_(Stream!vars)
<1>0. LoaderTypeOK /\ Listening(length, proxy, heard, peer, bridge)
      /\ heard \in HeardState /\ proxy'.sync = proxy.sync
  BY StepInv DEF LoaderInv, Sound
<1>1. CASE RunIOTask \/ ReadAgain \/ Network
  BY <1>1, IOSteps, StreamKept
<1>2. CASE Start
  <2>1. /\ bridge = "new" /\ bridge' = "loading" /\ heard.outcome = "none"
        /\ UNCHANGED <<length, heard, cancels>>
    BY <1>0, <1>2 DEF Start, Listening
  <2>2. CASE proxy.sync
    BY <1>0, <2>1, <2>2 DEF Stream!vars
  <2>3. CASE ~proxy.sync
    BY <1>0, <2>1, <2>3 DEF Stream!Next, Stream!Start
  <2> QED
    BY <2>2, <2>3
<1>3. CASE Cancel
  <2>1. /\ bridge = "loading" /\ ~proxy.sync /\ cancels' = cancels + 1 /\ cancels \in Nat
        /\ UNCHANGED <<length, heard, bridge>>
    BY <1>0, <1>3, Bounds DEF Cancel, LoaderTypeOK
  <2>2. cancels' > 0
    BY <2>1
  <2> QED
    BY <1>0, <2>1, <2>2 DEF Stream!Next, Stream!Cancel
<1>4. CASE RunNotification
  BY <1>4, StreamHears
<1>5. CASE DeleteBridge
  <2>1. /\ bridge \in {"loading", "returned"} /\ bridge' = "deleted"
        /\ UNCHANGED <<length, heard, cancels>>
    BY <1>5 DEF DeleteBridge
  <2>2. CASE proxy.sync
    BY <1>0, <2>1, <2>2 DEF Stream!vars
  <2>3. CASE ~proxy.sync
    BY <1>0, <2>1, <2>3 DEF Stream!Next, Stream!Drop
  <2> QED
    BY <2>2, <2>3
<1>6. CASE WaitForCompletion
  <2>1. /\ proxy.sync /\ UNCHANGED <<length, cancels>>
        /\ heard'.permitted = heard.permitted /\ heard'.page = heard.page
        /\ heard'.data = heard.data /\ heard'.refused = heard.refused
    BY <1>0, <1>6 DEF WaitForCompletion, HeardState
  <2> QED
    BY <1>0, <2>1 DEF Stream!vars
<1>7. CASE UNCHANGED vars
  BY <1>0, <1>7, StreamKept DEF vars
<1> QED
  BY <1>1, <1>2, <1>3, <1>4, <1>5, <1>6, <1>7 DEF Next

\* The loader implements the safety part of StreamSpec, for bodies and redirects of
\* any number.
THEOREM LoaderImplementsStream == Spec => Stream!Init /\ [][Stream!Next]_(Stream!vars)
<1>1. Init => Stream!Init
  BY Bounds DEF Init, Stream!Init
<1>2. LoaderInv /\ [Next]_vars => [Stream!Next]_(Stream!vars)
  BY StreamStep
<1> QED
  BY <1>1, <1>2, LoaderInvHolds, PTL DEF Spec
=============================================================================
