---------------------------- MODULE ResourceLoader ----------------------------
(***************************************************************************)
(* One resource load: the bridge on the main thread, its reference-counted  *)
(* BrowserRequestProxy, and the net::URLRequest the proxy owns on the IO    *)
(* thread.  The proxy's halves call each other through the message loops of *)
(* the two threads and share one buffer.  The proxy of a synchronous load   *)
(* (BrowserSyncRequestProxy) has no peer: IO writes to the caller's         *)
(* SyncLoadResponse, and the main thread waits for an event at most 2 s.    *)
(*                                                                          *)
(* The URL request, its network and the peer (WebKit) are external.         *)
(* Assumed: one notification of a URL request at a time and none after it   *)
(* was destroyed; a body is read chunk by chunk; cancelling a request that  *)
(* did not fail makes its status an error.                                  *)
(***************************************************************************)
EXTENDS Integers, Sequences, SequencesExt

CONSTANTS MaxRedirects, \* bound on the redirects of a load
          MaxChunks,    \* bound on the chunks of a body
          MaxCancels    \* bound on the peer's calls of Cancel

ASSUME LoaderAssumption == {MaxRedirects, MaxChunks, MaxCancels} \subseteq Nat

VARIABLES
  length,   \* chunks of the body (external)
  bridge,   \* "new", "loading", "returned" (from SyncLoad), "deleted"
  peer,     \* m_peer is not NULL
  proxy,    \* what the main and the IO thread share, see ProxyState
  heard,    \* history: what the peer, or SyncLoad's caller, was told
  cancels,  \* calls of the bridge's Cancel
  crashed   \* undefined behaviour ended the process

vars == <<length, bridge, peer, proxy, heard, cancels, crashed>>

IOTasks == {"start", "cancel", "follow", "read", "release", "delete"}
Notices == {"redirect", "response", "data", "ok", "error"}

\* request: "none", "connecting", "deferred" (a redirect waits for the peer),
\* "reading" (a read is pending), "ready" (no read is), "again" (the IO thread
\* is about to read once more in OnReceivedData), "gone" (m_request.reset()).
ProxyState ==
  [sync : BOOLEAN,                       \* it is a BrowserSyncRequestProxy
   request : {"none", "connecting", "deferred", "reading", "ready", "again", "gone"},
   hop : 0..MaxRedirects,                \* redirects followed
   read : 0..MaxChunks,                  \* chunks read from the network
   buffer : 0..MaxChunks,                \* the chunk in m_buffer, 0: undefined
   io : Seq(IOTasks), main : Seq([notice : Notices, hop : 0..MaxRedirects]),
   held : BOOLEAN,                       \* the bridge's AddRef is not released
   alive : BOOLEAN,                      \* the proxy was not deleted
   result : [url : 0..MaxRedirects, response : BOOLEAN, data : Seq(0..MaxChunks),
             code : {"none", "ok", "error"}],
   signalled : BOOLEAN]                  \* m_event

LoaderTypeOK ==
  /\ length \in 0..MaxChunks
  /\ bridge \in {"new", "loading", "returned", "deleted"}
  /\ peer \in BOOLEAN /\ crashed \in BOOLEAN
  /\ proxy \in ProxyState
  /\ heard \in [permitted : 0..MaxRedirects, refused : BOOLEAN,
                page : -1..MaxRedirects, data : Seq(0..MaxChunks),
                outcome : {"none", "ok", "error", "timeout"}]
  /\ cancels \in 0..MaxCancels

Init ==
  /\ length \in 0..MaxChunks
  /\ bridge = "new" /\ peer = FALSE /\ cancels = 0 /\ crashed = FALSE
  /\ \E sync \in BOOLEAN :
       proxy = [sync |-> sync, request |-> "none", hop |-> 0, read |-> 0, buffer |-> 0,
                io |-> <<>>, main |-> <<>>, held |-> FALSE, alive |-> TRUE,
                result |-> [url |-> 0, response |-> FALSE, data |-> <<>>, code |-> "none"],
                signalled |-> FALSE]
  /\ heard = [permitted |-> 0, refused |-> FALSE, page |-> -1, data |-> <<>>,
              outcome |-> "none"]

-----------------------------------------------------------------------------
(* Steps of the proxy, as functions from a proxy state to the next. *)

Post(s, task) == [s EXCEPT !.io = Append(@, task)]
Notify(s, n) == [s EXCEPT !.main = Append(@, [notice |-> n, hop |-> s.hop])]
HasRequest(s) == s.request \notin {"none", "gone"}

\* A queued task or notification holds a reference (base::Bind), and so does the
\* bridge until its ReleaseSoon ran; DeleteSoon does not.
Unreferenced(s) == ~s.held /\ s.main = <<>> /\ ToSet(s.io) \subseteq {"delete"}

\* What BrowserSyncRequestProxy overrides.
SyncCompletedRequest(s, code) == [s EXCEPT !.result.code = code, !.signalled = TRUE]
SyncReceivedData(s) == [s EXCEPT !.result.data = Append(@, s.buffer), !.request = "again"]
SyncReceivedResponse(s) == [s EXCEPT !.result.response = TRUE]
SyncReceivedRedirect(s, sameOrigin) ==
  IF sameOrigin THEN [s EXCEPT !.hop = @ + 1, !.result.url = s.hop + 1]
                ELSE Post([s EXCEPT !.hop = @ + 1], "cancel")

OnCompletedRequest(s, code) ==
  IF s.sync THEN SyncCompletedRequest(s, code) ELSE Notify(s, code)

DoneKeepsRequest(s, code) == OnCompletedRequest(s, code) \* mutant: m_request is not reset
Done(s, code) == [OnCompletedRequest(s, code) EXCEPT !.request = "gone"]

AsyncCancelSilent(s) == \* mutant: the request is only cancelled
  IF HasRequest(s) THEN [s EXCEPT !.request = "gone"] ELSE s
AsyncCancel(s) == IF HasRequest(s) THEN Done(s, "error") ELSE s

OnReceivedDataEager(s) == \* mutant: the next read does not wait for the copy
  IF s.sync THEN SyncReceivedData(s) ELSE Notify([s EXCEPT !.request = "again"], "data")

OnReceivedData(s) ==
  IF s.sync THEN SyncReceivedData(s) ELSE Notify([s EXCEPT !.request = "ready"], "data")

\* What URLRequest::Read may say; a pending read may write to m_buffer until it
\* is completed (OnReadCompleted, which says the other three).
ReadOutcomes == {IF proxy.read < length THEN "data" ELSE "eof", "error"}

ReadIsImpatient(s, r) == \* mutant: is_io_pending is not tested
  CASE r = "data"    -> OnReceivedData([s EXCEPT !.read = @ + 1, !.buffer = s.read + 1])
    [] r = "pending" -> Done(s, "ok")
    [] r = "eof"     -> Done(s, "ok")
    [] r = "error"   -> Done(s, "error")

ReadIs(s, r) ==
  CASE r = "data"    -> OnReceivedData([s EXCEPT !.read = @ + 1, !.buffer = s.read + 1])
    [] r = "pending" -> [s EXCEPT !.request = "reading", !.buffer = 0]
    [] r = "eof"     -> Done(s, "ok")
    [] r = "error"   -> Done(s, "error")

AsyncReadData(s, r) == IF HasRequest(s) THEN ReadIs(s, r) ELSE s

AsyncFollowDeferredRedirect(s) ==
  IF HasRequest(s) THEN [s EXCEPT !.request = "connecting", !.hop = @ + 1] ELSE s

OnReceivedRedirectFollows(s, sameOrigin) == \* mutant: the redirect is not deferred
  IF s.sync THEN SyncReceivedRedirect(s, sameOrigin)
          ELSE Notify([s EXCEPT !.hop = @ + 1], "redirect")

OnReceivedRedirect(s, sameOrigin) ==
  IF s.sync THEN SyncReceivedRedirect(s, sameOrigin)
          ELSE Notify([s EXCEPT !.request = "deferred"], "redirect")

OnReceivedResponse(s) ==
  IF s.sync THEN SyncReceivedResponse(s) ELSE Notify(s, "response")

OnResponseStarted(s, r) == AsyncReadData(OnReceivedResponse(s), r)

-----------------------------------------------------------------------------
(* IO thread. *)

\* DeleteOnIOThread, at the end of an IO task that held the last reference.
Destruct(s) == [s EXCEPT !.alive = FALSE, !.request = "gone"]

\* The IO thread leaves t.  A SyncLoadResponse lives until SyncLoad's caller is
\* done with it; a write to it after that, a task of a deleted proxy, and a
\* second deletion may end the process.
IOLeaves(t, undefined) ==
  /\ proxy' = t
  /\ crashed' \in IF undefined \/ (proxy.sync /\ bridge = "deleted" /\ t.result # proxy.result)
                  THEN BOOLEAN ELSE {FALSE}
  /\ UNCHANGED <<length, bridge, peer, heard, cancels>>

IOIdle == ~crashed /\ proxy.request # "again"

IOTaskRuns(s, task, r) ==
  CASE task = "start"   -> [s EXCEPT !.request = "connecting"]
    [] task = "cancel"  -> AsyncCancel(s)
    [] task = "follow"  -> AsyncFollowDeferredRedirect(s)
    [] task = "read"    -> AsyncReadData(s, r)
    [] task = "release" -> [s EXCEPT !.held = FALSE]
    [] task = "delete"  -> Destruct(s)

RunIOTask ==
  /\ IOIdle /\ proxy.io # <<>>
  /\ \E r \in ReadOutcomes \cup {"pending"} :
       LET s == [proxy EXCEPT !.io = Tail(@)]
           t == IOTaskRuns(s, Head(proxy.io), r)
       IN  IF ~proxy.alive THEN IOLeaves(s, TRUE)
           ELSE IOLeaves(IF Unreferenced(t) THEN Destruct(t) ELSE t, FALSE)

\* OnReceivedData of a synchronous proxy goes on with AsyncReadData.
ReadAgain ==
  /\ ~crashed /\ proxy.request = "again"
  /\ \E r \in ReadOutcomes \cup {"pending"} : IOLeaves(AsyncReadData(proxy, r), FALSE)

\* Notifications of the URL request.
RedirectReceived ==
  /\ IOIdle /\ proxy.request = "connecting" /\ proxy.hop < MaxRedirects
  /\ \E sameOrigin \in BOOLEAN : IOLeaves(OnReceivedRedirect(proxy, sameOrigin), FALSE)

ResponseStarted ==
  /\ IOIdle /\ proxy.request = "connecting"
  /\ \/ \E r \in ReadOutcomes \cup {"pending"} : IOLeaves(OnResponseStarted(proxy, r), FALSE)
     \/ IOLeaves(Done(proxy, "error"), FALSE)

ReadCompleted ==
  /\ IOIdle /\ proxy.request = "reading"
  /\ \E r \in ReadOutcomes : IOLeaves(ReadIs(proxy, r), FALSE)

Network == RedirectReceived \/ ResponseStarted \/ ReadCompleted

-----------------------------------------------------------------------------
(* Main thread. *)

\* Start and SyncLoad: AddRef, then BrowserRequestProxy::Start.
StartUnreferenced == \* mutant: AddRef is missing
  /\ bridge = "new" /\ ~crashed
  /\ bridge' = "loading" /\ peer' = ~proxy.sync
  /\ proxy' = Post(proxy, "start")
  /\ UNCHANGED <<length, heard, cancels, crashed>>

Start ==
  /\ bridge = "new" /\ ~crashed
  /\ bridge' = "loading" /\ peer' = ~proxy.sync
  /\ proxy' = Post([proxy EXCEPT !.held = TRUE], "start")
  /\ UNCHANGED <<length, heard, cancels, crashed>>

\* Whether the main loop can run: SyncLoad blocks it.
MainRuns == ~crashed /\ ~(proxy.sync /\ bridge = "loading")

Cancel ==
  /\ MainRuns /\ ~proxy.sync /\ bridge = "loading" /\ cancels < MaxCancels
  /\ cancels' = cancels + 1
  /\ proxy' = Post(proxy, "cancel")
  /\ UNCHANGED <<length, bridge, peer, heard, crashed>>

\* NotifyReceivedRedirect; the peer accepts or refuses.
NotifyReceivedRedirect(s) ==
  \/ /\ peer
     /\ proxy' = Post(s, "follow")
     /\ heard' = [heard EXCEPT !.permitted = @ + 1]
  \/ /\ proxy' = Post(s, "cancel")
     /\ heard' = [heard EXCEPT !.refused = @ \/ peer]

\* NotifyReceivedData copies the buffer before it posts the next read.
NotifyReceivedDataNoRead(s) == \* mutant: the next read is not posted
  /\ proxy' = s
  /\ heard' = IF peer THEN [heard EXCEPT !.data = Append(@, s.buffer)] ELSE heard

NotifyReceivedData(s) ==
  IF peer THEN /\ proxy' = Post(s, "read")
               /\ heard' = [heard EXCEPT !.data = Append(@, s.buffer)]
          ELSE proxy' = s /\ UNCHANGED heard

\* RefCountedThreadSafe: the notification's reference is dropped on main.
Released(s) == IF Unreferenced(s) THEN Post(s, "delete") ELSE s

RunNotification ==
  /\ MainRuns /\ proxy.main # <<>>
  /\ UNCHANGED <<length, bridge, cancels>>
  /\ LET n == Head(proxy.main)
         s == [proxy EXCEPT !.main = Tail(@)]
     IN  IF ~proxy.alive
         THEN proxy' = s /\ crashed' \in BOOLEAN /\ UNCHANGED <<peer, heard>>
         ELSE /\ UNCHANGED crashed
              /\ \/ /\ n.notice = "redirect"
                    /\ NotifyReceivedRedirect(s)
                    /\ UNCHANGED peer
                 \/ /\ n.notice = "response"
                    /\ proxy' = Released(s)
                    /\ heard' = IF peer THEN [heard EXCEPT !.page = n.hop] ELSE heard
                    /\ UNCHANGED peer
                 \/ /\ n.notice = "data"
                    /\ NotifyReceivedData(Released(s))
                    /\ UNCHANGED peer
                 \/ /\ n.notice \in {"ok", "error"}
                    /\ proxy' = Released(s)
                    /\ heard' = IF peer THEN [heard EXCEPT !.outcome = n.notice] ELSE heard
                    /\ peer' = FALSE

\* ~ResourceLoaderBridgeImpl.
DeleteBridgeLeaks == \* mutant: DropPeer without ReleaseSoon
  /\ MainRuns /\ bridge \in {"loading", "returned"}
  /\ bridge' = "deleted" /\ peer' = FALSE
  /\ UNCHANGED <<length, proxy, heard, cancels, crashed>>

DeleteBridge ==
  /\ MainRuns /\ bridge \in {"loading", "returned"}
  /\ bridge' = "deleted" /\ peer' = FALSE
  /\ proxy' = Post(proxy, "release")
  /\ UNCHANGED <<length, heard, cancels, crashed>>

\* waitForCompletion: the event was signalled, or 2 s have gone.
WaitForCompletion ==
  /\ ~crashed /\ proxy.sync /\ bridge = "loading"
  /\ bridge' = "returned"
  /\ heard' = [heard EXCEPT !.outcome = IF proxy.signalled THEN proxy.result.code ELSE "timeout"]
  /\ UNCHANGED <<length, peer, proxy, cancels, crashed>>

-----------------------------------------------------------------------------
Next == \/ RunIOTask \/ ReadAgain \/ Network
        \/ Start \/ Cancel \/ RunNotification \/ DeleteBridge \/ WaitForCompletion

\* The threads run what is posted to them, and a wait with a time limit ends.
\* Nothing is assumed of the network, nor of what WebKit calls.
Spec == /\ Init /\ [][Next]_vars
        /\ WF_vars(RunIOTask) /\ WF_vars(ReadAgain)
        /\ WF_vars(RunNotification) /\ WF_vars(WaitForCompletion)

-----------------------------------------------------------------------------
(* Properties. *)

\* m_buffer is handed back and forth without a lock: while a data notification
\* is on its way no read is pending, and the buffer holds the last chunk read.
BufferHandedOver ==
  (\E i \in DOMAIN proxy.main : proxy.main[i].notice = "data") =>
    proxy.request \in {"ready", "gone"} /\ proxy.buffer = proxy.read

\* The proxy outlives its bridge's interest: it is deleted only after the bridge
\* was, although the last reference may be dropped on either thread.
LiveWhileListening == bridge # "deleted" => proxy.alive

\* What the two threads share without a lock is there and not written to while
\* the main thread may read it.
SharedSafely == LoaderTypeOK /\ BufferHandedOver /\ LiveWhileListening

\* Every proxy whose bridge was deleted is deleted (its URL request with it) even
\* if the network never answers: no reference is leaked.
ProxyReclaimed == bridge = "deleted" ~> (~proxy.alive \/ crashed)

\* The read handshake never gets stuck: if the network answers, a load that is
\* not abandoned is completed.
EveryLoadCompletes ==
  WF_vars(Network) =>
    (bridge = "loading" ~> (heard.outcome # "none" \/ bridge = "deleted"))

\* A synchronous load that returns success because it was signalled has the
\* whole body, in order.
ResultWhole == proxy.sync /\ heard.outcome = "ok" => proxy.result.data = [i \in 1..length |-> i]

\* Once SyncLoad returned because it was signalled, the IO thread leaves the
\* caller's response alone, whatever is still queued for the proxy.
ResultSettled == [][heard.outcome \in {"ok", "error"} => proxy.result' = proxy.result]_vars

\* The stream the peer sees; a synchronous load has none.
Stream == INSTANCE ResourceStream WITH
  stream <- IF bridge = "new" \/ proxy.sync THEN "new" ELSE IF bridge = "deleted" THEN "dropped"
            ELSE IF heard.outcome # "none" THEN "done" ELSE "open",
  permitted <- heard.permitted, page <- heard.page, data <- heard.data,
  outcome <- IF proxy.sync THEN "none" ELSE heard.outcome, cancelled <- cancels > 0 \/ heard.refused

\* The loader implements the stream: what the peer hears, in which order, how
\* often, and that a cancelled load is completed.
StreamSpec == Stream!Spec
=============================================================================
