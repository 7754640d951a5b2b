---------------------------- MODULE ViewResponse ----------------------------
(***************************************************************************)
(* One BrowserView from a load to its answer.  WebKit calls the view's      *)
(* BrowserViewDelegate on the main thread; the delegate decides when the    *)
(* page is done and posts doResponseOnMainThread; that task answers (the    *)
(* user's callback is posted to the worker) unless the page is loading      *)
(* again, and lets the view ask for its next request.  A one-shot timer on  *)
(* the worker (BrowserViewRequestMonitor) sends a stop message through a    *)
(* pipe (BrowserMessageManager) when the request's time is over.            *)
(*                                                                          *)
(* A view of a NolimitedTab group is deleted when it answered, and a later  *)
(* view may be created at its address, to which stop messages are sent: the *)
(* module follows one address.  Loads are numbered 0, 1, ... through all    *)
(* its views; m_identifier starts again with each of them.                  *)
(*                                                                          *)
(* WebKit is external.  What is assumed of it: a resource that was sent     *)
(* ends once; the main frame fires onload or stops loading only when its    *)
(* main resource ended; a frame that fails has nothing in flight and sends  *)
(* for nothing more; stopLoading() ends whatever is in flight before it     *)
(* returns; and no script of a stopped page sends for anything again.       *)
(***************************************************************************)
EXTENDS Integers, Sequences, FiniteSets

CONSTANTS MainResource,     \* the main resource of a page
          SubResources,     \* other resources a page may send for
          MaxLoads,         \* bound on the requests this view is given
          MaxTasks,         \* bound on tasks WebKit leaves on the main loop
          WindowLoadOption, \* values of m_enableResponseAfterWindowLoad
          Observed          \* whether the view belongs to a NolimitedTab group

ASSUME MaxLoadsAssumption == MaxLoads \in Nat \ {0}
ASSUME OptionAssumption == WindowLoadOption \subseteq BOOLEAN /\ Observed \subseteq BOOLEAN

Resources == {MainResource} \cup SubResources
Codes == {"E_OK", "E_BAD_URL", "E_CANCEL", "E_NETWORK", "E_TIMEOUT", "E_UNKNOWN"}
LoadIds == 0..(MaxLoads - 1)

VARIABLES
  hasObserver,  \* the view's group observes it: m_viewObserver
  loads,        \* history: the number of loads so far
  identifier,   \* m_identifier, -1 before the view's first load
  ui,           \* what a WebKit callback may change, see UIState
  inFlight,     \* resources WebKit has sent for and not ended (external)
  failed,       \* the main frame reported a failure for this load (external)
  view,         \* "asked" (in line for a request), "busy" (has one), "deleted",
                \* or "crashed": a message was dispatched to a deleted view
  workerTasks,  \* worker message loop
  timer,        \* the running timer's load and m_identifier, or NoTimer
  pipe,         \* stop messages on their way to the main thread
  fired,        \* history: loads whose timer fired
  answers       \* history: what the user's callbacks were posted with

viewVars == <<hasObserver, loads, identifier, view>>
pageVars == <<ui, inFlight, failed>>
vars == <<viewVars, pageVars, workerTasks, timer, pipe, fired, answers>>

\* The fields of BrowserViewDelegate that reset() clears.
Cleared == [resources |-> {}, didFinishLoad |-> FALSE, windowLoaded |-> FALSE,
            timeout |-> FALSE, didResponse |-> FALSE, forbidden |-> FALSE,
            isRedirect |-> FALSE]

NoTimer == [task |-> "none", load |-> -1, id |-> -1]
NoContext == [load |-> -1, afterWindowLoad |-> FALSE, errorCode |-> "E_OK"]

\* m_isloading, the delegate, the request context and the main message loop.
UIState == [isLoading : BOOLEAN,
            delegate : [resources : SUBSET Resources, didFinishLoad : BOOLEAN,
                        windowLoaded : BOOLEAN, timeout : BOOLEAN, didResponse : BOOLEAN,
                        forbidden : BOOLEAN, isRedirect : BOOLEAN],
            context : [load : LoadIds \cup {-1}, afterWindowLoad : BOOLEAN, errorCode : Codes],
            tasks : Seq([task : {"respond", "load"}, load : LoadIds])]

TypeOK ==
  /\ hasObserver \in BOOLEAN
  /\ loads \in 0..MaxLoads /\ identifier \in -1..(loads - 1)
  /\ view \in {"asked", "busy", "deleted", "crashed"}
  /\ ui \in UIState
  /\ inFlight \in SUBSET Resources
  /\ failed \in BOOLEAN
  /\ workerTasks \in Seq([task : {"set", "stop", "callback"}, load : LoadIds, id : LoadIds])
  /\ timer \in [task : {"set"}, load : LoadIds, id : LoadIds] \cup {NoTimer}
  /\ pipe \in Seq(LoadIds)
  /\ fired \in SUBSET LoadIds
  /\ answers \in Seq([load : LoadIds, errorCode : Codes])

\* The constructors.  m_didHandleWindowLoadEvent gets no initial value.
NewUI == {[isLoading |-> FALSE, delegate |-> [Cleared EXCEPT !.windowLoaded = b],
           context |-> NoContext, tasks |-> <<>>] : b \in BOOLEAN}

Init ==
  /\ hasObserver \in Observed
  /\ loads = 0 /\ identifier = -1 /\ view = "asked"
  /\ ui \in NewUI /\ inFlight = {} /\ failed = FALSE
  /\ workerTasks = <<>> /\ timer = NoTimer /\ pipe = <<>>
  /\ fired = {} /\ answers = <<>>

-----------------------------------------------------------------------------
(* BrowserViewDelegate: callbacks as functions from a UI state to the next. *)

HasContext(s) == s.context # NoContext

\* prepareDoResponse and the lines around it.
PostResponse(s, code) ==
  [s EXCEPT !.context.errorCode = IF s.delegate.timeout THEN "E_TIMEOUT" ELSE code,
            !.tasks = Append(@, [task |-> "respond", load |-> s.context.load]),
            !.delegate.didResponse = TRUE]

CheckDoResponse(s) ==
  IF \/ ~s.delegate.forbidden /\ (s.delegate.resources # {} \/ ~s.delegate.didFinishLoad)
     \/ ~HasContext(s)
     \/ s.context.afterWindowLoad /\ ~s.delegate.windowLoaded
  THEN s ELSE PostResponse(s, "E_OK")

DoResponseWithoutCheck(s, code) == IF HasContext(s) THEN PostResponse(s, code) ELSE s

Reset(s) == [s EXCEPT !.delegate = Cleared]

DidStartLoading(s) ==
  LET t == [s EXCEPT !.isLoading = TRUE]
  IN  IF s.delegate.isRedirect THEN Reset(t) ELSE t

DidStopLoading(s) ==
  LET t == [s EXCEPT !.isLoading = FALSE]
  IN  IF s.delegate.didFinishLoad THEN t
      ELSE CheckDoResponse([t EXCEPT !.delegate.didFinishLoad = TRUE])

\* willSendRequest of a resource that is sent.  One that is refused (it is not
\* the request's own URL and subresources are forbidden, or the request's
\* settings filter it) is not registered, and WebKit fails it at once.
WillSendRequest(s, r) == [s EXCEPT !.delegate.resources = @ \cup {r}]

\* didFinishResourceLoad and didFailResourceLoad of every resource of rs.
ResourcesEnd(s, rs) ==
  LET t == [s EXCEPT !.delegate.resources = @ \ rs]
  IN  IF rs # {} /\ t.delegate.resources = {} THEN CheckDoResponse(t) ELSE t

DidHandleOnloadEvents(s) ==
  IF s.delegate.windowLoaded THEN s
  ELSE CheckDoResponse([s EXCEPT !.delegate.windowLoaded = TRUE])

\* WebFrame::stopLoading (external): resources end, a main frame that was
\* loading fails, and loading stops.
StoppedLoading(s, frameFails) ==
  LET a == ResourcesEnd(s, inFlight)
      b == IF frameFails THEN DoResponseWithoutCheck(a, "E_NETWORK") ELSE a
  IN  IF s.isLoading THEN DidStopLoading(b) ELSE b

\* The frame goes to another page, which ends what the old one had in flight.
\* about:blank is loaded and done before loadRequest returns.
Navigated(s) == DidStartLoading(ResourcesEnd(s, inFlight))
Blanked(s) ==
  LET a == StoppedLoading(s, FALSE) IN DidStopLoading(DidStartLoading(a))

-----------------------------------------------------------------------------
(* WebKit events on the main thread. *)

Page == view = "busy" /\ HasContext(ui) /\ Len(ui.tasks) < MaxTasks
Calm == ~failed /\ ~ui.delegate.timeout

WebKit(next, flight, fails) ==
  /\ Page
  /\ ui' = next /\ inFlight' = flight /\ failed' = fails
  /\ UNCHANGED <<viewVars, workerTasks, timer, pipe, fired, answers>>

SendForResource ==
  \E r \in SubResources \ inFlight :
    /\ Calm
    /\ \/ /\ ~ui.delegate.forbidden
          /\ WebKit(WillSendRequest(ui, r), inFlight \cup {r}, failed)
       \/ WebKit(ResourcesEnd(ui, {r}), inFlight, failed)

ResourceEnds == \E r \in inFlight : WebKit(ResourcesEnd(ui, {r}), inFlight \ {r}, failed)

Navigate ==
  /\ ~ui.isLoading /\ Calm
  /\ LET t == Navigated(ui) IN
       \/ ~t.delegate.forbidden
            /\ WebKit(WillSendRequest(t, MainResource), {MainResource}, failed)
       \/ WebKit(t, {}, failed)

ClientRedirect == WebKit([ui EXCEPT !.delegate.isRedirect = TRUE], inFlight, failed)

OnLoad == /\ ui.isLoading /\ MainResource \notin inFlight
          /\ WebKit(DidHandleOnloadEvents(ui), inFlight, failed)

\* didFailProvisionalLoad, didFailLoad, unableToImplementPolicyWithError.
MainFrameFails ==
  \E code \in {"E_NETWORK", "E_BAD_URL"} :
    ui.isLoading /\ inFlight = {} /\ WebKit(DoResponseWithoutCheck(ui, code), inFlight, TRUE)

StopsLoading == /\ ui.isLoading /\ MainResource \notin inFlight
                /\ WebKit(DidStopLoading(ui), inFlight, failed)

WebKitEvent == \/ SendForResource \/ ResourceEnds \/ Navigate \/ ClientRedirect
               \/ OnLoad \/ MainFrameFails \/ StopsLoading

-----------------------------------------------------------------------------
(* The view. *)

WorkerTask(name, n, id) == [task |-> name, load |-> n, id |-> id]

\* Mutant: the view is given requests whether or not it asked.
ReceiverPostsUnasked ==
  /\ view # "crashed" /\ loads < MaxLoads
  /\ view' = "busy"
  /\ ui' = [ui EXCEPT !.tasks = Append(@, [task |-> "load", load |-> loads])]
  /\ UNCHANGED <<hasObserver, loads, identifier, inFlight, failed, workerTasks, timer, pipe, fired, answers>>

\* The receiver found a request for this view and posts loadRequest.
ReceiverPostsLoad ==
  /\ view = "asked" /\ loads < MaxLoads
  /\ view' = "busy"
  /\ ui' = [ui EXCEPT !.tasks = Append(@, [task |-> "load", load |-> loads])]
  /\ UNCHANGED <<hasObserver, loads, identifier, inFlight, failed, workerTasks, timer, pipe, fired, answers>>

\* What frame->loadRequest / loadData / loadHTMLString did when it returned:
\* the page is loading, or a policy error was reported, or nothing happened.
FrameLoaded(s) == {WillSendRequest(Navigated(s), MainResource), Navigated(s),
                   DoResponseWithoutCheck(s, "E_BAD_URL"), s}

\* BrowserView::load.
Load ==
  /\ view = "busy" /\ ui.tasks # <<>> /\ Head(ui.tasks).task = "load"
  /\ identifier' = identifier + 1 /\ loads' = loads + 1
  /\ workerTasks' = Append(workerTasks, WorkerTask("set", loads, identifier + 1))
  /\ \E afterWindowLoad \in WindowLoadOption, forbidden \in BOOLEAN :
       LET s == [ui EXCEPT !.tasks = Tail(@),
                           !.delegate = [Cleared EXCEPT !.forbidden = forbidden],
                           !.context = [load |-> loads, errorCode |-> "E_OK",
                                        afterWindowLoad |-> afterWindowLoad]]
       IN \E t \in FrameLoaded(s) :
            /\ ui' = IF ~t.isLoading /\ ~t.delegate.didResponse
                     THEN DoResponseWithoutCheck(t, "E_UNKNOWN") ELSE t
            /\ inFlight' = t.delegate.resources
            /\ failed' = ui'.delegate.didResponse
  /\ UNCHANGED <<hasObserver, view, timer, pipe, fired, answers>>

\* Mutant: the context outlives its answer.
PrepareKeepsContext(s) ==
  /\ ui' = Blanked(s) /\ inFlight' = {} /\ failed' = FALSE
  /\ view' = IF hasObserver THEN "deleted" ELSE "asked"

\* prepareDoNextRequest: forget the request, load about:blank, then ask again
\* or, when observed, be deleted: what the proxy of a deleted view posted finds
\* no context any more and does nothing.
PrepareDoNextRequest(s) ==
  LET t == Blanked([s EXCEPT !.context = NoContext]) IN
    /\ ui' = IF hasObserver THEN [t EXCEPT !.tasks = <<>>] ELSE t
    /\ inFlight' = {} /\ failed' = FALSE
    /\ view' = IF hasObserver THEN "deleted" ELSE "asked"

\* needDoResponse: not while the page has resources to wait for.
Declines(s) == \/ ~HasContext(s)
               \/ ~s.delegate.forbidden /\ s.delegate.resources # {}

\* What an answer posts to the worker; ~BrowserView stops the monitor again.
MonitorTask(name) == WorkerTask(name, loads - 1, identifier)
TasksNoStop == <<MonitorTask("callback")>> \* mutant
TasksOfAnswer ==
  <<MonitorTask("stop"), MonitorTask("callback")>>
    \o (IF hasObserver THEN <<MonitorTask("stop")>> ELSE <<>>)

DoResponseOnMainThread ==
  /\ view # "crashed" /\ ui.tasks # <<>> /\ Head(ui.tasks).task = "respond"
  /\ LET s == [ui EXCEPT !.tasks = Tail(@)] IN
       IF Declines(s)
         THEN ui' = s /\ UNCHANGED <<view, inFlight, failed, workerTasks, answers>>
         ELSE /\ workerTasks' = workerTasks \o TasksOfAnswer
              /\ answers' = Append(answers, [load |-> s.context.load,
                                             errorCode |-> s.context.errorCode])
              /\ PrepareDoNextRequest(s)
  /\ UNCHANGED <<hasObserver, loads, identifier, timer, pipe, fired>>

\* getBrowserView of a NolimitedTab group makes a view at the freed address.
NewViewAtAddress ==
  /\ view = "deleted" /\ loads < MaxLoads
  /\ view' = "asked" /\ identifier' = -1 /\ ui' \in NewUI
  /\ UNCHANGED <<hasObserver, loads, inFlight, failed, workerTasks, timer, pipe, fired, answers>>

\* What BrowserView::stopLoad leaves before its fallback: a main frame that is
\* loading fails, or it had committed and may just stop.
Stopped ==
  {StoppedLoading([ui EXCEPT !.delegate.timeout = TRUE], frameFails) :
     frameFails \in IF MainResource \in inFlight THEN {TRUE}
                   ELSE IF ui.isLoading THEN BOOLEAN ELSE {FALSE}}

StopLoadNoFallback(id) == \* mutant: "not do response!" is only logged
  IF id # identifier THEN UNCHANGED <<ui, inFlight>> ELSE inFlight' = {} /\ ui' \in Stopped

StopLoadAnyId(id) == \* mutant: the early return is missing
  /\ inFlight' = {}
  /\ \E s \in Stopped :
       ui' = IF s.delegate.didResponse THEN s ELSE DoResponseWithoutCheck(s, "E_CANCEL")

StopLoad(id) ==
  IF id # identifier
  THEN UNCHANGED <<ui, inFlight>>
  ELSE /\ inFlight' = {}
       /\ \E s \in Stopped :
            ui' = IF s.delegate.didResponse THEN s ELSE DoResponseWithoutCheck(s, "E_CANCEL")

\* HandleDispatch.  Nothing tells it that the view is gone: what it does to a
\* deleted one is undefined, here a crash or nothing.
DispatchStopMessage ==
  /\ view # "crashed" /\ pipe # <<>>
  /\ pipe' = Tail(pipe)
  /\ \/ view # "deleted" /\ StopLoad(Head(pipe)) /\ UNCHANGED view
     \/ view = "deleted" /\ view' \in {"deleted", "crashed"} /\ UNCHANGED <<ui, inFlight>>
  /\ UNCHANGED <<hasObserver, loads, identifier, failed, workerTasks, timer, fired, answers>>

-----------------------------------------------------------------------------
(* Worker thread: BrowserViewRequestMonitor. *)

RunWorkerTask ==
  /\ view # "crashed" /\ workerTasks # <<>>
  /\ workerTasks' = Tail(workerTasks)
  /\ \/ Head(workerTasks).task = "set" /\ timer' = Head(workerTasks)
     \/ Head(workerTasks).task = "stop" /\ timer' = NoTimer
     \/ Head(workerTasks).task = "callback" /\ UNCHANGED timer
  /\ UNCHANGED <<viewVars, pageVars, pipe, fired, answers>>

\* doTimeout, once, whenever the interval ends.
TimerFires ==
  /\ view # "crashed" /\ timer # NoTimer
  /\ pipe' = Append(pipe, timer.id)
  /\ fired' = fired \cup {timer.load}
  /\ timer' = NoTimer
  /\ UNCHANGED <<viewVars, pageVars, workerTasks, answers>>

-----------------------------------------------------------------------------
Next == \/ WebKitEvent \/ ReceiverPostsLoad
        \/ Load \/ DoResponseOnMainThread \/ NewViewAtAddress \/ DispatchStopMessage
        \/ RunWorkerTask \/ TimerFires

\* Message loops, pipe and timer make progress; WebKit and the network need not.
Fairness == /\ WF_vars(Load \/ DoResponseOnMainThread)
            /\ WF_vars(DispatchStopMessage)
            /\ WF_vars(RunWorkerTask)
            /\ WF_vars(TimerFires)

Spec == Init /\ [][Next]_vars /\ Fairness

-----------------------------------------------------------------------------
(* Properties. *)

\* The callbacks answer the requests one for one, in the order they were
\* loaded, although a load may post doResponseOnMainThread many times.
AnswersInOrder == \A i \in DOMAIN answers : answers[i].load = i - 1

\* A doResponseOnMainThread left over from one load never runs while a later
\* load has its context: the next loadRequest travels through the receiver and
\* is behind it in the main loop.
NoStaleResponse ==
  \A i \in DOMAIN ui.tasks :
    ui.tasks[i].task = "respond" =>
      /\ HasContext(ui) => ui.tasks[i].load = ui.context.load
      /\ \A j \in 1..(i - 1) : ui.tasks[j].task # "load"

\* What BrowserViewRequestMonitor tells a view's loads apart by, m_identifier, is
\* enough: only a load whose own timer fired is answered with E_TIMEOUT, and a
\* stop message that comes after its load was answered does not touch the next.
TimeoutOnlyWhenFired ==
  \A i \in DOMAIN answers : answers[i].errorCode = "E_TIMEOUT" => answers[i].load \in fired

\* It is, for the loads of a view that is kept.
KeptTimeoutOnlyWhenFired == ~hasObserver => TimeoutOnlyWhenFired

\* Once the worker has run what was posted to it, no timer runs but that of the
\* load that is waiting for its answer.
NoOrphanTimer ==
  workerTasks = <<>> /\ timer # NoTimer => HasContext(ui) /\ timer.load = ui.context.load

\* What is left over from an earlier load, in the main loop or on the worker,
\* cannot reach the present one.
NothingLeftOver == TypeOK /\ NoStaleResponse /\ NoOrphanTimer

Answered(id) == \E i \in DOMAIN answers : answers[i].load = id

\* Every load is answered, at the latest after its timer fired, even if WebKit
\* never reports anything.
EveryLoadAnswered == \A id \in LoadIds : (ui.context.load = id) ~> (Answered(id) \/ view = "crashed")
=============================================================================
