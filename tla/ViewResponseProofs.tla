------------------------- MODULE ViewResponseProofs -------------------------
(***************************************************************************)
(* ViewResponse.tla for every page, every number of loads and tasks and     *)
(* every choice of options, safety only.                                    *)
(*                                                                          *)
(* The callbacks of BrowserViewDelegate call one another; all that a proof  *)
(* needs of any chain of them is Reports(s, t), a relation that is          *)
(* reflexive and transitive: the context keeps its load, responses of that  *)
(* load are appended to the main loop, and nothing sets the delegate's      *)
(* m_timeout.  IInv then says where the one request of a view is (PhaseInv, *)
(* TasksInv), how many were answered (AnswersInv), that every timer but the *)
(* present load's is followed by its stop (MonitorInv), and, for a view     *)
(* that is kept, that m_identifier is the number of its load (KeptInv).     *)
(***************************************************************************)
EXTENDS ViewResponse, TLAPS, SequenceTheorems

USE MaxLoadsAssumption, OptionAssumption

\* The types of the delegate, the context and the main loop's tasks.
Delegates == [resources : SUBSET Resources, didFinishLoad : BOOLEAN,
              windowLoaded : BOOLEAN, timeout : BOOLEAN, didResponse : BOOLEAN,
              forbidden : BOOLEAN, isRedirect : BOOLEAN]
Contexts == [load : LoadIds \cup {-1}, afterWindowLoad : BOOLEAN, errorCode : Codes]
MainTasks == [task : {"respond", "load"}, load : LoadIds]

\* A UI state whose context is a load's or none: a context without a load holds
\* nothing else either.
Whole(s) == s \in UIState /\ (HasContext(s) <=> s.context.load # -1)

\* The task that prepareDoResponse posts.
Respond(n) == [task |-> "respond", load |-> n]

\* What a chain of callbacks may make of s.
Reports(s, t) ==
  /\ Whole(t)
  /\ HasContext(t) <=> HasContext(s)
  /\ t.context.load = s.context.load
  /\ Len(s.tasks) <= Len(t.tasks)
  /\ \A i \in 1..Len(t.tasks) :
       IF i <= Len(s.tasks) THEN t.tasks[i] = s.tasks[i]
       ELSE HasContext(s) /\ t.tasks[i] = Respond(s.context.load)
  /\ t.delegate.timeout => s.delegate.timeout
  /\ t.context.errorCode = "E_TIMEOUT" => s.delegate.timeout \/ s.context.errorCode = "E_TIMEOUT"

-----------------------------------------------------------------------------
(* BrowserViewDelegate's callbacks. *)

\* The fields of a UI state.
LEMMA UIFields ==
  ASSUME NEW s \in UIState
  PROVE  /\ s.isLoading \in BOOLEAN /\ s.delegate \in Delegates /\ s.context \in Contexts
         /\ s.tasks \in Seq(MainTasks)
         /\ s = [isLoading |-> s.isLoading, delegate |-> s.delegate, context |-> s.context,
                 tasks |-> s.tasks]
  BY DEF UIState, Delegates, Contexts, MainTasks

\* No callback at all ...
LEMMA ReportsRefl ==
  ASSUME NEW s, Whole(s)
  PROVE  Reports(s, s)
<1>1. s.tasks \in Seq(MainTasks)
  BY UIFields DEF Whole
<1>2. Len(s.tasks) \in Nat
  BY <1>1, LenProperties
<1> QED
  BY <1>2 DEF Reports

\* ... and one after the other, as the functions of the delegate call
\* each other.
LEMMA ReportsTrans ==
  ASSUME NEW s, NEW t, NEW u, Whole(s), Reports(s, t), Reports(t, u)
  PROVE  Reports(s, u)
<1>1. s.tasks \in Seq(MainTasks) /\ t.tasks \in Seq(MainTasks) /\ u.tasks \in Seq(MainTasks)
  BY UIFields DEF Whole, Reports
<1>2. Len(s.tasks) \in Nat /\ Len(t.tasks) \in Nat /\ Len(u.tasks) \in Nat
  BY <1>1, LenProperties
<1>3. ASSUME NEW i \in 1..Len(u.tasks)
      PROVE  IF i <= Len(s.tasks) THEN u.tasks[i] = s.tasks[i]
             ELSE HasContext(s) /\ u.tasks[i] = Respond(s.context.load)
  BY <1>2, <1>3 DEF Reports
<1> QED
  BY <1>2, <1>3 DEF Reports

\* A callback that sets fields of the delegate, m_timeout not among them.
LEMMA SetDelegate ==
  ASSUME NEW s, Whole(s), NEW d \in Delegates, d.timeout => s.delegate.timeout
  PROVE  Reports(s, [s EXCEPT !.delegate = d])
<1> DEFINE t == [s EXCEPT !.delegate = d]
<1>1. t \in UIState /\ t.context = s.context /\ t.tasks = s.tasks /\ t.delegate = d
  BY DEF Whole, UIState, Delegates
<1>2. Len(s.tasks) \in Nat
  BY UIFields, LenProperties DEF Whole
<1> HIDE DEF t
<1>3. HasContext(t) <=> HasContext(s)
  BY <1>1 DEF HasContext
<1>4. Reports(s, t)
  BY <1>1, <1>2, <1>3 DEF Whole, Reports
<1> QED
  BY <1>4 DEF t

\* A callback that sets m_isloading.
LEMMA SetLoading ==
  ASSUME NEW s, Whole(s), NEW b \in BOOLEAN
  PROVE  Reports(s, [s EXCEPT !.isLoading = b])
<1> DEFINE t == [s EXCEPT !.isLoading = b]
<1>1. t \in UIState /\ t.context = s.context /\ t.tasks = s.tasks /\ t.delegate = s.delegate
  BY DEF Whole, UIState
<1>2. Len(s.tasks) \in Nat
  BY UIFields, LenProperties DEF Whole
<1> HIDE DEF t
<1>3. HasContext(t) <=> HasContext(s)
  BY <1>1 DEF HasContext
<1>4. Reports(s, t)
  BY <1>1, <1>2, <1>3 DEF Whole, Reports
<1> QED
  BY <1>4 DEF t

\* prepareDoResponse posts a response of the context's load, and turns the
\* error into E_TIMEOUT only when m_timeout says so.
LEMMA PostReports ==
  ASSUME NEW s, Whole(s), HasContext(s), NEW code \in Codes \ {"E_TIMEOUT"}
  PROVE  Reports(s, PostResponse(s, code))
<1> DEFINE t == PostResponse(s, code)
           c == [s.context EXCEPT !.errorCode = IF s.delegate.timeout THEN "E_TIMEOUT" ELSE code]
           d == [s.delegate EXCEPT !.didResponse = TRUE]
           r == Respond(s.context.load)
<1>1. s \in UIState /\ s.delegate \in Delegates /\ s.context \in Contexts
      /\ s.tasks \in Seq(MainTasks)
  BY UIFields DEF Whole
<1>2. s.context.load \in LoadIds
  BY <1>1 DEF Whole, Contexts
<1>3. c \in Contexts /\ c.load = s.context.load /\ d \in Delegates /\ d.timeout = s.delegate.timeout
  BY <1>1 DEF Contexts, Delegates, Codes
<1>4. c.errorCode = "E_TIMEOUT" => s.delegate.timeout
  BY <1>1 DEF Contexts
<1>5. r \in MainTasks
  BY <1>2 DEF MainTasks, Respond
<1>6. /\ Append(s.tasks, r) \in Seq(MainTasks)
      /\ Len(Append(s.tasks, r)) = Len(s.tasks) + 1
      /\ \A i \in 1..(Len(s.tasks) + 1) :
           Append(s.tasks, r)[i] = IF i <= Len(s.tasks) THEN s.tasks[i] ELSE r
      /\ Len(s.tasks) \in Nat
  BY <1>1, <1>5, AppendProperties, LenProperties
<1>7. t = [[[s EXCEPT !.context = c] EXCEPT !.tasks = Append(s.tasks, r)] EXCEPT !.delegate = d]
  BY <1>1, UIFields DEF PostResponse, Respond, UIState, Delegates, Contexts
<1> HIDE DEF t, c, d, r
<1>8. [s EXCEPT !.context = c] \in UIState
  BY <1>1, <1>3 DEF UIState, Contexts, Delegates
<1>9. [[s EXCEPT !.context = c] EXCEPT !.tasks = Append(s.tasks, r)] \in UIState
  BY <1>6, <1>8 DEF UIState, MainTasks
<1>10. t \in UIState /\ t.context = c /\ t.delegate = d /\ t.tasks = Append(s.tasks, r)
  BY <1>1, <1>3, <1>7, <1>9 DEF UIState, Delegates
<1>11. s.context.load # -1
  BY DEF Whole
<1>12. HasContext(t)
  BY <1>3, <1>10, <1>11 DEF HasContext, NoContext
<1>13. Reports(s, t)
  BY <1>3, <1>4, <1>6, <1>10, <1>11, <1>12 DEF Whole, Reports, r
<1> QED
  BY <1>13 DEF t

\* checkDoResponse posts a response or nothing.
LEMMA CheckReports ==
  ASSUME NEW s, Whole(s)
  PROVE  Reports(s, CheckDoResponse(s))
<1>1. CASE CheckDoResponse(s) = s
  BY <1>1, ReportsRefl
<1>2. CASE HasContext(s) /\ CheckDoResponse(s) = PostResponse(s, "E_OK")
  BY <1>2, PostReports DEF Codes
<1> QED
  BY <1>1, <1>2 DEF CheckDoResponse

\* So does doResponseWithoutCheck; only m_timeout makes an error E_TIMEOUT.
LEMMA WithoutCheckReports ==
  ASSUME NEW s, Whole(s), NEW code \in Codes \ {"E_TIMEOUT"}
  PROVE  Reports(s, DoResponseWithoutCheck(s, code))
  BY PostReports, ReportsRefl DEF DoResponseWithoutCheck

\* reset() clears m_timeout with the rest.
LEMMA ResetReports ==
  ASSUME NEW s, Whole(s)
  PROVE  Reports(s, Reset(s))
<1>1. Cleared \in Delegates /\ Cleared.timeout = FALSE
  BY DEF Cleared, Delegates
<1> QED
  BY <1>1, SetDelegate DEF Reset

\* The single fields that callbacks set.
LEMMA SetFlags ==
  ASSUME NEW s, Whole(s), NEW b \in BOOLEAN, NEW rs \in SUBSET Resources
  PROVE  /\ Reports(s, [s EXCEPT !.delegate.didFinishLoad = b])
         /\ Reports(s, [s EXCEPT !.delegate.windowLoaded = b])
         /\ Reports(s, [s EXCEPT !.delegate.isRedirect = b])
         /\ Reports(s, [s EXCEPT !.delegate.resources = rs])
<1> DEFINE d == s.delegate
<1>1. s \in UIState /\ d \in Delegates
  BY UIFields DEF Whole
<1>2. /\ [d EXCEPT !.didFinishLoad = b] \in Delegates
      /\ [d EXCEPT !.windowLoaded = b] \in Delegates
      /\ [d EXCEPT !.isRedirect = b] \in Delegates
      /\ [d EXCEPT !.resources = rs] \in Delegates
  BY <1>1 DEF Delegates
<1>3. /\ [d EXCEPT !.didFinishLoad = b].timeout = d.timeout
      /\ [d EXCEPT !.windowLoaded = b].timeout = d.timeout
      /\ [d EXCEPT !.isRedirect = b].timeout = d.timeout
      /\ [d EXCEPT !.resources = rs].timeout = d.timeout
  BY <1>1 DEF Delegates
<1>4. Reports(s, [s EXCEPT !.delegate = [d EXCEPT !.didFinishLoad = b]])
  BY <1>2, <1>3, SetDelegate
<1>5. Reports(s, [s EXCEPT !.delegate = [d EXCEPT !.windowLoaded = b]])
  BY <1>2, <1>3, SetDelegate
<1>6. Reports(s, [s EXCEPT !.delegate = [d EXCEPT !.isRedirect = b]])
  BY <1>2, <1>3, SetDelegate
<1>7. Reports(s, [s EXCEPT !.delegate = [d EXCEPT !.resources = rs]])
  BY <1>2, <1>3, SetDelegate
<1> QED
  BY <1>4, <1>5, <1>6, <1>7

\* didStartLoading.
LEMMA StartReports ==
  ASSUME NEW s, Whole(s)
  PROVE  Reports(s, DidStartLoading(s))
<1> DEFINE t == [s EXCEPT !.isLoading = TRUE]
<1>1. Reports(s, t) /\ Whole(t)
  BY SetLoading DEF Reports
<1> HIDE DEF t
<1>2. Reports(s, Reset(t))
  BY <1>1, ResetReports, ReportsTrans
<1> QED
  BY <1>1, <1>2 DEF DidStartLoading, t

\* didStopLoading.
LEMMA StopReports ==
  ASSUME NEW s, Whole(s)
  PROVE  Reports(s, DidStopLoading(s))
<1> DEFINE t == [s EXCEPT !.isLoading = FALSE]
           u == [t EXCEPT !.delegate.didFinishLoad = TRUE]
<1>1. Reports(s, t) /\ Whole(t)
  BY SetLoading DEF Reports
<1>2. Reports(t, u) /\ Whole(u)
  <2> HIDE DEF t
  <2> QED
    BY <1>1, SetFlags DEF Reports
<1> HIDE DEF u
<1>3. Reports(u, CheckDoResponse(u))
  BY <1>2, CheckReports
<1> HIDE DEF t
<1>4. Reports(t, CheckDoResponse(u))
  BY <1>1, <1>2, <1>3, ReportsTrans
<1>5. Reports(s, CheckDoResponse(u))
  BY <1>1, <1>4, ReportsTrans
<1> QED
  BY <1>1, <1>5 DEF DidStopLoading, t, u

\* willSendRequest.
LEMMA SendReports ==
  ASSUME NEW s, Whole(s), NEW r \in Resources
  PROVE  Reports(s, WillSendRequest(s, r))
<1>1. s \in UIState /\ s.delegate \in Delegates
  BY UIFields DEF Whole
<1>2. s.delegate.resources \cup {r} \in SUBSET Resources
  BY <1>1 DEF Delegates
<1> QED
  BY <1>2, SetFlags DEF WillSendRequest

\* didFinishResourceLoad and didFailResourceLoad of some resources.
LEMMA EndReports ==
  ASSUME NEW s, Whole(s), NEW rs
  PROVE  Reports(s, ResourcesEnd(s, rs))
<1> DEFINE left == s.delegate.resources \ rs
           t == [s EXCEPT !.delegate.resources = left]
<1>1. s \in UIState /\ s.delegate \in Delegates
  BY UIFields DEF Whole
<1>2. left \in SUBSET Resources
  BY <1>1 DEF Delegates
<1>3. Reports(s, t) /\ Whole(t)
  <2> HIDE DEF left
  <2>1. Reports(s, t)
    BY <1>2, SetFlags
  <2> QED
    BY <2>1 DEF Reports
<1> HIDE DEF t
<1>4. Reports(s, CheckDoResponse(t))
  BY <1>3, CheckReports, ReportsTrans
<1> QED
  BY <1>3, <1>4 DEF ResourcesEnd, t, left

\* didHandleOnloadEvents.
LEMMA OnloadReports ==
  ASSUME NEW s, Whole(s)
  PROVE  Reports(s, DidHandleOnloadEvents(s))
<1> DEFINE t == [s EXCEPT !.delegate.windowLoaded = TRUE]
<1>1. Reports(s, t) /\ Whole(t)
  BY SetFlags DEF Reports
<1> HIDE DEF t
<1>2. Reports(s, CheckDoResponse(t))
  BY <1>1, CheckReports, ReportsTrans
<1> QED
  BY <1>2, ReportsRefl DEF DidHandleOnloadEvents, t

\* WebFrame::stopLoading with the callbacks it makes.
LEMMA StoppedLoadingReports ==
  ASSUME NEW s, Whole(s), NEW frameFails \in BOOLEAN
  PROVE  Reports(s, StoppedLoading(s, frameFails))
<1> DEFINE a == ResourcesEnd(s, inFlight)
           b == IF frameFails THEN DoResponseWithoutCheck(a, "E_NETWORK") ELSE a
<1>1. Reports(s, a) /\ Whole(a)
  BY EndReports DEF Reports
<1> HIDE DEF a
<1>2. Reports(a, b) /\ Whole(b)
  BY <1>1, WithoutCheckReports, ReportsRefl DEF Codes, Reports
<1> HIDE DEF b
<1>3. Reports(b, DidStopLoading(b))
  BY <1>2, StopReports
<1>4. Reports(s, b) /\ Reports(a, DidStopLoading(b))
  BY <1>1, <1>2, <1>3, ReportsTrans
<1>5. Reports(s, DidStopLoading(b))
  BY <1>1, <1>4, ReportsTrans
<1> QED
  BY <1>4, <1>5 DEF StoppedLoading, a, b

\* The frame goes to another page.
LEMMA NavigatedReports ==
  ASSUME NEW s, Whole(s)
  PROVE  Reports(s, Navigated(s))
<1> DEFINE a == ResourcesEnd(s, inFlight)
<1>1. Reports(s, a) /\ Whole(a)
  BY EndReports DEF Reports
<1> HIDE DEF a
<1>2. Reports(s, DidStartLoading(a))
  BY <1>1, StartReports, ReportsTrans
<1> QED
  BY <1>2 DEF Navigated, a

\* The frame is sent to about:blank.
LEMMA BlankedReports ==
  ASSUME NEW s, Whole(s)
  PROVE  Reports(s, Blanked(s))
<1> DEFINE a == StoppedLoading(s, FALSE)
           b == DidStartLoading(a)
<1>1. Reports(s, a)
  BY StoppedLoadingReports
<1>2. Whole(a)
  BY <1>1 DEF Reports
<1> HIDE DEF a
<1>3. Reports(s, b) /\ Whole(b)
  BY <1>1, <1>2, StartReports, ReportsTrans DEF Reports
<1> HIDE DEF b
<1>4. Reports(s, DidStopLoading(b))
  BY <1>3, StopReports, ReportsTrans
<1> QED
  BY <1>4 DEF Blanked, a, b

\* What loadRequest, loadData and loadHTMLString report before they return.
LEMMA FrameLoadedReports ==
  ASSUME NEW s, Whole(s), NEW t \in FrameLoaded(s)
  PROVE  Reports(s, t)
<1>1. Reports(s, Navigated(s)) /\ Whole(Navigated(s))
  BY NavigatedReports DEF Reports
<1>2. Reports(s, WillSendRequest(Navigated(s), MainResource))
  BY <1>1, SendReports, ReportsTrans DEF Resources
<1>3. Reports(s, DoResponseWithoutCheck(s, "E_BAD_URL"))
  BY WithoutCheckReports DEF Codes
<1> QED
  BY <1>1, <1>2, <1>3, ReportsRefl DEF FrameLoaded

-----------------------------------------------------------------------------
(* The invariant. *)

\* The types of the worker loop's tasks.
WorkerTasks == [task : {"set", "stop", "callback"}, load : LoadIds, id : LoadIds]

\* The load that has its context; whether load n is that one; the task is a
\* loadRequest.
Current == ui.context.load
OfPresent(n) == HasContext(ui) /\ n = Current
IsLoad(i) == ui.tasks[i].task = "load"

\* The view has a request exactly from the post of loadRequest to its answer,
\* first as the last task of the main loop, then as its context.
PhaseInv ==
  /\ HasContext(ui) <=> Current # -1
  /\ HasContext(ui) => view = "busy" /\ identifier >= 0 /\ Current = loads - 1
  /\ view = "busy" /\ ~HasContext(ui) =>
       ui.tasks # <<>> /\ ui.tasks[Len(ui.tasks)] = [task |-> "load", load |-> loads]
  /\ view \in {"deleted", "crashed"} => hasObserver /\ ui.tasks = <<>>

\* Nothing is behind a loadRequest in the main loop, and while a load has its
\* context every response that is on its way is its own.
TasksInv ==
  \A i \in DOMAIN ui.tasks :
    /\ IsLoad(i) => view = "busy" /\ ~HasContext(ui) /\ i = Len(ui.tasks)
    /\ ~IsLoad(i) /\ HasContext(ui) => ui.tasks[i].load = Current

\* Every load but the one that has its context was answered, in order.
AnswersInv ==
  /\ AnswersInOrder
  /\ Len(answers) = IF HasContext(ui) THEN Current ELSE loads

\* A timer that is not the present load's, running or about to be set, is
\* followed by its stop.
MonitorInv ==
  /\ timer # NoTimer /\ ~OfPresent(timer.load) =>
       \E j \in DOMAIN workerTasks : workerTasks[j].task = "stop"
  /\ \A i \in DOMAIN workerTasks :
       workerTasks[i].task = "set" /\ ~OfPresent(workerTasks[i].load) =>
         \E j \in DOMAIN workerTasks : i < j /\ workerTasks[j].task = "stop"

\* A view that is kept numbers its loads as they are, so m_identifier tells
\* whose stop message it got.
KeptInv ==
  ~hasObserver =>
    /\ identifier = loads - 1
    /\ \A i \in DOMAIN workerTasks : workerTasks[i].id = workerTasks[i].load
    /\ timer.id = timer.load
    /\ \A i \in DOMAIN pipe : pipe[i] \in fired
    /\ HasContext(ui) /\ ui.delegate.timeout => Current \in fired
    /\ HasContext(ui) /\ ui.context.errorCode = "E_TIMEOUT" => Current \in fired
    /\ TimeoutOnlyWhenFired

\* The inductive invariant.
IInv == TypeOK /\ PhaseInv /\ TasksInv /\ AnswersInv /\ MonitorInv /\ KeptInv

\* What Tail does to a sequence that is not empty, as the loops use it.
LEMMA Popped ==
  ASSUME NEW S, NEW q \in Seq(S), q # <<>>
  PROVE  /\ Head(q) \in S /\ Head(q) = q[1]
         /\ Tail(q) \in Seq(S) /\ Len(q) \in Nat \ {0} /\ DOMAIN q = 1..Len(q)
         /\ Len(Tail(q)) = Len(q) - 1 /\ DOMAIN Tail(q) = 1..(Len(q) - 1)
         /\ \A i \in 1..(Len(q) - 1) : Tail(q)[i] = q[i + 1]
<1>1. Tail(q) \in Seq(S) /\ Len(Tail(q)) = Len(q) - 1 /\ Head(q) \in S
      /\ \A i \in 1..Len(Tail(q)) : Tail(q)[i] = q[i + 1]
  BY HeadTailProperties
<1>2. DOMAIN Tail(q) = 1..Len(Tail(q))
  BY <1>1, LenProperties
<1>3. Len(q) \in Nat \ {0} /\ DOMAIN q = 1..Len(q)
  BY EmptySeq, LenProperties
<1> QED
  BY <1>1, <1>2, <1>3

\* The types the steps need, of the UI state's fields above all.
LEMMA Types ==
  ASSUME TypeOK, PhaseInv
  PROVE  /\ Whole(ui) /\ HasContext(ui) \in BOOLEAN
         /\ ui.delegate \in Delegates /\ ui.context \in Contexts /\ ui.tasks \in Seq(MainTasks)
         /\ workerTasks \in Seq(WorkerTasks)
         /\ HasContext(ui) => Current \in LoadIds
         /\ LoadIds \subseteq Nat /\ -1 \notin LoadIds
<1>1. Whole(ui)
  BY DEF TypeOK, PhaseInv, Whole, Current
<1> QED
  BY <1>1, UIFields DEF TypeOK, WorkerTasks, Whole, Contexts, Current, LoadIds, HasContext

\* A step that changes the page through callbacks alone keeps the invariant: it
\* starts from the view's state, or, for a stop message, from that state with
\* m_timeout set by a timer that fired.
LEMMA ReportsKeep ==
  ASSUME IInv, NEW s, Whole(s), s.context = ui.context, s.tasks = ui.tasks,
         ~hasObserver /\ HasContext(ui) /\ s.delegate.timeout => Current \in fired,
         Reports(s, ui'), inFlight' \in SUBSET Resources, failed' \in BOOLEAN,
         pipe' \in Seq(LoadIds),
         \A i \in DOMAIN pipe' : \E j \in DOMAIN pipe : pipe'[i] = pipe[j],
         UNCHANGED <<viewVars, workerTasks, timer, fired, answers>>
  PROVE  IInv'
<1> USE DEF IInv
<1>1. UNCHANGED <<hasObserver, loads, identifier, view>>
  BY DEF viewVars
<1>2. HasContext(s) <=> HasContext(ui)
  BY DEF HasContext
<1>3. Whole(ui') /\ (HasContext(ui') <=> HasContext(ui)) /\ ui'.context.load = ui.context.load
  BY <1>2 DEF Reports
<1>4. /\ ui.tasks \in Seq(MainTasks) /\ DOMAIN ui.tasks = 1..Len(ui.tasks) /\ Len(ui.tasks) \in Nat
      /\ ui'.tasks \in Seq(MainTasks) /\ DOMAIN ui'.tasks = 1..Len(ui'.tasks) /\ Len(ui'.tasks) \in Nat
  BY <1>3, Types, UIFields, LenProperties DEF Whole
<1>5. /\ Len(ui.tasks) <= Len(ui'.tasks)
      /\ \A i \in 1..Len(ui'.tasks) :
           IF i <= Len(ui.tasks) THEN ui'.tasks[i] = ui.tasks[i]
           ELSE HasContext(ui) /\ ui'.tasks[i] = Respond(ui.context.load)
  BY <1>2 DEF Reports
<1>6. ~HasContext(ui) => Len(ui'.tasks) = Len(ui.tasks)
  BY <1>4, <1>5
<1>7. TypeOK'
  BY <1>1, <1>3 DEF TypeOK, Whole
<1>8. PhaseInv'
  <2>1. HasContext(ui') <=> Current' # -1
    BY <1>3 DEF Whole, Current
  <2>2. HasContext(ui') => view' = "busy" /\ identifier' >= 0 /\ Current' = loads' - 1
    BY <1>1, <1>3 DEF PhaseInv, Current
  <2>3. ASSUME view' = "busy", ~HasContext(ui')
        PROVE  ui'.tasks # <<>> /\ ui'.tasks[Len(ui'.tasks)] = [task |-> "load", load |-> loads']
    <3>1. ui.tasks # <<>> /\ ui.tasks[Len(ui.tasks)] = [task |-> "load", load |-> loads]
      BY <1>1, <1>3, <2>3 DEF PhaseInv
    <3>2. Len(ui.tasks) \in DOMAIN ui.tasks
      BY <1>4, <3>1, EmptySeq
    <3>3. Len(ui'.tasks) = Len(ui.tasks) /\ Len(ui'.tasks) # 0
      BY <1>3, <1>4, <1>6, <2>3, <3>2
    <3> QED
      BY <1>1, <1>4, <1>5, <3>1, <3>2, <3>3, EmptySeq
  <2>4. ASSUME view' \in {"deleted", "crashed"}
        PROVE  hasObserver' /\ ui'.tasks = <<>>
    <3>1. hasObserver /\ ui.tasks = <<>> /\ ~HasContext(ui)
      BY <1>1, <2>4 DEF PhaseInv
    <3>2. Len(ui'.tasks) = 0
      BY <1>6, <3>1, EmptySeq
    <3> QED
      BY <1>1, <1>4, <3>1, <3>2, EmptySeq
  <2> QED
    BY <2>1, <2>2, <2>3, <2>4 DEF PhaseInv
<1>9. TasksInv'
  <2> SUFFICES ASSUME NEW i \in 1..Len(ui'.tasks)
               PROVE  /\ ui'.tasks[i].task = "load" =>
                           view' = "busy" /\ ~HasContext(ui') /\ i = Len(ui'.tasks)
                      /\ ui'.tasks[i].task # "load" /\ HasContext(ui') =>
                           ui'.tasks[i].load = Current'
    BY <1>4 DEF TasksInv, IsLoad
  <2>1. CASE i <= Len(ui.tasks)
    <3>1. i \in DOMAIN ui.tasks /\ ui'.tasks[i] = ui.tasks[i]
      BY <1>4, <1>5, <2>1
    <3> QED
      BY <1>1, <1>3, <1>6, <3>1 DEF TasksInv, IsLoad, Current
  <2>2. CASE ~(i <= Len(ui.tasks))
    BY <1>3, <1>5, <2>2 DEF Respond, Current
  <2> QED
    BY <2>1, <2>2
<1>10. AnswersInv'
  BY <1>1, <1>3 DEF AnswersInv, AnswersInOrder, Current
<1>11. \A n : OfPresent(n)' <=> OfPresent(n)
  BY <1>3 DEF OfPresent, Current
<1>12. MonitorInv'
  <2>1. OfPresent(timer.load)' <=> OfPresent(timer.load)
    BY <1>3 DEF OfPresent, Current
  <2>2. \A i \in DOMAIN workerTasks : OfPresent(workerTasks[i].load)' <=> OfPresent(workerTasks[i].load)
    BY <1>3 DEF OfPresent, Current
  <2> QED
    BY <2>1, <2>2 DEF MonitorInv
<1>13. KeptInv'
  <2> SUFFICES ASSUME ~hasObserver
               PROVE  /\ identifier' = loads' - 1
                      /\ \A i \in DOMAIN workerTasks' : workerTasks'[i].id = workerTasks'[i].load
                      /\ timer'.id = timer'.load
                      /\ \A i \in DOMAIN pipe' : pipe'[i] \in fired'
                      /\ HasContext(ui') /\ ui'.delegate.timeout => Current' \in fired'
                      /\ HasContext(ui') /\ ui'.context.errorCode = "E_TIMEOUT" => Current' \in fired'
                      /\ TimeoutOnlyWhenFired'
    BY <1>1 DEF KeptInv
  <2>1. HasContext(ui) /\ (s.delegate.timeout \/ ui.context.errorCode = "E_TIMEOUT") => Current \in fired
    BY DEF KeptInv
  <2>2. ui'.delegate.timeout => s.delegate.timeout
    BY DEF Reports
  <2>3. ui'.context.errorCode = "E_TIMEOUT" => s.delegate.timeout \/ ui.context.errorCode = "E_TIMEOUT"
    BY DEF Reports
  <2>4. \A i \in DOMAIN pipe' : pipe'[i] \in fired'
    BY DEF KeptInv
  <2>5. TimeoutOnlyWhenFired'
    BY DEF KeptInv, TimeoutOnlyWhenFired
  <2> QED
    BY <1>1, <1>3, <2>1, <2>2, <2>3, <2>4, <2>5 DEF KeptInv, Current
<1> QED
  BY <1>7, <1>8, <1>9, <1>10, <1>12, <1>13

-----------------------------------------------------------------------------
(* The steps. *)

\* The constructors: no context, no task.
LEMMA NewUIState ==
  ASSUME NEW s \in NewUI
  PROVE  Whole(s) /\ ~HasContext(s) /\ s.tasks = <<>> /\ s.context.load = -1
<1>1. PICK b \in BOOLEAN :
        s = [isLoading |-> FALSE, delegate |-> [Cleared EXCEPT !.windowLoaded = b],
             context |-> NoContext, tasks |-> <<>>]
  BY DEF NewUI
<1>2. [Cleared EXCEPT !.windowLoaded = b] \in Delegates
  BY DEF Cleared, Delegates
<1>3. NoContext \in Contexts /\ NoContext.load = -1
  BY DEF NoContext, Contexts, Codes
<1>4. <<>> \in Seq(MainTasks)
  BY EmptySeq
<1>5. s \in UIState
  BY <1>1, <1>2, <1>3, <1>4 DEF UIState, Delegates, Contexts, MainTasks
<1> QED
  BY <1>1, <1>3, <1>5 DEF Whole, HasContext

\* The invariant holds of a new view.
LEMMA InitInv == Init => IInv
<1> SUFFICES ASSUME Init PROVE IInv
  OBVIOUS
<1>1. Whole(ui) /\ ~HasContext(ui) /\ ui.tasks = <<>> /\ ui.context.load = -1
  BY NewUIState DEF Init
<1>2. \A S : <<>> \in Seq(S) /\ Len(<<>>) = 0 /\ DOMAIN <<>> = {}
  BY EmptySeq
<1>3. TypeOK
  <2>1. workerTasks \in Seq([task : {"set", "stop", "callback"}, load : LoadIds, id : LoadIds])
        /\ pipe \in Seq(LoadIds) /\ answers \in Seq([load : LoadIds, errorCode : Codes])
    BY <1>2 DEF Init
  <2>2. hasObserver \in BOOLEAN /\ failed \in BOOLEAN
    BY DEF Init
  <2>3. loads \in 0..MaxLoads /\ identifier \in -1..(loads - 1)
    BY DEF Init
  <2>4. timer \in {NoTimer} /\ inFlight \in SUBSET Resources /\ fired \in SUBSET LoadIds
        /\ view \in {"asked", "busy", "deleted", "crashed"}
    BY DEF Init
  <2> QED
    BY <1>1, <2>1, <2>2, <2>3, <2>4 DEF TypeOK, Whole
<1>4. PhaseInv
  BY <1>1 DEF Init, PhaseInv, Current
<1>5. TasksInv
  BY <1>1, <1>2 DEF TasksInv
<1>6. AnswersInv
  BY <1>1, <1>2 DEF Init, AnswersInv, AnswersInOrder
<1>7. MonitorInv
  BY <1>2 DEF Init, MonitorInv
<1>8. KeptInv
  BY <1>1, <1>2 DEF Init, KeptInv, TimeoutOnlyWhenFired, NoTimer
<1> QED
  BY <1>3, <1>4, <1>5, <1>6, <1>7, <1>8 DEF IInv

\* Every WebKit event is a chain of callbacks and changes nothing beyond the page.
LEMMA WebKitEventReports ==
  ASSUME IInv, WebKitEvent
  PROVE  /\ Reports(ui, ui') /\ inFlight' \in SUBSET Resources /\ failed' \in BOOLEAN
         /\ UNCHANGED <<viewVars, workerTasks, timer, pipe, fired, answers>>
<1>1. Whole(ui) /\ inFlight \in SUBSET Resources /\ failed \in BOOLEAN
  BY Types DEF IInv, TypeOK
<1>2. CASE SendForResource
  <2>1. PICK r \in SubResources \ inFlight :
          \/ WebKit(WillSendRequest(ui, r), inFlight \cup {r}, failed)
          \/ WebKit(ResourcesEnd(ui, {r}), inFlight, failed)
    BY <1>2 DEF SendForResource
  <2>2. r \in Resources /\ inFlight \cup {r} \in SUBSET Resources
    BY <1>1 DEF Resources
  <2> QED
    BY <1>1, <2>1, <2>2, SendReports, EndReports DEF WebKit
<1>3. CASE ResourceEnds
  BY <1>1, <1>3, EndReports DEF ResourceEnds, WebKit
<1>4. CASE Navigate
  <2>1. MainResource \in Resources /\ {MainResource} \in SUBSET Resources /\ {} \in SUBSET Resources
    BY DEF Resources
  <2>2. Reports(ui, Navigated(ui)) /\ Whole(Navigated(ui))
    BY <1>1, NavigatedReports DEF Reports
  <2>3. Reports(ui, WillSendRequest(Navigated(ui), MainResource))
    BY <1>1, <2>1, <2>2, SendReports, ReportsTrans
  <2>4. \/ WebKit(WillSendRequest(Navigated(ui), MainResource), {MainResource}, failed)
        \/ WebKit(Navigated(ui), {}, failed)
    BY <1>4 DEF Navigate
  <2>5. CASE WebKit(WillSendRequest(Navigated(ui), MainResource), {MainResource}, failed)
    BY <1>1, <2>1, <2>3, <2>5 DEF WebKit
  <2>6. CASE WebKit(Navigated(ui), {}, failed)
    BY <1>1, <2>2, <2>6 DEF WebKit
  <2> QED
    BY <2>4, <2>5, <2>6
<1>5. CASE ClientRedirect
  <2>1. Reports(ui, [ui EXCEPT !.delegate.isRedirect = TRUE])
    BY <1>1, SetFlags
  <2> QED
    BY <1>1, <1>5, <2>1 DEF ClientRedirect, WebKit
<1>6. CASE OnLoad
  BY <1>1, <1>6, OnloadReports DEF OnLoad, WebKit
<1>7. CASE MainFrameFails
  <2>1. PICK code \in {"E_NETWORK", "E_BAD_URL"} :
          WebKit(DoResponseWithoutCheck(ui, code), inFlight, TRUE)
    BY <1>7 DEF MainFrameFails
  <2>2. Reports(ui, DoResponseWithoutCheck(ui, code))
    BY <1>1, WithoutCheckReports DEF Codes
  <2> QED
    BY <1>1, <2>1, <2>2 DEF WebKit
<1>8. CASE StopsLoading
  BY <1>1, <1>8, StopReports DEF StopsLoading, WebKit
<1> QED
  BY <1>2, <1>3, <1>4, <1>5, <1>6, <1>7, <1>8 DEF WebKitEvent

\* WebKitEvent keeps the invariant.
LEMMA WebKitStep ==
  ASSUME IInv, WebKitEvent
  PROVE  IInv'
<1>1. Whole(ui)
  BY Types DEF IInv
<1>2. ~hasObserver /\ HasContext(ui) /\ ui.delegate.timeout => Current \in fired
  BY DEF IInv, KeptInv
<1>3. pipe' = pipe /\ pipe \in Seq(LoadIds)
  BY WebKitEventReports DEF IInv, TypeOK
<1> QED
  BY <1>1, <1>2, <1>3, WebKitEventReports, ReportsKeep

\* What a stop message makes of the view it is for.
LEMMA StopLoadReports ==
  ASSUME IInv, NEW id, id = identifier, StopLoad(id)
  PROVE  /\ inFlight' = {}
         /\ Reports([ui EXCEPT !.delegate.timeout = TRUE], ui')
         /\ Whole([ui EXCEPT !.delegate.timeout = TRUE])
<1> DEFINE d == [ui.delegate EXCEPT !.timeout = TRUE]
           a == [ui EXCEPT !.delegate = d]
<1>1. Whole(ui) /\ ui.delegate \in Delegates
  BY Types DEF IInv
<1>2. d \in Delegates
  BY <1>1 DEF Delegates
<1>3. a \in UIState /\ a.context = ui.context
  <2> HIDE DEF d
  <2> QED
    BY <1>1, <1>2 DEF Whole, UIState, Delegates
<1>4. a = [ui EXCEPT !.delegate.timeout = TRUE]
  OBVIOUS
<1> HIDE DEF a
<1>5. Whole(a)
  BY <1>1, <1>3 DEF Whole, HasContext
<1>6. PICK s \in Stopped :
        ui' = IF s.delegate.didResponse THEN s ELSE DoResponseWithoutCheck(s, "E_CANCEL")
  BY DEF StopLoad
<1>7. PICK frameFails \in BOOLEAN : s = StoppedLoading(a, frameFails)
  BY <1>4, <1>6 DEF Stopped
<1>8. Reports(a, s) /\ Whole(s)
  BY <1>5, <1>7, StoppedLoadingReports DEF Reports
<1>9. Reports(a, DoResponseWithoutCheck(s, "E_CANCEL"))
  BY <1>5, <1>8, WithoutCheckReports, ReportsTrans DEF Codes
<1> QED
  BY <1>4, <1>5, <1>6, <1>8, <1>9 DEF StopLoad

\* HandleDispatch keeps it: a stop message that a kept view takes for its own
\* load is that load's, whose timer fired.
LEMMA DispatchStep ==
  ASSUME IInv, DispatchStopMessage
  PROVE  IInv'
<1>1. pipe # <<>> /\ pipe' = Tail(pipe) /\ pipe \in Seq(LoadIds)
      /\ UNCHANGED <<hasObserver, loads, identifier, failed, workerTasks, timer, fired, answers>>
  BY DEF DispatchStopMessage, IInv, TypeOK
<1>2. /\ pipe' \in Seq(LoadIds) /\ Head(pipe) = pipe[1] /\ 1 \in DOMAIN pipe
      /\ \A i \in DOMAIN pipe' : \E j \in DOMAIN pipe : pipe'[i] = pipe[j]
  <2>1. \A i \in DOMAIN pipe' : i + 1 \in DOMAIN pipe /\ pipe'[i] = pipe[i + 1]
    BY <1>1, Popped
  <2> QED
    BY <1>1, <2>1, Popped
<1>3. Whole(ui) /\ failed \in BOOLEAN /\ inFlight \in SUBSET Resources
  BY Types DEF IInv, TypeOK
<1>4. ~hasObserver /\ HasContext(ui) /\ ui.delegate.timeout => Current \in fired
  BY DEF IInv, KeptInv
<1>5. CASE UNCHANGED <<view, ui, inFlight>>
  <2>1. Reports(ui, ui')
    BY <1>3, <1>5, ReportsRefl
  <2> QED
    BY <1>1, <1>2, <1>3, <1>4, <1>5, <2>1, ReportsKeep DEF viewVars
<1>6. CASE view = "deleted" /\ view' = "crashed" /\ UNCHANGED <<ui, inFlight>>
  <2> USE DEF IInv
  <2>1. TypeOK'
    BY <1>1, <1>2, <1>6 DEF TypeOK
  <2>2. PhaseInv'
    BY <1>1, <1>6 DEF PhaseInv, Current
  <2>3. TasksInv'
    BY <1>1, <1>6, EmptySeq DEF PhaseInv, TasksInv
  <2>4. AnswersInv'
    BY <1>1, <1>6 DEF AnswersInv, AnswersInOrder, Current
  <2>5. MonitorInv'
    BY <1>1, <1>6 DEF MonitorInv, OfPresent, Current
  <2>6. KeptInv'
    BY <1>1, <1>6 DEF PhaseInv, KeptInv
  <2> QED
    BY <2>1, <2>2, <2>3, <2>4, <2>5, <2>6
<1>7. CASE Head(pipe) = identifier /\ StopLoad(Head(pipe)) /\ UNCHANGED view
  <2> DEFINE a == [ui EXCEPT !.delegate.timeout = TRUE]
  <2>1. inFlight' = {} /\ Reports(a, ui') /\ Whole(a)
    BY <1>7, StopLoadReports
  <2>2. a.context = ui.context /\ a.tasks = ui.tasks
    BY <1>3 DEF Whole, UIState
  <2> HIDE DEF a
  <2>3. ~hasObserver /\ HasContext(ui) => Current \in fired
    BY <1>2, <1>7 DEF IInv, KeptInv, PhaseInv
  <2> QED
    BY <1>1, <1>2, <1>3, <1>7, <2>1, <2>2, <2>3, ReportsKeep DEF viewVars
<1> QED
  BY <1>5, <1>6, <1>7 DEF DispatchStopMessage, StopLoad

\* The receiver posts loadRequest, which becomes the last task.
LEMMA PostsLoadStep ==
  ASSUME IInv, ReceiverPostsLoad
  PROVE  IInv'
<1> USE DEF IInv
<1> DEFINE e == [task |-> "load", load |-> loads]
           q == Append(ui.tasks, e)
<1>1. /\ view = "asked" /\ loads < MaxLoads /\ view' = "busy"
      /\ ui' = [ui EXCEPT !.tasks = q]
      /\ UNCHANGED <<hasObserver, loads, identifier, inFlight, failed, workerTasks, timer, pipe,
                     fired, answers>>
  BY DEF ReceiverPostsLoad
<1>2. Whole(ui) /\ ui.tasks \in Seq(MainTasks) /\ ~HasContext(ui) /\ e \in MainTasks
  BY <1>1, Types DEF PhaseInv, TypeOK, MainTasks, LoadIds
<1>3. /\ q \in Seq(MainTasks) /\ q # <<>> /\ Len(q) = Len(ui.tasks) + 1
      /\ q[Len(q)] = e /\ \A i \in 1..Len(ui.tasks) : q[i] = ui.tasks[i]
      /\ Len(ui.tasks) \in Nat /\ DOMAIN ui.tasks = 1..Len(ui.tasks) /\ DOMAIN q = 1..Len(q)
  <2> HIDE DEF e
  <2> QED
    BY <1>2, AppendProperties, LenProperties
<1> HIDE DEF q
<1>4. /\ ui' \in UIState /\ ui'.tasks = q /\ ui'.context = ui.context
      /\ ui'.delegate = ui.delegate
  BY <1>1, <1>2, <1>3 DEF Whole, UIState, MainTasks
<1>5. ~HasContext(ui') /\ Current' = Current /\ Current = -1
  BY <1>2, <1>4 DEF HasContext, Current, Whole
<1>6. TypeOK'
  BY <1>1, <1>4 DEF TypeOK
<1>7. PhaseInv'
  BY <1>1, <1>3, <1>4, <1>5 DEF PhaseInv
<1>8. TasksInv'
  <2> SUFFICES ASSUME NEW i \in 1..Len(q), q[i].task = "load"
               PROVE  i = Len(q)
    BY <1>1, <1>3, <1>4, <1>5 DEF TasksInv, IsLoad
  <2>1. ~(i \in 1..Len(ui.tasks))
    BY <1>1, <1>3 DEF TasksInv, IsLoad
  <2> QED
    BY <1>3, <2>1
<1>9. AnswersInv'
  BY <1>1, <1>2, <1>5 DEF AnswersInv, AnswersInOrder
<1>10. MonitorInv'
  BY <1>1, <1>2 DEF MonitorInv, OfPresent
<1>11. KeptInv'
  BY <1>1, <1>5 DEF KeptInv, TimeoutOnlyWhenFired
<1> QED
  BY <1>6, <1>7, <1>8, <1>9, <1>10, <1>11

\* What load() leaves: a context of its own and no task but its own responses.
LEMMA LoadReports ==
  ASSUME IInv, Load
  PROVE  /\ view = "busy" /\ ~HasContext(ui) /\ loads \in LoadIds
         /\ Whole(ui') /\ HasContext(ui') /\ Current' = loads
         /\ \A i \in DOMAIN ui'.tasks : ui'.tasks[i] = Respond(loads)
         /\ ~ui'.delegate.timeout /\ ui'.context.errorCode # "E_TIMEOUT"
         /\ inFlight' \in SUBSET Resources /\ failed' \in BOOLEAN
<1>1. ui.tasks # <<>> /\ Head(ui.tasks).task = "load" /\ view = "busy"
  BY DEF Load
<1>2. Whole(ui) /\ ui.tasks \in Seq(MainTasks)
  BY Types DEF IInv
<1>3. Head(ui.tasks) = ui.tasks[1] /\ 1 \in DOMAIN ui.tasks /\ Head(ui.tasks) \in MainTasks
      /\ Tail(ui.tasks) \in Seq(MainTasks) /\ Len(Tail(ui.tasks)) = Len(ui.tasks) - 1
  BY <1>1, <1>2, Popped
<1>4. ~HasContext(ui) /\ 1 = Len(ui.tasks)
  BY <1>1, <1>3 DEF IInv, TasksInv, IsLoad
<1>5. ui.tasks[1] = [task |-> "load", load |-> loads]
  BY <1>1, <1>4 DEF IInv, PhaseInv
<1>6. loads \in LoadIds
  <2>1. Head(ui.tasks).load = loads
    BY <1>3, <1>5
  <2>2. Head(ui.tasks).load \in LoadIds
    <3> DEFINE h == Head(ui.tasks)
    <3>1. h \in MainTasks
      BY <1>3
    <3> HIDE DEF h
    <3>2. h.load \in LoadIds
      BY <3>1 DEF MainTasks
    <3> QED
      BY <3>2 DEF h
  <2> QED
    BY <2>1, <2>2
<1>7. Tail(ui.tasks) = <<>> /\ Len(Tail(ui.tasks)) = 0
  <2> DEFINE q == Tail(ui.tasks)
  <2>1. q \in Seq(MainTasks)
    BY <1>3
  <2>2. Len(q) = Len(ui.tasks) - 1
    BY <1>3
  <2> HIDE DEF q
  <2>3. Len(q) = 0
    BY <1>4, <2>2
  <2>4. q = <<>>
    BY <2>1, <2>3, EmptySeq
  <2> QED
    BY <2>3, <2>4 DEF q
<1>8. PICK afterWindowLoad \in WindowLoadOption, forbidden \in BOOLEAN :
        LET s == [ui EXCEPT !.tasks = Tail(@),
                            !.delegate = [Cleared EXCEPT !.forbidden = forbidden],
                            !.context = [load |-> loads, errorCode |-> "E_OK",
                                         afterWindowLoad |-> afterWindowLoad]]
        IN \E t \in FrameLoaded(s) :
             /\ ui' = IF ~t.isLoading /\ ~t.delegate.didResponse
                      THEN DoResponseWithoutCheck(t, "E_UNKNOWN") ELSE t
             /\ inFlight' = t.delegate.resources
             /\ failed' = ui'.delegate.didResponse
  BY DEF Load
<1> DEFINE c == [load |-> loads, errorCode |-> "E_OK", afterWindowLoad |-> afterWindowLoad]
           d == [Cleared EXCEPT !.forbidden = forbidden]
           s == [ui EXCEPT !.tasks = Tail(ui.tasks), !.delegate = d, !.context = c]
<1>9. PICK t \in FrameLoaded(s) :
        /\ ui' = IF ~t.isLoading /\ ~t.delegate.didResponse
                 THEN DoResponseWithoutCheck(t, "E_UNKNOWN") ELSE t
        /\ inFlight' = t.delegate.resources
        /\ failed' = ui'.delegate.didResponse
  BY <1>8
<1>10. afterWindowLoad \in BOOLEAN
  OBVIOUS
<1>11. c \in Contexts /\ c.load = loads /\ c.errorCode = "E_OK"
  BY <1>6, <1>10 DEF Contexts, Codes
<1>12. d \in Delegates /\ d.timeout = FALSE
  BY DEF Delegates, Cleared
<1> HIDE DEF c, d
<1>13. s \in UIState /\ s.tasks = <<>> /\ s.delegate = d /\ s.context = c
  BY <1>2, <1>3, <1>7, <1>11, <1>12 DEF Whole, UIState, Contexts, Delegates, MainTasks
<1> HIDE DEF s
<1>14. c.load # -1 /\ HasContext(s) /\ Whole(s)
  BY <1>6, <1>11, <1>13 DEF Whole, HasContext, NoContext, LoadIds
<1>15. Reports(s, t) /\ Whole(t)
  BY <1>9, <1>14, FrameLoadedReports DEF Reports
<1>16. Reports(s, DoResponseWithoutCheck(t, "E_UNKNOWN"))
  BY <1>14, <1>15, WithoutCheckReports, ReportsTrans DEF Codes
<1>17. Reports(s, ui')
  BY <1>9, <1>15, <1>16
<1>18. Whole(ui') /\ HasContext(ui') /\ ui'.context.load = loads
  BY <1>11, <1>13, <1>14, <1>17 DEF Reports
<1>19. ui'.delegate \in Delegates /\ t.delegate \in Delegates /\ ui'.tasks \in Seq(MainTasks)
  BY <1>15, <1>18, UIFields DEF Whole
<1>20. inFlight' \in SUBSET Resources /\ failed' \in BOOLEAN
  BY <1>9, <1>19 DEF Delegates
<1>21. ~ui'.delegate.timeout /\ ui'.context.errorCode # "E_TIMEOUT"
  BY <1>11, <1>12, <1>13, <1>17 DEF Reports
<1>22. ASSUME NEW i \in DOMAIN ui'.tasks PROVE ui'.tasks[i] = Respond(loads)
  <2>1. i \in 1..Len(ui'.tasks) /\ i > 0 /\ Len(s.tasks) = 0
    BY <1>7, <1>13, <1>19, <1>22, LenProperties
  <2>2. ~(i <= Len(s.tasks))
    BY <2>1
  <2> QED
    BY <1>11, <1>13, <1>17, <2>1, <2>2 DEF Reports
<1> QED
  BY <1>1, <1>4, <1>6, <1>18, <1>20, <1>21, <1>22 DEF Current

\* BrowserView::load gives the request its context and its timer.
LEMMA LoadStep ==
  ASSUME IInv, Load
  PROVE  IInv'
<1> USE DEF IInv
<1> DEFINE e == WorkerTask("set", loads, identifier + 1)
<1>1. /\ identifier' = identifier + 1 /\ loads' = loads + 1
      /\ workerTasks' = Append(workerTasks, e)
      /\ UNCHANGED <<hasObserver, view, timer, pipe, fired, answers>>
  BY DEF Load
<1>2. /\ view = "busy" /\ ~HasContext(ui) /\ loads \in LoadIds
      /\ Whole(ui') /\ HasContext(ui') /\ Current' = loads
      /\ \A i \in DOMAIN ui'.tasks : ui'.tasks[i] = Respond(loads)
      /\ ~ui'.delegate.timeout /\ ui'.context.errorCode # "E_TIMEOUT"
      /\ inFlight' \in SUBSET Resources /\ failed' \in BOOLEAN
  BY LoadReports
<1>3. loads \in 0..(MaxLoads - 1) /\ identifier \in -1..(loads - 1) /\ identifier + 1 \in LoadIds
  BY <1>2 DEF TypeOK, LoadIds
<1>4. e \in WorkerTasks /\ e.task = "set" /\ e.load = loads /\ e.id = identifier + 1
  BY <1>2, <1>3 DEF WorkerTask, WorkerTasks
<1> HIDE DEF e
<1>5. /\ workerTasks' \in Seq(WorkerTasks) /\ Len(workerTasks) \in Nat
      /\ DOMAIN workerTasks = 1..Len(workerTasks)
      /\ DOMAIN workerTasks' = 1..(Len(workerTasks) + 1)
      /\ \A i \in DOMAIN workerTasks : workerTasks'[i] = workerTasks[i]
      /\ workerTasks'[Len(workerTasks) + 1] = e
  BY <1>1, <1>4, Types, AppendProperties, LenProperties
<1>6. TypeOK'
  <2>1. loads' \in 0..MaxLoads /\ identifier' \in -1..(loads' - 1)
    BY <1>1, <1>3
  <2> QED
    BY <1>1, <1>2, <1>5, <2>1 DEF TypeOK, WorkerTasks, Whole
<1>7. PhaseInv'
  <2>1. Current' # -1 /\ identifier' >= 0 /\ Current' = loads' - 1 /\ view' = "busy"
    BY <1>1, <1>2, <1>3
  <2> QED
    BY <1>2, <2>1 DEF PhaseInv
<1>8. TasksInv'
  BY <1>2 DEF TasksInv, IsLoad, Respond
<1>9. AnswersInv'
  BY <1>1, <1>2 DEF AnswersInv, AnswersInOrder
<1>10. MonitorInv'
  <2>1. ASSUME timer' # NoTimer
        PROVE  \E j \in DOMAIN workerTasks' : workerTasks'[j].task = "stop"
    BY <1>1, <1>2, <1>5, <2>1 DEF MonitorInv, OfPresent
  <2>2. ASSUME NEW i \in DOMAIN workerTasks', workerTasks'[i].task = "set",
               ~(HasContext(ui') /\ workerTasks'[i].load = Current')
        PROVE  \E j \in DOMAIN workerTasks' : i < j /\ workerTasks'[j].task = "stop"
    <3>1. i \in DOMAIN workerTasks
      BY <1>2, <1>4, <1>5, <2>2
    <3>2. PICK j \in DOMAIN workerTasks : i < j /\ workerTasks[j].task = "stop"
      BY <1>2, <1>5, <2>2, <3>1 DEF MonitorInv, OfPresent
    <3> QED
      BY <1>5, <3>2
  <2> QED
    BY <2>1, <2>2 DEF MonitorInv, OfPresent
<1>11. KeptInv'
  <2> SUFFICES ASSUME ~hasObserver
               PROVE  /\ identifier' = loads' - 1
                      /\ \A i \in DOMAIN workerTasks' : workerTasks'[i].id = workerTasks'[i].load
    BY <1>1, <1>2 DEF KeptInv, TimeoutOnlyWhenFired
  <2>1. identifier = loads - 1
    BY DEF KeptInv
  <2>2. e.id = e.load
    BY <1>3, <1>4, <2>1
  <2>3. ASSUME NEW i \in DOMAIN workerTasks' PROVE workerTasks'[i].id = workerTasks'[i].load
    <3>1. CASE i \in DOMAIN workerTasks
      BY <1>5, <3>1 DEF KeptInv
    <3>2. CASE i = Len(workerTasks) + 1
      BY <1>5, <2>2, <3>2
    <3> QED
      BY <1>5, <3>1, <3>2
  <2> QED
    BY <1>1, <1>3, <2>1, <2>3
<1> QED
  BY <1>6, <1>7, <1>8, <1>9, <1>10, <1>11

\* What an answer posts to the worker.
LEMMA AnswerTasks ==
  ASSUME loads - 1 \in LoadIds, identifier \in LoadIds
  PROVE  /\ TasksOfAnswer \in Seq(WorkerTasks)
         /\ 1 \in DOMAIN TasksOfAnswer /\ TasksOfAnswer[1].task = "stop"
         /\ \A i \in DOMAIN TasksOfAnswer :
              /\ TasksOfAnswer[i].task # "set"
              /\ TasksOfAnswer[i].load = loads - 1 /\ TasksOfAnswer[i].id = identifier
<1> DEFINE a == MonitorTask("stop")
           b == MonitorTask("callback")
<1>1. /\ a \in WorkerTasks /\ a.task = "stop" /\ a.load = loads - 1 /\ a.id = identifier
      /\ b \in WorkerTasks /\ b.task = "callback" /\ b.load = loads - 1 /\ b.id = identifier
  BY DEF MonitorTask, WorkerTask, WorkerTasks
<1> HIDE DEF a, b
<1>2. TasksOfAnswer = <<a, b>> \o (IF hasObserver THEN <<a>> ELSE <<>>)
  BY DEF TasksOfAnswer, a, b
<1> DEFINE p == <<a, b>>
           o == IF hasObserver THEN <<a>> ELSE <<>>
<1>3. p \in Seq(WorkerTasks) /\ Len(p) = 2 /\ p[1] = a /\ p[2] = b
  BY <1>1
<1>4. <<a>> \in Seq(WorkerTasks) /\ Len(<<a>>) = 1 /\ <<a>>[1] = a
      /\ <<>> \in Seq(WorkerTasks) /\ Len(<<>>) = 0
  BY <1>1, EmptySeq
<1>5. o \in Seq(WorkerTasks) /\ Len(o) \in 0..1 /\ (Len(o) = 1 => o[1] = a)
  BY <1>4
<1> HIDE DEF p, o
<1>6. /\ TasksOfAnswer \in Seq(WorkerTasks) /\ Len(TasksOfAnswer) = 2 + Len(o)
      /\ \A i \in 1..Len(TasksOfAnswer) :
           TasksOfAnswer[i] = IF i <= 2 THEN p[i] ELSE o[i - 2]
  <2>1. TasksOfAnswer = p \o o
    BY <1>2 DEF p, o
  <2>2. /\ p \o o \in Seq(WorkerTasks) /\ Len(p \o o) = Len(p) + Len(o)
        /\ \A i \in 1..(Len(p) + Len(o)) :
             (p \o o)[i] = IF i <= Len(p) THEN p[i] ELSE o[i - Len(p)]
    BY <1>3, <1>5, ConcatProperties
  <2> QED
    BY <1>3, <2>1, <2>2
<1>7. DOMAIN TasksOfAnswer = 1..(2 + Len(o)) /\ Len(o) \in 0..1
  BY <1>5, <1>6, LenProperties
<1>8. TasksOfAnswer[1] = a /\ TasksOfAnswer[2] = b
  BY <1>3, <1>6, <1>7
<1>9. ASSUME NEW i \in DOMAIN TasksOfAnswer PROVE TasksOfAnswer[i] = a \/ TasksOfAnswer[i] = b
  <2>1. CASE i \in {1, 2}
    BY <1>8, <2>1
  <2>2. CASE i = 3
    <3>1. Len(o) = 1
      BY <1>7, <1>9, <2>2
    <3> QED
      BY <1>5, <1>6, <1>7, <2>2, <3>1
  <2>3. i \in 1..3
    <3> DEFINE k == Len(o)
    <3>1. i \in 1..(2 + k) /\ k \in 0..1
      BY <1>7, <1>9
    <3> HIDE DEF k
    <3> QED
      BY <3>1
  <2> QED
    BY <2>1, <2>2, <2>3
<1>10. 1 \in DOMAIN TasksOfAnswer
  BY <1>7
<1> QED
  BY <1>1, <1>6, <1>8, <1>9, <1>10

\* A response task that is declined is just gone.
LEMMA DeclinedStep ==
  ASSUME IInv, ui.tasks # <<>>, ~IsLoad(1), ui' = [ui EXCEPT !.tasks = Tail(ui.tasks)],
         UNCHANGED <<viewVars, inFlight, failed, workerTasks, timer, pipe, fired, answers>>
  PROVE  IInv'
<1> USE DEF IInv
<1> DEFINE q == Tail(ui.tasks)
<1>1. UNCHANGED <<hasObserver, loads, identifier, view>>
  BY DEF viewVars
<1>2. Whole(ui) /\ ui.tasks \in Seq(MainTasks)
  BY Types
<1>3. /\ q \in Seq(MainTasks) /\ Len(ui.tasks) \in Nat \ {0} /\ DOMAIN ui.tasks = 1..Len(ui.tasks)
      /\ Len(q) = Len(ui.tasks) - 1 /\ DOMAIN q = 1..(Len(ui.tasks) - 1)
      /\ \A i \in 1..(Len(ui.tasks) - 1) : q[i] = ui.tasks[i + 1]
  BY <1>2, Popped
<1> HIDE DEF q
<1>4. /\ ui' \in UIState /\ ui'.tasks = q /\ ui'.context = ui.context /\ ui'.delegate = ui.delegate
  BY <1>2, <1>3 DEF Whole, UIState, MainTasks, q
<1>5. Current' = Current /\ (HasContext(ui') <=> HasContext(ui))
  BY <1>4 DEF Current, HasContext
<1>6. TypeOK'
  BY <1>1, <1>4 DEF TypeOK
<1>7. PhaseInv'
  <2>1. ASSUME view = "busy", ~HasContext(ui)
        PROVE  q # <<>> /\ q[Len(q)] = [task |-> "load", load |-> loads]
    <3>1. ui.tasks[Len(ui.tasks)] = [task |-> "load", load |-> loads]
      BY <2>1 DEF PhaseInv
    <3>2. Len(ui.tasks) # 1
      BY <3>1 DEF IsLoad
    <3>3. Len(ui.tasks) \in Nat \ {0} /\ Len(q) = Len(ui.tasks) - 1
      BY <1>3
    <3>4. Len(q) \in 1..(Len(ui.tasks) - 1) /\ Len(q) + 1 = Len(ui.tasks)
      <4> DEFINE n == Len(ui.tasks)
                 k == Len(q)
      <4>1. n \in Nat \ {0} /\ n # 1 /\ k = n - 1
        BY <3>2, <3>3
      <4> HIDE DEF n, k
      <4>2. k \in 1..(n - 1) /\ k + 1 = n
        BY <4>1
      <4> QED
        BY <4>2 DEF n, k
    <3> QED
      BY <1>3, <3>1, <3>4, EmptySeq
  <2> QED
    BY <1>1, <1>4, <1>5, <2>1 DEF PhaseInv
<1>8. TasksInv'
  <2> SUFFICES ASSUME NEW i \in 1..(Len(ui.tasks) - 1)
               PROVE  /\ q[i].task = "load" => view = "busy" /\ ~HasContext(ui) /\ i = Len(q)
                      /\ q[i].task # "load" /\ HasContext(ui) => q[i].load = Current
    BY <1>1, <1>3, <1>4, <1>5 DEF TasksInv, IsLoad
  <2>1. i + 1 \in DOMAIN ui.tasks /\ q[i] = ui.tasks[i + 1]
    BY <1>3
  <2> QED
    BY <1>3, <2>1 DEF TasksInv, IsLoad
<1>9. AnswersInv'
  BY <1>1, <1>5 DEF AnswersInv, AnswersInOrder
<1>10. MonitorInv'
  BY <1>1, <1>5 DEF MonitorInv, OfPresent
<1>11. KeptInv'
  BY <1>1, <1>4, <1>5 DEF KeptInv, TimeoutOnlyWhenFired
<1> QED
  BY <1>6, <1>7, <1>8, <1>9, <1>10, <1>11

\* An answer.
LEMMA AnsweredStep ==
  ASSUME IInv, DoResponseOnMainThread, ~Declines([ui EXCEPT !.tasks = Tail(ui.tasks)])
  PROVE  IInv'
<1> USE DEF IInv
<1> DEFINE s == [ui EXCEPT !.tasks = Tail(ui.tasks)]
           s0 == [s EXCEPT !.context = NoContext]
           t == Blanked(s0)
           e == [load |-> s.context.load, errorCode |-> s.context.errorCode]
<1>1. /\ ui.tasks # <<>> /\ Head(ui.tasks).task = "respond"
      /\ workerTasks' = workerTasks \o TasksOfAnswer
      /\ answers' = Append(answers, e)
      /\ ui' = IF hasObserver THEN [t EXCEPT !.tasks = <<>>] ELSE t
      /\ inFlight' = {} /\ failed' = FALSE
      /\ view' = IF hasObserver THEN "deleted" ELSE "asked"
      /\ UNCHANGED <<hasObserver, loads, identifier, timer, pipe, fired>>
  BY DEF DoResponseOnMainThread, PrepareDoNextRequest
<1>2. Whole(ui) /\ ui.tasks \in Seq(MainTasks) /\ ui.context \in Contexts
  BY Types
<1>3. /\ Tail(ui.tasks) \in Seq(MainTasks) /\ DOMAIN Tail(ui.tasks) = 1..(Len(ui.tasks) - 1)
      /\ Len(ui.tasks) \in Nat \ {0} /\ DOMAIN ui.tasks = 1..Len(ui.tasks)
      /\ \A i \in 1..(Len(ui.tasks) - 1) : Tail(ui.tasks)[i] = ui.tasks[i + 1]
  BY <1>1, <1>2, Popped
<1>4. s \in UIState /\ s.tasks = Tail(ui.tasks) /\ s.context = ui.context
  BY <1>2, <1>3 DEF Whole, UIState, MainTasks
<1>5. HasContext(ui)
  BY <1>4 DEF Declines, HasContext
<1>6. /\ view = "busy" /\ identifier >= 0 /\ Current = loads - 1 /\ Current \in LoadIds
      /\ identifier \in LoadIds
  <2>1. view = "busy" /\ identifier >= 0 /\ Current = loads - 1 /\ Current \in LoadIds
    BY <1>5, Types DEF PhaseInv
  <2> QED
    BY <2>1 DEF TypeOK, LoadIds
<1>7. e \in [load : LoadIds, errorCode : Codes] /\ e.load = Current
      /\ e.errorCode = ui.context.errorCode
  BY <1>2, <1>4, <1>6 DEF Contexts, Current
<1> HIDE DEF e
<1>8. NoContext \in Contexts /\ NoContext.load = -1
  BY DEF NoContext, Contexts, Codes
<1>9. s0 \in UIState /\ s0.tasks = Tail(ui.tasks) /\ s0.context = NoContext
  <2> HIDE DEF s
  <2> QED
    BY <1>4, <1>8 DEF UIState, Contexts
<1> HIDE DEF s0
<1>10. Whole(s0) /\ ~HasContext(s0)
  BY <1>8, <1>9 DEF Whole, HasContext
<1>11. Reports(s0, t)
  BY <1>10, BlankedReports
<1> HIDE DEF t
<1>12. /\ Whole(t) /\ ~HasContext(t) /\ t.context.load = -1
       /\ t.tasks \in Seq(MainTasks) /\ DOMAIN t.tasks = 1..Len(t.tasks)
  BY <1>8, <1>9, <1>10, <1>11, UIFields, LenProperties DEF Reports, Whole
<1>13. ASSUME NEW i \in DOMAIN t.tasks PROVE t.tasks[i].task # "load"
  <2>1. i <= Len(s0.tasks) /\ t.tasks[i] = s0.tasks[i]
    BY <1>10, <1>11, <1>12, <1>13 DEF Reports
  <2>2. i \in 1..(Len(ui.tasks) - 1)
    BY <1>3, <1>9, <1>12, <1>13, <2>1, LenProperties
  <2>3. t.tasks[i] = ui.tasks[i + 1] /\ i + 1 \in DOMAIN ui.tasks
    BY <1>3, <1>9, <2>1, <2>2
  <2> QED
    BY <1>5, <2>3 DEF TasksInv, IsLoad
<1>14. [t EXCEPT !.tasks = <<>>] \in UIState /\ [t EXCEPT !.tasks = <<>>].context = t.context
       /\ [t EXCEPT !.tasks = <<>>].tasks = <<>>
  <2>1. <<>> \in Seq(MainTasks)
    BY EmptySeq
  <2> QED
    BY <1>12, <2>1 DEF Whole, UIState, MainTasks
<1>15. /\ ui' \in UIState /\ ui'.context = t.context
       /\ hasObserver => ui'.tasks = <<>>
       /\ ~hasObserver => ui'.tasks = t.tasks
  BY <1>1, <1>12, <1>14 DEF Whole
<1>16. ~HasContext(ui') /\ Current' = -1
  BY <1>12, <1>15 DEF HasContext, Current
<1>17. \A i \in DOMAIN ui'.tasks : ui'.tasks[i].task # "load"
  BY <1>13, <1>15, EmptySeq
<1>18. /\ TasksOfAnswer \in Seq(WorkerTasks)
       /\ 1 \in DOMAIN TasksOfAnswer /\ TasksOfAnswer[1].task = "stop"
       /\ \A i \in DOMAIN TasksOfAnswer :
            /\ TasksOfAnswer[i].task # "set"
            /\ TasksOfAnswer[i].load = loads - 1 /\ TasksOfAnswer[i].id = identifier
  BY <1>6, AnswerTasks
<1> DEFINE m == Len(workerTasks)
<1>19. /\ workerTasks' \in Seq(WorkerTasks) /\ m \in Nat /\ DOMAIN workerTasks = 1..m
       /\ \A i \in DOMAIN workerTasks : i \in DOMAIN workerTasks' /\ workerTasks'[i] = workerTasks[i]
       /\ m + 1 \in DOMAIN workerTasks' /\ workerTasks'[m + 1].task = "stop"
       /\ \A i \in DOMAIN workerTasks' \ DOMAIN workerTasks :
            \E k \in DOMAIN TasksOfAnswer : workerTasks'[i] = TasksOfAnswer[k]
  <2>1. workerTasks \in Seq(WorkerTasks)
    BY Types
  <2>2. /\ workerTasks' \in Seq(WorkerTasks)
        /\ Len(workerTasks') = Len(workerTasks) + Len(TasksOfAnswer)
        /\ \A i \in 1..Len(workerTasks') :
             workerTasks'[i] = IF i <= Len(workerTasks) THEN workerTasks[i]
                               ELSE TasksOfAnswer[i - Len(workerTasks)]
    BY <1>1, <1>18, <2>1, ConcatProperties
  <2>3. /\ m \in Nat /\ DOMAIN workerTasks = 1..m
        /\ Len(TasksOfAnswer) \in Nat /\ DOMAIN TasksOfAnswer = 1..Len(TasksOfAnswer)
        /\ DOMAIN workerTasks' = 1..(m + Len(TasksOfAnswer))
    BY <1>18, <2>1, <2>2, LenProperties
  <2>4. m + 1 \in DOMAIN workerTasks' /\ workerTasks'[m + 1] = TasksOfAnswer[1]
    BY <1>18, <2>2, <2>3
  <2>5. ASSUME NEW i \in DOMAIN workerTasks
        PROVE  i \in DOMAIN workerTasks' /\ workerTasks'[i] = workerTasks[i]
    BY <2>2, <2>3
  <2>6. ASSUME NEW i \in DOMAIN workerTasks' \ DOMAIN workerTasks
        PROVE  i - m \in DOMAIN TasksOfAnswer /\ workerTasks'[i] = TasksOfAnswer[i - m]
    BY <2>2, <2>3
  <2> QED
    BY <1>18, <2>2, <2>3, <2>4, <2>5, <2>6
<1> HIDE DEF m
<1>20. /\ answers' \in Seq([load : LoadIds, errorCode : Codes])
       /\ Len(answers') = Len(answers) + 1 /\ DOMAIN answers = 1..Len(answers)
       /\ DOMAIN answers' = 1..(Len(answers) + 1) /\ Len(answers) \in Nat
       /\ \A i \in 1..Len(answers) : answers'[i] = answers[i]
       /\ answers'[Len(answers) + 1] = e
  BY <1>1, <1>7, AppendProperties, LenProperties DEF TypeOK
<1>21. TypeOK'
  BY <1>1, <1>15, <1>19, <1>20 DEF TypeOK, WorkerTasks
<1>22. PhaseInv'
  BY <1>1, <1>15, <1>16 DEF PhaseInv
<1>23. TasksInv'
  BY <1>16, <1>17 DEF TasksInv, IsLoad
<1>24. AnswersInv'
  <2>1. Len(answers) = Current /\ loads = Current + 1 /\ loads' = loads
    BY <1>1, <1>5, <1>6 DEF AnswersInv, TypeOK
  <2>2. ASSUME NEW i \in DOMAIN answers' PROVE answers'[i].load = i - 1
    <3>1. CASE i \in 1..Len(answers)
      BY <1>20, <3>1 DEF AnswersInv, AnswersInOrder
    <3>2. CASE i = Len(answers) + 1
      BY <1>7, <1>20, <2>1, <3>2
    <3> QED
      BY <1>20, <3>1, <3>2
  <2> QED
    BY <1>16, <1>20, <2>1, <2>2 DEF AnswersInv, AnswersInOrder
<1>25. MonitorInv'
  <2>1. \A i \in DOMAIN workerTasks' : workerTasks'[i].task = "set" => i < m + 1
    BY <1>18, <1>19
  <2> QED
    BY <1>19, <2>1 DEF MonitorInv
<1>26. KeptInv'
  <2> SUFFICES ASSUME ~hasObserver
               PROVE  /\ \A i \in DOMAIN workerTasks' : workerTasks'[i].id = workerTasks'[i].load
                      /\ TimeoutOnlyWhenFired'
    BY <1>1, <1>16 DEF KeptInv
  <2>1. identifier = loads - 1
    BY DEF KeptInv
  <2>2. ASSUME NEW i \in DOMAIN workerTasks' PROVE workerTasks'[i].id = workerTasks'[i].load
    <3>1. CASE i \in DOMAIN workerTasks
      BY <1>19, <3>1 DEF KeptInv
    <3>2. CASE i \notin DOMAIN workerTasks
      BY <1>18, <1>19, <2>1, <3>2
    <3> QED
      BY <3>1, <3>2
  <2>3. ASSUME NEW i \in DOMAIN answers', answers'[i].errorCode = "E_TIMEOUT"
        PROVE  answers'[i].load \in fired
    <3>1. CASE i \in 1..Len(answers)
      BY <1>20, <2>3, <3>1 DEF KeptInv, TimeoutOnlyWhenFired
    <3>2. CASE i = Len(answers) + 1
      BY <1>5, <1>7, <1>20, <2>3, <3>2 DEF KeptInv
    <3> QED
      BY <1>20, <3>1, <3>2
  <2> QED
    BY <1>1, <2>2, <2>3 DEF TimeoutOnlyWhenFired
<1> QED
  BY <1>21, <1>22, <1>23, <1>24, <1>25, <1>26

\* doResponseOnMainThread, declined or not.
LEMMA ResponseStep ==
  ASSUME IInv, DoResponseOnMainThread
  PROVE  IInv'
<1>1. CASE Declines([ui EXCEPT !.tasks = Tail(ui.tasks)])
  <2>1. /\ ui.tasks # <<>> /\ Head(ui.tasks).task = "respond"
        /\ ui' = [ui EXCEPT !.tasks = Tail(ui.tasks)]
        /\ UNCHANGED <<viewVars, inFlight, failed, workerTasks, timer, pipe, fired, answers>>
    BY <1>1 DEF DoResponseOnMainThread, viewVars
  <2>2. ui.tasks[1] = Head(ui.tasks)
    BY <2>1, Types, Popped DEF IInv
  <2>3. ~IsLoad(1)
    BY <2>1, <2>2 DEF IsLoad
  <2> QED
    BY <2>1, <2>3, DeclinedStep
<1>2. CASE ~Declines([ui EXCEPT !.tasks = Tail(ui.tasks)])
  BY <1>2, AnsweredStep
<1> QED
  BY <1>1, <1>2

\* A new view starts where a deleted one was: no context, no task.
LEMMA NewViewStep ==
  ASSUME IInv, NewViewAtAddress
  PROVE  IInv'
<1> USE DEF IInv
<1>1. /\ view = "deleted" /\ view' = "asked" /\ identifier' = -1 /\ ui' \in NewUI
      /\ UNCHANGED <<hasObserver, loads, inFlight, failed, workerTasks, timer, pipe, fired, answers>>
  BY DEF NewViewAtAddress
<1>2. hasObserver /\ ~HasContext(ui)
  BY <1>1 DEF PhaseInv
<1>3. Whole(ui') /\ ~HasContext(ui') /\ ui'.tasks = <<>> /\ ui'.context.load = -1
  BY <1>1, NewUIState
<1>4. TypeOK'
  <2>1. identifier' \in -1..(loads' - 1)
    BY <1>1 DEF TypeOK
  <2> QED
    BY <1>1, <1>3, <2>1 DEF TypeOK, Whole
<1>5. PhaseInv'
  BY <1>1, <1>3 DEF PhaseInv, Current
<1>6. TasksInv'
  BY <1>3, EmptySeq DEF TasksInv
<1>7. AnswersInv'
  BY <1>1, <1>2, <1>3 DEF AnswersInv, AnswersInOrder
<1>8. MonitorInv'
  BY <1>1, <1>2, <1>3 DEF MonitorInv, OfPresent
<1>9. KeptInv'
  BY <1>1, <1>2 DEF KeptInv
<1> QED
  BY <1>4, <1>5, <1>6, <1>7, <1>8, <1>9

\* The worker runs a task; what was behind it still is.
LEMMA WorkerStep ==
  ASSUME IInv, RunWorkerTask
  PROVE  IInv'
<1> USE DEF IInv
<1> DEFINE h == Head(workerTasks)
           q == Tail(workerTasks)
           n == Len(workerTasks)
<1>1. /\ workerTasks # <<>> /\ workerTasks' = q
      /\ UNCHANGED <<hasObserver, loads, identifier, view, ui, inFlight, failed, pipe, fired,
                     answers>>
      /\ \/ h.task = "set" /\ timer' = h
         \/ h.task = "stop" /\ timer' = NoTimer
         \/ h.task = "callback" /\ timer' = timer
  BY DEF RunWorkerTask, viewVars, pageVars
<1>2. /\ h \in WorkerTasks /\ h = workerTasks[1] /\ q \in Seq(WorkerTasks)
      /\ n \in Nat \ {0} /\ DOMAIN workerTasks = 1..n /\ DOMAIN q = 1..(n - 1)
      /\ \A i \in 1..(n - 1) : q[i] = workerTasks[i + 1]
  BY <1>1, Types, Popped
<1> HIDE DEF h, q, n
<1>3. 1 \in DOMAIN workerTasks
  BY <1>2
\* What is behind the first task stays.
<1>4. ASSUME NEW i \in 1..n, i # 1
      PROVE  i - 1 \in DOMAIN q /\ q[i - 1] = workerTasks[i]
  BY <1>2, <1>4
<1>5. ASSUME NEW i \in DOMAIN q
      PROVE  i + 1 \in 1..n /\ i + 1 # 1 /\ q[i] = workerTasks[i + 1]
  BY <1>2, <1>5
<1>6. TypeOK'
  <2>1. timer' \in [task : {"set"}, load : LoadIds, id : LoadIds] \cup {NoTimer}
    BY <1>1, <1>2 DEF TypeOK, WorkerTasks
  <2> QED
    BY <1>1, <1>2, <2>1 DEF TypeOK, WorkerTasks
<1>7. PhaseInv'
  BY <1>1 DEF PhaseInv, Current
<1>8. TasksInv'
  BY <1>1 DEF TasksInv, IsLoad, Current
<1>9. AnswersInv'
  BY <1>1 DEF AnswersInv, AnswersInOrder, Current
<1>10. MonitorInv'
  <2>1. ASSUME timer' # NoTimer, ~(HasContext(ui) /\ timer'.load = Current)
        PROVE  \E j \in DOMAIN q : q[j].task = "stop"
    <3>1. CASE h.task = "set" /\ timer' = h
      <4>1. PICK j \in DOMAIN workerTasks : 1 < j /\ workerTasks[j].task = "stop"
        BY <1>2, <1>3, <2>1, <3>1 DEF MonitorInv, OfPresent
      <4>2. j \in 1..n /\ j # 1
        BY <1>2, <4>1
      <4>3. j - 1 \in DOMAIN q /\ q[j - 1].task = "stop"
        BY <1>4, <4>1, <4>2
      <4> QED
        BY <4>3
    <3>2. CASE h.task = "callback" /\ timer' = timer
      <4>1. PICK j \in DOMAIN workerTasks : workerTasks[j].task = "stop"
        BY <2>1, <3>2 DEF MonitorInv, OfPresent
      <4>2. j # 1
        BY <1>2, <3>2, <4>1
      <4> QED
        BY <1>2, <1>4, <4>1, <4>2
    <3> QED
      BY <1>1, <2>1, <3>1, <3>2
  <2>2. ASSUME NEW i \in DOMAIN q, q[i].task = "set", ~(HasContext(ui) /\ q[i].load = Current)
        PROVE  \E j \in DOMAIN q : i < j /\ q[j].task = "stop"
    <3>1. PICK j \in DOMAIN workerTasks : i + 1 < j /\ workerTasks[j].task = "stop"
      BY <1>2, <1>5, <2>2 DEF MonitorInv, OfPresent
    <3>2. i \in Nat /\ j \in 1..n
      BY <1>2, <3>1
    <3>3. j # 1 /\ i < j - 1
      BY <1>2, <2>2, <3>1, <3>2
    <3> QED
      BY <1>4, <3>1, <3>2, <3>3
  <2> QED
    BY <1>1, <2>1, <2>2 DEF MonitorInv, OfPresent, Current
<1>11. KeptInv'
  <2> SUFFICES ASSUME ~hasObserver
               PROVE  /\ \A i \in DOMAIN q : q[i].id = q[i].load
                      /\ timer'.id = timer'.load
    BY <1>1 DEF KeptInv, Current, TimeoutOnlyWhenFired
  <2>1. \A i \in DOMAIN q : q[i].id = q[i].load
    BY <1>2, <1>5 DEF KeptInv
  <2>2. h.id = h.load /\ timer.id = timer.load /\ NoTimer.id = NoTimer.load
    BY <1>2, <1>3 DEF KeptInv, NoTimer
  <2> QED
    BY <1>1, <2>1, <2>2
<1> QED
  BY <1>6, <1>7, <1>8, <1>9, <1>10, <1>11

\* doTimeout.
LEMMA TimerStep ==
  ASSUME IInv, TimerFires
  PROVE  IInv'
<1> USE DEF IInv
<1>1. /\ timer # NoTimer /\ timer' = NoTimer
      /\ pipe' = Append(pipe, timer.id) /\ fired' = fired \cup {timer.load}
      /\ UNCHANGED <<hasObserver, loads, identifier, view, ui, inFlight, failed, workerTasks,
                     answers>>
  BY DEF TimerFires, viewVars, pageVars
<1>2. timer.load \in LoadIds /\ timer.id \in LoadIds
  BY <1>1 DEF TypeOK
<1>3. /\ pipe' \in Seq(LoadIds) /\ DOMAIN pipe = 1..Len(pipe) /\ Len(pipe) \in Nat
      /\ DOMAIN pipe' = 1..(Len(pipe) + 1)
      /\ \A i \in 1..Len(pipe) : pipe'[i] = pipe[i]
      /\ pipe'[Len(pipe) + 1] = timer.id
  BY <1>1, <1>2, AppendProperties, LenProperties DEF TypeOK
<1>4. TypeOK'
  BY <1>1, <1>2, <1>3 DEF TypeOK
<1>5. PhaseInv'
  BY <1>1 DEF PhaseInv, Current
<1>6. TasksInv'
  BY <1>1 DEF TasksInv, IsLoad, Current
<1>7. AnswersInv'
  BY <1>1 DEF AnswersInv, AnswersInOrder, Current
<1>8. MonitorInv'
  BY <1>1 DEF MonitorInv, OfPresent, Current
<1>9. KeptInv'
  <2> SUFFICES ASSUME ~hasObserver PROVE KeptInv'
    BY <1>1 DEF KeptInv
  <2>1. timer.id = timer.load
    BY DEF KeptInv
  <2>2. ASSUME NEW i \in DOMAIN pipe' PROVE pipe'[i] \in fired'
    <3>1. CASE i \in 1..Len(pipe)
      BY <1>1, <1>3, <3>1 DEF KeptInv
    <3>2. CASE i = Len(pipe) + 1
      BY <1>1, <1>3, <2>1, <3>2
    <3> QED
      BY <1>3, <3>1, <3>2
  <2>3. TimeoutOnlyWhenFired'
    BY <1>1 DEF KeptInv, TimeoutOnlyWhenFired
  <2>4. NoTimer.id = NoTimer.load
    BY DEF NoTimer
  <2> QED
    BY <1>1, <2>2, <2>3, <2>4 DEF KeptInv, Current
<1> QED
  BY <1>4, <1>5, <1>6, <1>7, <1>8, <1>9

\* Steps of other parts of the program.
LEMMA StutterStep ==
  ASSUME IInv, UNCHANGED vars
  PROVE  IInv'
<1>1. UNCHANGED <<hasObserver, loads, identifier, view, ui, inFlight, failed, workerTasks,
                  timer, pipe, fired, answers>>
  BY DEF vars, viewVars, pageVars
<1> QED
  BY <1>1 DEF IInv, TypeOK, PhaseInv, TasksInv, AnswersInv, MonitorInv, KeptInv, Current,
              OfPresent, IsLoad, AnswersInOrder, TimeoutOnlyWhenFired

\* IInv is inductive.
LEMMA NextInv ==
  ASSUME IInv, [Next]_vars
  PROVE  IInv'
  BY WebKitStep, PostsLoadStep, LoadStep, ResponseStep, NewViewStep, DispatchStep, WorkerStep,
     TimerStep, StutterStep DEF Next

-----------------------------------------------------------------------------
(* Theorems. *)

\* IInv holds in every reachable state.
THEOREM Invariance == Spec => []IInv
<1>1. IInv /\ [Next]_vars => IInv'
  BY NextInv
<1> QED
  BY InitInv, <1>1, PTL DEF Spec

\* Every variable keeps its type.
THEOREM TypeCorrect == Spec => []TypeOK
<1>1. IInv => TypeOK
  BY DEF IInv
<1> QED
  BY Invariance, <1>1, PTL

\* However often a load posts doResponseOnMainThread and however many views the
\* address sees, its loads are answered one for one in their order.
THEOREM AnswersInOrderHolds == Spec => []AnswersInOrder
<1>1. IInv => AnswersInOrder
  BY DEF IInv, AnswersInv
<1> QED
  BY Invariance, <1>1, PTL

\* A view that is kept answers E_TIMEOUT only to loads whose own timer fired: a
\* stop message that comes too late never reaches the next load.
THEOREM KeptTimeoutHolds == Spec => []KeptTimeoutOnlyWhenFired
<1>1. IInv => KeptTimeoutOnlyWhenFired
  BY DEF IInv, KeptInv, KeptTimeoutOnlyWhenFired
<1> QED
  BY Invariance, <1>1, PTL

\* A doResponseOnMainThread left over from an earlier load never meets a later
\* context, and no timer outlives its load once the worker caught up.
THEOREM NothingLeftOverHolds == Spec => []NothingLeftOver
<1>1. ASSUME IInv PROVE NoStaleResponse
  <2> SUFFICES ASSUME NEW i \in DOMAIN ui.tasks, ui.tasks[i].task = "respond"
               PROVE  /\ HasContext(ui) => ui.tasks[i].load = ui.context.load
                      /\ \A j \in 1..(i - 1) : ui.tasks[j].task # "load"
    BY DEF NoStaleResponse
  <2>1. ui.tasks \in Seq(MainTasks) /\ DOMAIN ui.tasks = 1..Len(ui.tasks) /\ Len(ui.tasks) \in Nat
    BY <1>1, Types, LenProperties DEF IInv
  <2>2. ASSUME NEW j \in 1..(i - 1) PROVE ui.tasks[j].task # "load"
    <3>1. j \in DOMAIN ui.tasks /\ j # Len(ui.tasks)
      BY <2>1
    <3> QED
      BY <1>1, <3>1 DEF IInv, TasksInv, IsLoad
  <2> QED
    BY <1>1, <2>2 DEF IInv, TasksInv, IsLoad, Current
<1>2. ASSUME IInv PROVE NoOrphanTimer
  <2> SUFFICES ASSUME workerTasks = <<>>, timer # NoTimer PROVE OfPresent(timer.load)
    BY DEF NoOrphanTimer, OfPresent, Current
  <2>1. DOMAIN workerTasks = {}
    BY EmptySeq
  <2> QED
    BY <1>2, <2>1 DEF IInv, MonitorInv
<1>3. IInv => NothingLeftOver
  BY <1>1, <1>2 DEF IInv, NothingLeftOver
<1> QED
  BY Invariance, <1>3, PTL
=============================================================================
