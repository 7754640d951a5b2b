---------------------------- MODULE BrowserShell ----------------------------
(***************************************************************************)
(* BrowserShell and its view groups on top of the request queue.  The queue *)
(* (RequestQueue.tla) leaves open when a consumer is added and where a view *)
(* comes from; the shell decides: create() and the receiver ask for more    *)
(* views (tryToIncreaseBrowserView, reading the groups without a lock), the *)
(* main thread makes them (increaseBrowserView, getBrowserView), and a view *)
(* that answered asks again or, in a NolimitedTabBrowserViewGroup, is       *)
(* deleted (finishLoad).                                                    *)
(***************************************************************************)
EXTENDS RequestQueue, Integers, FiniteSets

CONSTANTS ShellTypes,  \* values of the creation context's "shelltype", or Absent
          ViewCounts,  \* values of its "viewcount", or Absent
          Garbage,     \* what an int nobody initialised may hold
          Absent       \* the creation context has no such key

ASSUME GroupsAssumption == Groups = {"main", "tab"}
ASSUME ViewsAssumption == IsFiniteSet(Views)
ASSUME CreateAssumption == InitialIncreases = 5
ASSUME OptionsAssumption ==
  /\ (ShellTypes \cup ViewCounts) \ {Absent} \subseteq Int
  /\ Garbage \subseteq Int /\ Absent \notin Int

VARIABLES option,  \* the shell's option, m_type and m_viewCount
          group    \* the group whose list each view is in, or "none"

shellVars == <<vars, option, group>>

SINGLE_TAB == 0
FIXED_TAB == 1
NEW_TAB == 2

\* CreateBrowser.  The clamp of m_type asks for a value above NEW_TAB and below
\* SINGLE_TAB, so no value is clamped; a type that is not given is not set.
Options(shelltype, viewcount) ==
  [type : IF shelltype = Absent THEN Garbage ELSE {shelltype},
   viewCount : IF shelltype # FIXED_TAB THEN Garbage
               ELSE IF viewcount = Absent THEN {5} ELSE {viewcount}]

\* createBrowserViewGroup: what is neither fixed nor unlimited is a single tab.
IsNewTab == option.type = NEW_TAB
IsFixed == option.type = FIXED_TAB
IsSingle == ~IsNewTab /\ ~IsFixed

\* Type invariant; the groups' lists hold the live views and no others.
GroupTypeOK ==
  /\ TypeOK
  /\ option \in [type : Int, viewCount : Int]
  /\ group \in [Views -> Groups \cup {"none"}]
  /\ \A v \in Views : group[v] = "none" <=> viewState[v] \in {"free", "deleted"}

ViewsOf(g) == {v \in Views : group[v] = g}
Size(g) == Cardinality(ViewsOf(g))

\* createBrowserViewGroup: m_maxCount of the fixed group.
MaxCount == IF option.viewCount < 0 THEN 5
            ELSE IF option.viewCount > 800 THEN 800 ELSE option.viewCount

CanGetBusyView == TRUE \* mutant: NolimitedTab's answer for every group
CanGetAllButOne == Size("main") + 1 < MaxCount \* mutant: off by one

\* canGetMoreBrowserView of m_browserViewGroup.
CanGetMoreBrowserView ==
  \/ IsNewTab
  \/ IsSingle /\ ViewsOf("main") = {}
  \/ IsFixed /\ Size("main") < MaxCount

\* The groups are read without a lock, on the thread that asks; a read that
\* races the main thread sees the group before or after its change.
CanCreateNewTab(queueSize) == queueSize > 3 * (Size("main") + Size("tab"))

\* tryToIncreaseBrowserView: the tasks the caller leaves on the main loop.
TryToIncreaseBrowserView(queueSize) ==
  IF queueSize <= 0 THEN mainTasks
  ELSE IF CanGetMoreBrowserView THEN Append(mainTasks, IncreaseTask("main"))
  ELSE IF CanCreateNewTab(queueSize) THEN Append(mainTasks, IncreaseTask("tab"))
  ELSE mainTasks

\* BrowserQueue::size() reads m_incomeQueue without the lock: while a client is
\* pushing, the value is undefined.
ObservedSizes == IF LockFree THEN {Len(work) + Len(income)} ELSE 0..(MaxRequests + 1)

-----------------------------------------------------------------------------
ShellInit ==
  /\ Init
  /\ \E shelltype \in ShellTypes, viewcount \in ViewCounts :
       option \in Options(shelltype, viewcount)
  /\ startup = IF IsFixed THEN 5 ELSE 1
  /\ group = [v \in Views |-> "none"]

Create == /\ CreateIncrease
          /\ mainTasks' = TryToIncreaseBrowserView(1)
          /\ UNCHANGED <<option, group>>

IncreaseConsumerIfNeeded ==
  /\ IncreaseConsumer
  /\ mainPc = "run" => \E n \in ObservedSizes : mainTasks' = TryToIncreaseBrowserView(n)
  /\ UNCHANGED <<option, group>>

\* getBrowserView, returning a view: a new one, or the single group's only one.
NewView(g) ==
  \E v \in Views : /\ viewState[v] = "free" /\ Ask(v)
                   /\ group' = [group EXCEPT ![v] = g]

GetUncheckedView(g) == NewView(g) \* mutant: m_maxCount is not looked at again

GetBrowserView(g) ==
  \/ g = "tab" /\ NewView(g)
  \/ g = "main" /\ IsNewTab /\ NewView(g)
  \/ g = "main" /\ IsFixed /\ Size(g) < MaxCount /\ NewView(g)
  \/ g = "main" /\ IsFixed /\ Size(g) >= MaxCount /\ UNCHANGED <<peekTasks, viewState, group>>
  \/ g = "main" /\ IsSingle /\ ViewsOf(g) = {} /\ NewView(g)
  \/ g = "main" /\ IsSingle /\ UNCHANGED group /\ \E v \in ViewsOf(g) : Ask(v)

ShellIncreaseBrowserView ==
  /\ mainPc = "run" /\ mainTasks # <<>> /\ Head(mainTasks).task = "increase"
  /\ mainTasks' = Tail(mainTasks)
  /\ GetBrowserView(Head(mainTasks).group)
  /\ UNCHANGED <<queueVars, event, receiverVars, mainPc, receiveDelete, lastLoaded, clientVars,
                 option>>

AllObserved(v) == TRUE \* mutant: every group registers itself
TabObserved(v) == group[v] = "tab" \* mutant: only the second group does

\* prepareDoNextRequest.  Only NolimitedTabBrowserViewGroup observes its views.
HasObserver(v) == (group[v] = "tab") \/ IsNewTab

PrepareKeepsList(v) == \* mutant: finishLoad forgets m_windowList.remove
  (IF HasObserver(v) THEN FinishLoad(v) ELSE NextRequest(v)) /\ UNCHANGED <<option, group>>

PrepareDoNextRequest(v) ==
  \/ ~HasObserver(v) /\ NextRequest(v) /\ UNCHANGED <<option, group>>
  \/ HasObserver(v) /\ FinishLoad(v) /\ group' = [group EXCEPT ![v] = "none"] /\ UNCHANGED option

DeleteShell == WillDelete /\ group' = [v \in Views |-> "none"] /\ UNCHANGED option

ShellReceiver ==
  \/ (StartPeek \/ Peek \/ WaitReturns \/ Recheck \/ PostLoad) /\ UNCHANGED <<option, group>>
  \/ IncreaseConsumerIfNeeded

ShellMainLoop ==
  /\ Alive
  /\ \/ ShellIncreaseBrowserView
     \/ (LoadRequest \/ SignalDelete) /\ UNCHANGED <<option, group>>

Respond(v) == Alive /\ PrepareDoNextRequest(v)

ShellNext ==
  \/ ShellReceiver
  \/ ShellMainLoop
  \/ \E v \in Views : Respond(v)
  \/ Alive /\ Create
  \/ Alive /\ DeleteShell
  \/ Alive /\ StopMain /\ UNCHANGED <<option, group>>
  \/ \E c \in Clients : Client(c) /\ UNCHANGED <<option, group>>

\* As in RequestQueue; create() runs on, and every load ends in a response (a
\* timer stops the load at the latest; ViewResponse.tla).
ShellFairness ==
  /\ WF_shellVars(ShellReceiver)
  /\ WF_shellVars(ShellMainLoop)
  /\ WF_shellVars(Alive /\ Create)
  /\ \A v \in Views : WF_shellVars(Respond(v))
  /\ \A c \in Clients :
       WF_shellVars(Alive /\ (AppendRequest(c) \/ SignalRequest(c)) /\ UNCHANGED <<option, group>>)

ShellSpec == ShellInit /\ [][ShellNext]_shellVars /\ ShellFairness

-----------------------------------------------------------------------------
(* Properties. *)

\* The shell keeps the queue's rules: in particular tryToIncreaseBrowserView,
\* which tests a group on one thread and takes a view from it on another, never
\* makes a busy view (the single tab) ask a second time.
QueueSpec == Init /\ [][Next]_vars

\* However many increases are in flight when a fixed group fills up, it never
\* holds more than m_maxCount views, and the single group never more than one.
MainGroupBounded ==
  /\ IsFixed => Size("main") <= MaxCount
  /\ IsSingle => Size("main") <= 1

\* Why no increase ever meets the single tab: create()'s only one is on its way
\* until the tab is there, and none is posted for its group afterwards.
SingleTabFirst ==
  IsSingle /\ mainPc = "run" =>
    IF ViewsOf("main") = {}
    THEN /\ \A v \in Views : group[v] = "none"
         /\ receiverPc = "idle" /\ peekTasks = <<>>
         /\ \/ startup = 1 /\ mainTasks = <<>>
            \/ startup = 0 /\ mainTasks = <<IncreaseTask("main")>>
    ELSE /\ startup = 0
         /\ \A i \in DOMAIN mainTasks :
              mainTasks[i].task = "increase" => mainTasks[i].group = "tab"

\* The inductive invariant of the proofs.
ShellInv == IInv /\ GroupTypeOK /\ SingleTabFirst /\ MainGroupBounded

\* In NEW_TAB mode at most one consumer is ever in line or on its way: each
\* peek that did not wait replaces the consumer it served, no more.
AskOrIncrease ==
  Len(peekTasks) + (IF view = NoView THEN 0 ELSE 1)
    + (IF receiverPc = "increase" THEN 1 ELSE 0) + startup
    + Cardinality({i \in DOMAIN mainTasks : mainTasks[i].task = "increase"})
OneConsumerInLine == IsNewTab /\ mainPc = "run" => AskOrIncrease <= 1

\* create() of a fixed shell makes its first five views, or all m_maxCount.
StartupFillsGroup ==
  IsFixed =>
    <>(Size("main") >= (IF MaxCount < 5 THEN MaxCount ELSE 5) \/ mainPc # "run")

\* Some view of the shell stays to ask again: not one is deleted by its answer.
KeepsAView == IsSingle \/ (IsFixed /\ MaxCount > 0)

\* Every request BrowserLoad accepted is loaded by a view, unless the shell is
\* released before, whatever type the shell was created with or was left with;
\* but not when every view is deleted once it answered.
EveryRequestLoaded ==
  KeepsAView =>
    \A r \in Requests : (requestNumber >= r) ~> (lastLoaded >= r \/ mainPc # "run")

\* BrowserQueueManager.cpp:71: "doWait > 0 means the queue is empty for current
\* webview. so, there is no need to increase consumer."  If there is no need,
\* what is queued after such a peek is loaded all the same.
NoNeedToIncreaseConsumer ==
  \A r \in Requests :
    (requestNumber >= r /\ receiverPc = "idle" /\ doWait)
      ~> (lastLoaded >= r \/ mainPc # "run")
=============================================================================
