---------------------------- MODULE RequestQueue ----------------------------
(***************************************************************************)
(* The request queue of LightBrowser: SimpleBrowserQueue (two std::queues,  *)
(* a lock, an auto-reset event) and BrowserQueueManager, which runs on      *)
(* three kinds of thread.                                                   *)
(*                                                                          *)
(*   client threads   BrowserLoad: appendRequest under the lock, then a     *)
(*                    signal if the income queue was empty;                 *)
(*   receiver thread  peekRequestFormQueue: peek, wait, peek again, post    *)
(*                    the request to the main loop, maybe ask for one more  *)
(*                    consumer;                                             *)
(*   main thread      increaseBrowserView, loadRequest, the "next request"  *)
(*                    of a view that answered, and ~BrowserShell.           *)
(*                                                                          *)
(* Which group a new view comes from, and when one is wanted, is left open  *)
(* here and closed by BrowserShell.tla.  A request is the number            *)
(* m_requestNumber had when it was appended.                                *)
(***************************************************************************)
EXTENDS Naturals, Sequences, FiniteSets

CONSTANTS Clients,          \* threads that call BrowserLoad
          Views,            \* addresses a BrowserView can have
          Groups,           \* view groups an increase can be posted for
          NoView,           \* the NULL view
          MaxRequests,      \* bound on m_requestNumber
          InitialIncreases  \* most calls of tryToIncreaseBrowserView in create()

ASSUME MaxRequestsAssumption == MaxRequests \in Nat
ASSUME InitialIncreasesAssumption == InitialIncreases \in Nat
ASSUME NoViewAssumption == NoView \notin Views

VARIABLES income,         \* m_incomeQueue, filled by clients under the lock
          work,           \* m_workQueue, touched by the receiver only
          requestNumber,  \* m_requestNumber
          event,          \* m_event, auto-reset
          receiveDelete,  \* m_reciveDelete
          startup,        \* increases create() has still to ask for
          clientPc,       \* where each client thread is in BrowserLoad
          receiverPc,     \* where the receiver is in peekRequestFormQueue
          view,           \* its parameter `view`
          request,        \* its local `request` once filled, else 0
          doWait,         \* its local `doWait` > 0
          peekTasks,      \* receiver message loop: views that asked
          mainTasks,      \* main message loop: loads and increases
          mainPc,         \* progress of ~BrowserShell and of the main thread
          viewState,      \* what the main thread knows of each view
          lastLoaded      \* the last request handed to BrowserView::load

queueVars    == <<income, work, requestNumber>>
receiverVars == <<receiverPc, view, request, doWait>>
mainVars     == <<mainPc, receiveDelete, viewState, lastLoaded>>
loops        == <<peekTasks, mainTasks>>
clientVars   == <<startup, clientPc>>
vars == <<queueVars, event, receiverVars, mainVars, loops, clientVars>>

LoadTask(v, r)  == [task |-> "load", view |-> v, request |-> r]
IncreaseTask(g) == [task |-> "increase", group |-> g]

Requests == 1..MaxRequests
Tasks == [task : {"load"}, view : Views, request : Requests]
           \cup [task : {"increase"}, group : Groups]

TypeOK ==
  /\ income \in Seq(Requests)
  /\ work \in Seq(Requests)
  /\ requestNumber \in 0..MaxRequests
  /\ event \in BOOLEAN
  /\ receiveDelete \in BOOLEAN
  /\ startup \in 0..InitialIncreases
  /\ clientPc \in [Clients -> {"idle", "append", "signal"}]
  /\ receiverPc \in {"idle", "peek", "wait", "woken", "post", "increase", "crashed"}
  /\ view \in Views \cup {NoView}
  /\ request \in 0..MaxRequests
  /\ doWait \in BOOLEAN
  /\ peekTasks \in Seq(Views)
  /\ mainTasks \in Seq(Tasks)
  /\ mainPc \in {"run", "signal", "done", "gone"}
  /\ viewState \in [Views -> {"free", "asked", "loading", "deleted"}]
  /\ lastLoaded \in 0..MaxRequests

Init ==
  /\ income = <<>> /\ work = <<>> /\ requestNumber = 0
  /\ event = FALSE
  /\ startup \in 1..InitialIncreases
  /\ clientPc = [c \in Clients |-> "idle"]
  /\ receiverPc = "idle" /\ view = NoView /\ request = 0 /\ doWait = FALSE
  /\ peekTasks = <<>> /\ mainTasks = <<>>
  /\ mainPc = "run" /\ receiveDelete = FALSE
  /\ viewState = [v \in Views |-> "free"]
  /\ lastLoaded = 0

-----------------------------------------------------------------------------
(* Client threads. *)

\* create() asks for its first consumers before it returns the shell; whether
\* the group grants one is the shell's business.
CreateIncrease ==
  /\ startup > 0
  /\ startup' = startup - 1
  /\ \/ UNCHANGED mainTasks
     \/ \E g \in Groups : mainTasks' = Append(mainTasks, IncreaseTask(g))
  /\ UNCHANGED <<queueVars, event, receiverVars, mainVars, peekTasks, clientPc>>

LockFree == \A c \in Clients : clientPc[c] # "append"

EnterUnlocked(c) == \* mutant: the lock is not taken
  /\ clientPc[c] = "idle" /\ startup = 0 /\ mainPc = "run"
  /\ requestNumber < MaxRequests
  /\ clientPc' = [clientPc EXCEPT ![c] = "append"]
  /\ UNCHANGED <<queueVars, event, receiverVars, mainVars, loops, startup>>

\* addRequestToQueue up to the acquisition of m_incomeQueueLock.  A client
\* does not call BrowserLoad before create() returned nor after ReleaseBrowser.
EnterAppend(c) ==
  /\ clientPc[c] = "idle" /\ startup = 0 /\ mainPc = "run"
  /\ requestNumber < MaxRequests
  /\ LockFree
  /\ clientPc' = [clientPc EXCEPT ![c] = "append"]
  /\ UNCHANGED <<queueVars, event, receiverVars, mainVars, loops, startup>>

AppendAfterPush(c) == \* mutant: empty() is asked after the push
  /\ clientPc[c] = "append"
  /\ requestNumber' = requestNumber + 1
  /\ income' = Append(income, requestNumber + 1)
  /\ clientPc' = [clientPc EXCEPT ![c] = IF income' = <<>> THEN "signal" ELSE "idle"]
  /\ UNCHANGED <<work, event, receiverVars, mainVars, loops, startup>>

\* The critical section of appendRequest; only the client that found the
\* income queue empty goes on to signal.
AppendRequest(c) ==
  /\ clientPc[c] = "append"
  /\ requestNumber' = requestNumber + 1
  /\ income' = Append(income, requestNumber + 1)
  /\ clientPc' = [clientPc EXCEPT ![c] = IF income = <<>> THEN "signal" ELSE "idle"]
  /\ UNCHANGED <<work, event, receiverVars, mainVars, loops, startup>>

SignalRequest(c) ==
  /\ clientPc[c] = "signal"
  /\ event' = TRUE
  /\ clientPc' = [clientPc EXCEPT ![c] = "idle"]
  /\ UNCHANGED <<queueVars, receiverVars, mainVars, loops, startup>>

-----------------------------------------------------------------------------
(* Receiver thread: BrowserQueueManager::peekRequestFormQueue(view). *)

StartPeek ==
  /\ receiverPc = "idle" /\ peekTasks # <<>>
  /\ peekTasks' = Tail(peekTasks)
  /\ IF receiveDelete
       THEN UNCHANGED receiverVars
       ELSE /\ receiverPc' = "peek" /\ view' = Head(peekTasks) /\ doWait' = FALSE
            /\ UNCHANGED request
  /\ UNCHANGED <<queueVars, event, mainVars, mainTasks, clientVars>>

LoadFromBack == \* mutant: the newest request comes out first
  IF work = <<>> /\ income # <<>>
  THEN [work |-> <<income[Len(income)]>>, income |-> SubSeq(income, 1, Len(income) - 1)]
  ELSE [work |-> work, income |-> income]

\* loadRequests: the two queues change places when the work queue is empty.
LoadRequests ==
  IF work = <<>> THEN [work |-> income, income |-> <<>>]
                 ELSE [work |-> work, income |-> income]

\* peekRequest.  The lock is needed only to look at the income queue.
Peek ==
  /\ receiverPc = "peek"
  /\ work = <<>> => LockFree
  /\ LET q == LoadRequests IN
       /\ income' = q.income
       /\ IF q.work = <<>>
            THEN receiverPc' = "wait" /\ work' = <<>> /\ UNCHANGED request
            ELSE receiverPc' = "post" /\ work' = Tail(q.work) /\ request' = Head(q.work)
  /\ UNCHANGED <<requestNumber, event, view, doWait, mainVars, loops, clientVars>>

\* WaitableEvent::Wait returns and resets the event.
WaitReturns ==
  /\ receiverPc = "wait" /\ event
  /\ event' = FALSE
  /\ receiverPc' = "woken"
  /\ UNCHANGED <<queueVars, view, request, doWait, mainVars, loops, clientVars>>

Recheck ==
  /\ receiverPc = "woken"
  /\ IF receiveDelete
       THEN receiverPc' = "idle" /\ view' = NoView /\ UNCHANGED doWait
       ELSE receiverPc' = "peek" /\ doWait' = TRUE /\ UNCHANGED view
  /\ UNCHANGED <<queueVars, event, request, mainVars, loops, clientVars>>

\* PostTask through a main thread that destroy() already deleted is a crash.
PostLoad ==
  /\ receiverPc = "post"
  /\ IF mainPc = "gone"
       THEN receiverPc' = "crashed" /\ UNCHANGED <<view, request, mainTasks>>
       ELSE /\ mainTasks' = Append(mainTasks, LoadTask(view, request))
            /\ receiverPc' = IF doWait THEN "idle" ELSE "increase"
            /\ view' = NoView /\ request' = 0
  /\ UNCHANGED <<queueVars, event, doWait, mainVars, peekTasks, clientVars>>

\* increaseConsumerIfNeeded: the shell posts an increase or not.  It is reached
\* through s_browserShell, whose groups ~BrowserShell deletes first ("signal":
\* undefined) and which is NULL afterwards (a crash).
IncreaseConsumer ==
  /\ receiverPc = "increase"
  /\ \/ /\ mainPc = "run" /\ receiverPc' = "idle"
        /\ \/ UNCHANGED mainTasks
           \/ \E g \in Groups : mainTasks' = Append(mainTasks, IncreaseTask(g))
     \/ mainPc = "signal" /\ receiverPc' \in {"idle", "crashed"} /\ UNCHANGED mainTasks
     \/ mainPc \in {"done", "gone"} /\ receiverPc' = "crashed" /\ UNCHANGED mainTasks
  /\ UNCHANGED <<queueVars, event, view, request, doWait, mainVars, peekTasks, clientVars>>

-----------------------------------------------------------------------------
(* Main thread. *)

\* tryToLoadNextRequest(v): view v asks for a request.
Ask(v) ==
  /\ peekTasks' = Append(peekTasks, v)
  /\ viewState' = [viewState EXCEPT ![v] = "asked"]

IncreaseBusyView == \* mutant: any view may be got, one that loads included
  /\ mainPc = "run" /\ mainTasks # <<>> /\ Head(mainTasks).task = "increase"
  /\ mainTasks' = Tail(mainTasks)
  /\ \E v \in Views : Ask(v)
  /\ UNCHANGED <<queueVars, event, receiverVars, mainPc, receiveDelete, lastLoaded, clientVars>>

\* increaseBrowserView: getBrowserView returns NULL or a view created just now.
IncreaseBrowserView ==
  /\ mainPc = "run" /\ mainTasks # <<>> /\ Head(mainTasks).task = "increase"
  /\ mainTasks' = Tail(mainTasks)
  /\ \/ UNCHANGED <<peekTasks, viewState>>
     \/ \E v \in Views : viewState[v] = "free" /\ Ask(v)
  /\ UNCHANGED <<queueVars, event, receiverVars, mainPc, receiveDelete, lastLoaded, clientVars>>

\* loadRequest.  A task that outlived the shell finds its view deleted.
LoadRequest ==
  /\ mainPc \in {"run", "done"} /\ mainTasks # <<>> /\ Head(mainTasks).task = "load"
  /\ LET t == Head(mainTasks) IN
       /\ lastLoaded' = t.request
       /\ viewState' = IF viewState[t.view] = "deleted" THEN viewState
                       ELSE [viewState EXCEPT ![t.view] = "loading"]
  /\ mainTasks' = Tail(mainTasks)
  /\ UNCHANGED <<queueVars, event, receiverVars, mainPc, receiveDelete, peekTasks, clientVars>>

\* prepareDoNextRequest of a view without observer: it asks again.
NextRequest(v) ==
  /\ mainPc = "run" /\ viewState[v] = "loading"
  /\ Ask(v)
  /\ UNCHANGED <<queueVars, event, receiverVars, mainPc, receiveDelete, lastLoaded,
                 mainTasks, clientVars>>

\* prepareDoNextRequest of a view with an observer: finishLoad deletes it, and
\* its address can be that of a later view.
FinishLoad(v) ==
  /\ mainPc = "run" /\ viewState[v] = "loading"
  /\ viewState' = [viewState EXCEPT ![v] = "free"]
  /\ UNCHANGED <<queueVars, event, receiverVars, mainPc, receiveDelete, lastLoaded,
                 loops, clientVars>>

\* ~BrowserShell runs when the last reference goes: a posted increase holds one.
\* It deletes the views, then willDelete sets the flag, then signals.
WillDelete ==
  /\ mainPc = "run" /\ startup = 0
  /\ \A c \in Clients : clientPc[c] = "idle"
  /\ \A i \in DOMAIN mainTasks : mainTasks[i].task # "increase"
  /\ mainPc' = "signal" /\ receiveDelete' = TRUE
  /\ viewState' = [v \in Views |-> "deleted"]
  /\ UNCHANGED <<queueVars, event, receiverVars, lastLoaded, loops, clientVars>>

DeleteUnsignalled == \* mutant: willDelete sets the flag only
  /\ mainPc = "signal"
  /\ mainPc' = "done"
  /\ UNCHANGED <<queueVars, event, receiverVars, receiveDelete, viewState, lastLoaded, loops,
                 clientVars>>

SignalDelete ==
  /\ mainPc = "signal"
  /\ event' = TRUE
  /\ mainPc' = "done"
  /\ UNCHANGED <<queueVars, receiverVars, receiveDelete, viewState, lastLoaded, loops, clientVars>>

\* destroy() stops the main thread, which runs what was posted before it exits.
StopMain ==
  /\ mainPc = "done" /\ mainTasks = <<>>
  /\ mainPc' = "gone"
  /\ UNCHANGED <<queueVars, event, receiverVars, receiveDelete, viewState, lastLoaded,
                 loops, clientVars>>

-----------------------------------------------------------------------------
Alive == receiverPc # "crashed"

Receiver == StartPeek \/ Peek \/ WaitReturns \/ Recheck \/ PostLoad \/ IncreaseConsumer

Client(c) == Alive /\ (EnterAppend(c) \/ AppendRequest(c) \/ SignalRequest(c))

\* What the main loop does by itself: its posted tasks, and the rest of a
\* destruction that has begun.
MainLoop == Alive /\ (IncreaseBrowserView \/ LoadRequest \/ SignalDelete)

Main == \/ MainLoop
        \/ Alive /\ (WillDelete \/ StopMain \/ \E v \in Views : NextRequest(v) \/ FinishLoad(v))

Next == \/ Receiver
        \/ Main
        \/ Alive /\ CreateIncrease
        \/ \E c \in Clients : Client(c)

\* Threads are scheduled: the receiver and the main loop keep running their
\* tasks, and a client inside BrowserLoad comes out of it.
Fairness ==
  /\ WF_vars(Receiver)
  /\ WF_vars(MainLoop)
  /\ \A c \in Clients : WF_vars(Alive /\ (AppendRequest(c) \/ SignalRequest(c)))

Spec == Init /\ [][Next]_vars /\ Fairness

-----------------------------------------------------------------------------
(* Properties. *)

\* A receiver asleep in m_event.Wait() while a request is queued is about to be
\* woken: the event is set, or a client is between appendRequest and signal().
\* Only the client that found the income queue empty signals, and the receiver
\* empties that queue without looking at the event (addRequestToQueue,
\* peekRequestFormQueue).
NoLostWakeup ==
  receiverPc = "wait" =>
    /\ work = <<>>
    /\ income # <<>> => event \/ \E c \in Clients : clientPc[c] = "signal"

\* willDelete sets m_reciveDelete and then signals; a receiver that may still
\* go to sleep, or sleeps, finds the event set or about to be.
DeleteWakesReceiver ==
  receiveDelete /\ receiverPc \in {"peek", "wait"} => event \/ mainPc = "signal"

Taken  == requestNumber - Len(income) - Len(work)  \* requests popped so far
Posted == IF request = 0 THEN Taken ELSE Taken - 1 \* and posted to the main loop

IsLoad(t) == t.task = "load"

\* The loads among the tasks carry lo+1 .. hi, each once, in that order.
LoadsInOrder(tasks, lo, hi) ==
  /\ lo <= hi
  /\ \A i \in DOMAIN tasks : IsLoad(tasks[i]) => tasks[i].request \in (lo + 1)..hi
  /\ \A i, j \in DOMAIN tasks :
       IsLoad(tasks[i]) /\ IsLoad(tasks[j]) /\ i < j => tasks[i].request < tasks[j].request
  /\ \A r \in (lo + 1)..hi : \E i \in DOMAIN tasks : IsLoad(tasks[i]) /\ tasks[i].request = r

\* Through both queues, the receiver and the main loop, requests travel in the
\* order they were appended, none lost and none twice: what is in flight is
\* exactly lastLoaded+1 .. requestNumber, oldest first.
InOrder ==
  /\ \A i \in DOMAIN income : income[i] = Taken + Len(work) + i
  /\ \A i \in DOMAIN work : work[i] = Taken + i
  /\ request # 0 => request = Taken
  /\ LoadsInOrder(mainTasks, lastLoaded, Posted)

\* Where view v can stand in line for a request besides the receiver itself.
AsksInLoop(v)  == \E i \in DOMAIN peekTasks : peekTasks[i] = v
HasLoadTask(v) == \E i \in DOMAIN mainTasks : IsLoad(mainTasks[i]) /\ mainTasks[i].view = v

\* A view stands in line at most once, and only while it has nothing to load:
\* no second load can replace the context of one that runs (BrowserView::load
\* deletes the old context), and no view waits for an ask nobody will answer.
OneAskPerView ==
  /\ \A i, j \in DOMAIN peekTasks : peekTasks[i] = peekTasks[j] => i = j
  /\ \A i, j \in DOMAIN mainTasks :
       IsLoad(mainTasks[i]) /\ IsLoad(mainTasks[j]) /\ mainTasks[i].view = mainTasks[j].view
         => i = j
  /\ \A v \in Views :
       /\ ~(AsksInLoop(v) /\ HasLoadTask(v))
       /\ view = v => ~AsksInLoop(v) /\ ~HasLoadTask(v)
       /\ viewState[v] \in {"free", "loading"} =>
            view # v /\ ~AsksInLoop(v) /\ ~HasLoadTask(v)
       /\ viewState[v] = "asked" => view = v \/ AsksInLoop(v) \/ HasLoadTask(v)

\* Once ~BrowserShell has run, the receiver leaves peekRequestFormQueue and
\* drops every view that still waits, so `delete s_browserReceiverThread` ends.
DeleteReleasesReceiver ==
  mainPc = "done" ~> (~Alive \/ (receiverPc = "idle" /\ peekTasks = <<>>))

\* How the control state of the three threads fits together: the lock excludes,
\* the flag and the deleted views follow ~BrowserShell, and the receiver's
\* locals are set exactly where peekRequestFormQueue has them.
Control ==
  /\ \A c, d \in Clients : clientPc[c] = "append" /\ clientPc[d] = "append" => c = d
  /\ \A c \in Clients : clientPc[c] = "append" => requestNumber < MaxRequests
  /\ receiveDelete <=> mainPc # "run"
  /\ \A v \in Views : viewState[v] = "deleted" <=> mainPc # "run"
  /\ receiverPc \in {"peek", "wait", "woken", "post"} => view # NoView
  /\ receiverPc \in {"idle", "increase"} => view = NoView
  /\ receiverPc = "post" => request # 0
  /\ receiverPc \in {"idle", "peek", "wait", "woken", "increase"} => request = 0

\* The inductive invariant of the proofs.
IInv == TypeOK /\ Control /\ NoLostWakeup /\ DeleteWakesReceiver /\ InOrder /\ OneAskPerView

-----------------------------------------------------------------------------
(* The two queues, the event and the receiver implement one FIFO channel. *)

\* The requests in the main loop, with the views they were given to, in order.
Loads ==
  LET at == {i \in DOMAIN mainTasks : IsLoad(mainTasks[i])}
      nth(k) == CHOOSE i \in at : Cardinality({j \in at : j <= i}) = k
  IN  [k \in 1..Cardinality(at) |-> [view |-> mainTasks[nth(k)].view,
                                    request |-> mainTasks[nth(k)].request]]

Waiting == (IF receiverPc \in {"peek", "wait", "woken"} THEN <<view>> ELSE <<>>) \o peekTasks
Handed == Loads \o (IF request = 0 THEN <<>> ELSE <<[view |-> view, request |-> request]>>)
ChannelState == IF ~Alive THEN "crashed" ELSE IF receiveDelete THEN "closed" ELSE "open"

Channel == INSTANCE RequestChannel WITH
  queue <- work \o income, sent <- requestNumber, waiting <- Waiting,
  handed <- Handed, channel <- ChannelState

\* RequestChannel's order, exactly-once hand-over and "a request and a consumer
\* that are both there meet" hold of the implementation.
ChannelSpec == Channel!Spec
=============================================================================
