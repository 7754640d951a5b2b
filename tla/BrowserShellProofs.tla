------------------------- MODULE BrowserShellProofs -------------------------
(***************************************************************************)
(* The request queue and the shell on top of it, for every number of       *)
(* clients, views, requests and start-up increases, and for every type and *)
(* count of views.                                                         *)
(*                                                                         *)
(* 1. The queue (RequestQueue.tla).  IInv is inductive: InitInv is the     *)
(* base, StepType, StepControl, StepWakeup, StepInOrder and StepOneAsk     *)
(* are its parts over one step, and InvHolds puts them together.           *)
(*                                                                         *)
(* 2. The channel (RequestChannel.tla).  The queue implements its safety   *)
(* part: QueueImplementsChannel.                                           *)
(*                                                                         *)
(* 3. The shell (BrowserShell.tla).  That the shell keeps the queue's      *)
(* rules (QueueSpec) rests on SingleTabFirst, whose proof uses the         *)
(* queue's own invariant, which holds because the shell keeps the rules:   *)
(* ShellInv has them all and is inductive.  That a NEW_TAB shell has one   *)
(* consumer in line (OneConsumer) is a second induction, on the place      *)
(* where it is.                                                            *)
(***************************************************************************)
EXTENDS BrowserShell, TLAPS, SequenceTheorems, FiniteSetTheorems

USE MaxRequestsAssumption, InitialIncreasesAssumption, NoViewAssumption

(***************************************************************************)
(* 1. The queue.                                                           *)
(***************************************************************************)

\* What Append does to a queue, as PostTask and push use it.
LEMMA Pushed ==
  ASSUME NEW S, NEW s \in Seq(S), NEW e \in S
  PROVE  /\ Append(s, e) \in Seq(S)
         /\ Append(s, e) # <<>>
         /\ Len(Append(s, e)) = Len(s) + 1
         /\ DOMAIN Append(s, e) = 1..(Len(s) + 1)
         /\ \A i \in 1..Len(s) : Append(s, e)[i] = s[i]
         /\ Append(s, e)[Len(s) + 1] = e
  BY AppendProperties, LenProperties

\* What Tail does to a queue that is not empty, as the loops and pop use it.
LEMMA Popped ==
  ASSUME NEW S, NEW s \in Seq(S), s # <<>>
  PROVE  /\ Head(s) \in S /\ Head(s) = s[1]
         /\ Tail(s) \in Seq(S)
         /\ Len(s) >= 1
         /\ Len(Tail(s)) = Len(s) - 1
         /\ DOMAIN Tail(s) = 1..(Len(s) - 1)
         /\ \A i \in 1..(Len(s) - 1) : Tail(s)[i] = s[i + 1]
<1>1. Tail(s) \in Seq(S) /\ Len(Tail(s)) = Len(s) - 1 /\ Head(s) \in S
      /\ \A i \in 1..Len(Tail(s)) : Tail(s)[i] = s[i + 1]
  BY HeadTailProperties
<1>2. DOMAIN Tail(s) = 1..Len(Tail(s))
  BY <1>1, LenProperties
<1>3. Len(s) >= 1
  BY EmptySeq, LenProperties
<1> QED
  BY <1>1, <1>2, <1>3

\* The shell comes up with empty queues, and the inductive invariant holds.
LEMMA InitInv == Init => IInv
<1> SUFFICES ASSUME Init PROVE IInv
  OBVIOUS
<1> USE DEF Init
<1>1. \A S : <<>> \in Seq(S) /\ Len(<<>>) = 0 /\ DOMAIN <<>> = {}
  BY EmptySeq
<1>2. TypeOK
  <2>1. income \in Seq(Requests) /\ work \in Seq(Requests)
        /\ peekTasks \in Seq(Views) /\ mainTasks \in Seq(Tasks)
    BY <1>1
  <2>2. /\ clientPc \in [Clients -> {"idle", "append", "signal"}]
        /\ viewState \in [Views -> {"free", "asked", "loading", "deleted"}]
    OBVIOUS
  <2>3. /\ requestNumber \in 0..MaxRequests /\ startup \in 0..InitialIncreases
        /\ request \in 0..MaxRequests /\ lastLoaded \in 0..MaxRequests
    OBVIOUS
  <2>4. /\ event \in BOOLEAN /\ receiveDelete \in BOOLEAN /\ doWait \in BOOLEAN
        /\ view \in Views \cup {NoView} /\ receiverPc = "idle" /\ mainPc = "run"
    OBVIOUS
  <2> HIDE DEF Init
  <2> QED
    BY <2>1, <2>2, <2>3, <2>4 DEF TypeOK
<1>3. Control /\ NoLostWakeup /\ DeleteWakesReceiver
  BY DEF Control, NoLostWakeup, DeleteWakesReceiver
<1>4. InOrder
  BY <1>1 DEF InOrder, LoadsInOrder, Taken, Posted, IsLoad
<1>5. OneAskPerView
  BY <1>1 DEF OneAskPerView, IsLoad, AsksInLoop, HasLoadTask
<1> QED
  BY <1>2, <1>3, <1>4, <1>5 DEF IInv

\* The tasks posted to the main loop are well formed.
LEMMA TaskType ==
  /\ \A v \in Views, r \in Requests : LoadTask(v, r) \in Tasks
  /\ \A g \in Groups : IncreaseTask(g) \in Tasks
  /\ \A t \in Tasks : t.task = "load" => t.view \in Views /\ t.request \in Requests
BY DEF LoadTask, IncreaseTask, Tasks

\* No step of any thread takes a variable out of its type.
LEMMA StepType ==
  ASSUME TypeOK, Control, [Next]_vars
  PROVE  TypeOK'
<1> USE DEF TypeOK
<1>p. /\ \A t \in Tasks : Append(mainTasks, t) \in Seq(Tasks)
      /\ \A v \in Views : Append(peekTasks, v) \in Seq(Views)
  BY Pushed
<1>1. ASSUME CreateIncrease PROVE TypeOK'
  <2>1. mainTasks' \in Seq(Tasks)
    BY <1>1, <1>p, TaskType DEF CreateIncrease
  <2> QED
    BY <1>1, <2>1 DEF CreateIncrease, queueVars, receiverVars, mainVars, clientVars
<1>2. ASSUME NEW c \in Clients, EnterAppend(c) PROVE TypeOK'
  BY <1>2 DEF EnterAppend, queueVars, receiverVars, mainVars, loops
<1>3. ASSUME NEW c \in Clients, AppendRequest(c) PROVE TypeOK'
  <2>1. requestNumber + 1 \in Requests
    BY <1>3 DEF AppendRequest, Requests, Control
  <2>2. Append(income, requestNumber + 1) \in Seq(Requests)
    BY <2>1, Pushed
  <2> QED
    BY <1>3, <2>1, <2>2 DEF AppendRequest, Requests, receiverVars, mainVars, loops
<1>4. ASSUME NEW c \in Clients, SignalRequest(c) PROVE TypeOK'
  BY <1>4 DEF SignalRequest, queueVars, receiverVars, mainVars, loops
<1>5. CASE StartPeek
  <2>1. Head(peekTasks) \in Views /\ Tail(peekTasks) \in Seq(Views)
    BY <1>5, Popped DEF StartPeek
  <2> QED
    BY <1>5, <2>1 DEF StartPeek, queueVars, receiverVars, mainVars, clientVars
<1>6. CASE Peek
  <2>1. /\ LoadRequests.work \in Seq(Requests)
        /\ LoadRequests.income \in Seq(Requests)
    BY EmptySeq DEF LoadRequests
  <2>2. LoadRequests.work # <<>> =>
          /\ Head(LoadRequests.work) \in Requests
          /\ Tail(LoadRequests.work) \in Seq(Requests)
    BY <2>1, Popped
  <2>3. income' \in Seq(Requests)
    BY <1>6, <2>1 DEF Peek
  <2>4. CASE LoadRequests.work = <<>>
    <3>1. work' = <<>> /\ receiverPc' = "wait" /\ request' = request
      BY <1>6, <2>4 DEF Peek
    <3>2. work' \in Seq(Requests)
      BY <3>1, EmptySeq
    <3> QED
      BY <1>6, <2>3, <3>1, <3>2 DEF Peek, mainVars, loops, clientVars
  <2>5. CASE LoadRequests.work # <<>>
    <3>1. work' \in Seq(Requests) /\ request' \in Requests /\ receiverPc' = "post"
      BY <1>6, <2>2, <2>5 DEF Peek
    <3> QED
      BY <1>6, <2>3, <3>1 DEF Peek, Requests, mainVars, loops, clientVars
  <2> QED
    BY <2>4, <2>5
<1>7. CASE WaitReturns
  BY <1>7 DEF WaitReturns, queueVars, mainVars, loops, clientVars
<1>8. CASE Recheck
  BY <1>8 DEF Recheck, queueVars, mainVars, loops, clientVars
<1>9. CASE PostLoad
  <2>1. LoadTask(view, request) \in Tasks
    BY <1>9, TaskType DEF PostLoad, Control, Requests
  <2>2. mainTasks' \in Seq(Tasks)
    BY <1>9, <2>1, <1>p DEF PostLoad
  <2> QED
    BY <1>9, <2>2 DEF PostLoad, queueVars, mainVars, clientVars
<1>10. CASE IncreaseConsumer
  <2>1. mainTasks' \in Seq(Tasks)
    BY <1>10, TaskType, <1>p DEF IncreaseConsumer
  <2>2. receiverPc' \in {"idle", "crashed"}
    BY <1>10 DEF IncreaseConsumer
  <2> QED
    BY <1>10, <2>1, <2>2 DEF IncreaseConsumer, queueVars, mainVars, clientVars
<1>11. CASE IncreaseBrowserView
  <2>1. mainTasks' \in Seq(Tasks)
    BY <1>11, Popped DEF IncreaseBrowserView
  <2>2. peekTasks' \in Seq(Views) /\ viewState' \in [Views -> {"free", "asked", "loading", "deleted"}]
    BY <1>11, <1>p DEF IncreaseBrowserView, Ask
  <2> QED
    BY <1>11, <2>1, <2>2 DEF IncreaseBrowserView, queueVars, receiverVars, clientVars
<1>12. CASE LoadRequest
  <2>1. mainTasks' \in Seq(Tasks) /\ Head(mainTasks) \in Tasks
    BY <1>12, Popped DEF LoadRequest
  <2>2. Head(mainTasks).request \in Requests
    BY <1>12, <2>1, TaskType DEF LoadRequest
  <2>3. lastLoaded' \in 0..MaxRequests
    BY <1>12, <2>2 DEF LoadRequest, Requests
  <2>4. viewState' \in [Views -> {"free", "asked", "loading", "deleted"}]
    BY <1>12 DEF LoadRequest
  <2> QED
    BY <1>12, <2>1, <2>3, <2>4 DEF LoadRequest, queueVars, receiverVars, clientVars
<1>13. ASSUME NEW v \in Views, NextRequest(v) PROVE TypeOK'
  <2>1. peekTasks' \in Seq(Views)
    BY <1>13, <1>p DEF NextRequest, Ask
  <2> QED
    BY <1>13, <2>1 DEF NextRequest, Ask, queueVars, receiverVars, clientVars
<1>14. ASSUME NEW v \in Views, FinishLoad(v) PROVE TypeOK'
  BY <1>14 DEF FinishLoad, loops, queueVars, receiverVars, clientVars
<1>15. CASE WillDelete
  BY <1>15 DEF WillDelete, loops, queueVars, receiverVars, clientVars
<1>16. CASE SignalDelete
  BY <1>16 DEF SignalDelete, loops, queueVars, receiverVars, clientVars
<1>17. CASE StopMain
  BY <1>17 DEF StopMain, loops, queueVars, receiverVars, clientVars
<1>18. CASE UNCHANGED vars
  BY <1>18 DEF vars, loops, queueVars, receiverVars, mainVars, clientVars
<1> QED
  BY <1>1, <1>2, <1>3, <1>4, <1>5, <1>6, <1>7, <1>8, <1>9, <1>10, <1>11, <1>12,
     <1>13, <1>14, <1>15, <1>16, <1>17, <1>18
     DEF Next, Receiver, Main, MainLoop, Client

\* The lock, m_reciveDelete and the receiver's locals keep fitting together.
LEMMA StepControl ==
  ASSUME TypeOK, Control, [Next]_vars
  PROVE  Control'
<1> USE DEF TypeOK, Control
<1>1. CASE CreateIncrease
  BY <1>1 DEF CreateIncrease, queueVars, receiverVars, mainVars, clientVars
<1>2. ASSUME NEW c \in Clients, EnterAppend(c) PROVE Control'
  BY <1>2 DEF EnterAppend, LockFree, queueVars, receiverVars, mainVars, loops
<1>3. ASSUME NEW c \in Clients, AppendRequest(c) PROVE Control'
  BY <1>3 DEF AppendRequest, receiverVars, mainVars, loops
<1>4. ASSUME NEW c \in Clients, SignalRequest(c) PROVE Control'
  BY <1>4 DEF SignalRequest, queueVars, receiverVars, mainVars, loops
<1>5. CASE StartPeek
  <2>1. Head(peekTasks) \in Views
    BY <1>5, Popped DEF StartPeek
  <2> QED
    BY <1>5, <2>1 DEF StartPeek, queueVars, receiverVars, mainVars, clientVars
<1>6. CASE Peek
  <2>1. LoadRequests.work # <<>> => Head(LoadRequests.work) \in Requests
    BY Popped, EmptySeq DEF LoadRequests
  <2> QED
    BY <1>6, <2>1 DEF Peek, Requests, mainVars, loops, clientVars
<1>7. CASE WaitReturns
  BY <1>7 DEF WaitReturns, queueVars, mainVars, loops, clientVars
<1>8. CASE Recheck
  BY <1>8 DEF Recheck, queueVars, mainVars, loops, clientVars
<1>9. CASE PostLoad
  BY <1>9 DEF PostLoad, queueVars, mainVars, clientVars
<1>10. CASE IncreaseConsumer
  BY <1>10 DEF IncreaseConsumer, queueVars, mainVars, clientVars
<1>11. CASE IncreaseBrowserView
  BY <1>11 DEF IncreaseBrowserView, Ask, queueVars, receiverVars, clientVars
<1>12. CASE LoadRequest
  BY <1>12 DEF LoadRequest, queueVars, receiverVars, clientVars
<1>13. ASSUME NEW v \in Views, NextRequest(v) PROVE Control'
  BY <1>13 DEF NextRequest, Ask, queueVars, receiverVars, clientVars
<1>14. ASSUME NEW v \in Views, FinishLoad(v) PROVE Control'
  BY <1>14 DEF FinishLoad, queueVars, receiverVars, loops, clientVars
<1>15. CASE WillDelete
  BY <1>15 DEF WillDelete, queueVars, receiverVars, loops, clientVars
<1>16. CASE SignalDelete
  BY <1>16 DEF SignalDelete, queueVars, receiverVars, loops, clientVars
<1>17. CASE StopMain
  BY <1>17 DEF StopMain, queueVars, receiverVars, loops, clientVars
<1>18. CASE UNCHANGED vars
  BY <1>18 DEF vars, loops, queueVars, receiverVars, mainVars, clientVars
<1> QED
  BY <1>1, <1>2, <1>3, <1>4, <1>5, <1>6, <1>7, <1>8, <1>9, <1>10, <1>11, <1>12, <1>13, <1>14,
     <1>15, <1>16, <1>17, <1>18
     DEF Next, Receiver, Main, MainLoop, Client

\* Neither a signal for a queued request nor that of willDelete gets lost.
LEMMA StepWakeup ==
  ASSUME TypeOK, Control, NoLostWakeup, DeleteWakesReceiver, [Next]_vars
  PROVE  (NoLostWakeup /\ DeleteWakesReceiver)'
<1> USE DEF TypeOK, Control, NoLostWakeup, DeleteWakesReceiver
<1>1. CASE CreateIncrease
  BY <1>1 DEF CreateIncrease, queueVars, receiverVars, mainVars, clientVars
<1>2. ASSUME NEW c \in Clients, EnterAppend(c) PROVE (NoLostWakeup /\ DeleteWakesReceiver)'
  BY <1>2 DEF EnterAppend, queueVars, receiverVars, mainVars, loops
<1>3. ASSUME NEW c \in Clients, AppendRequest(c) PROVE (NoLostWakeup /\ DeleteWakesReceiver)'
  BY <1>3 DEF AppendRequest, receiverVars, mainVars, loops
<1>4. ASSUME NEW c \in Clients, SignalRequest(c) PROVE (NoLostWakeup /\ DeleteWakesReceiver)'
  BY <1>4 DEF SignalRequest, queueVars, receiverVars, mainVars, loops
<1>5. CASE StartPeek
  BY <1>5 DEF StartPeek, queueVars, receiverVars, mainVars, clientVars
<1>6. CASE Peek
  BY <1>6 DEF Peek, LoadRequests, mainVars, loops, clientVars
<1>7. CASE WaitReturns
  BY <1>7 DEF WaitReturns, queueVars, mainVars, loops, clientVars
<1>8. CASE Recheck
  BY <1>8 DEF Recheck, queueVars, mainVars, loops, clientVars
<1>9. CASE PostLoad
  BY <1>9 DEF PostLoad, queueVars, mainVars, clientVars
<1>10. CASE IncreaseConsumer
  BY <1>10 DEF IncreaseConsumer, queueVars, mainVars, clientVars
<1>11. CASE IncreaseBrowserView
  BY <1>11 DEF IncreaseBrowserView, Ask, queueVars, receiverVars, clientVars
<1>12. CASE LoadRequest
  BY <1>12 DEF LoadRequest, queueVars, receiverVars, clientVars
<1>13. ASSUME NEW v \in Views, NextRequest(v) PROVE (NoLostWakeup /\ DeleteWakesReceiver)'
  BY <1>13 DEF NextRequest, Ask, queueVars, receiverVars, clientVars
<1>14. ASSUME NEW v \in Views, FinishLoad(v) PROVE (NoLostWakeup /\ DeleteWakesReceiver)'
  BY <1>14 DEF FinishLoad, queueVars, receiverVars, loops, clientVars
<1>15. CASE WillDelete
  BY <1>15 DEF WillDelete, queueVars, receiverVars, loops, clientVars
<1>16. CASE SignalDelete
  BY <1>16 DEF SignalDelete, queueVars, receiverVars, loops, clientVars
<1>17. CASE StopMain
  BY <1>17 DEF StopMain, queueVars, receiverVars, loops, clientVars
<1>18. CASE UNCHANGED vars
  BY <1>18 DEF vars, loops, queueVars, receiverVars, mainVars, clientVars
<1> QED
  BY <1>1, <1>2, <1>3, <1>4, <1>5, <1>6, <1>7, <1>8, <1>9, <1>10, <1>11, <1>12, <1>13, <1>14,
     <1>15, <1>16, <1>17, <1>18
     DEF Next, Receiver, Main, MainLoop, Client

\* What a post to and a pop from the main loop do to the loads in it.
LEMMA LoadsStep ==
  ASSUME NEW s \in Seq(Tasks), NEW lo \in Nat, NEW hi \in Int, LoadsInOrder(s, lo, hi)
  PROVE  /\ \A t \in Tasks : ~IsLoad(t) => LoadsInOrder(Append(s, t), lo, hi)
         /\ \A t \in Tasks : IsLoad(t) /\ t.request = hi + 1
                               => LoadsInOrder(Append(s, t), lo, hi + 1)
         /\ s # <<>> /\ ~IsLoad(Head(s)) => LoadsInOrder(Tail(s), lo, hi)
         /\ s # <<>> /\ IsLoad(Head(s)) => LoadsInOrder(Tail(s), Head(s).request, hi)
<1> USE DEF LoadsInOrder
<1>0. DOMAIN s = 1..Len(s) /\ Len(s) \in Nat
  BY LenProperties
<1>1. ASSUME NEW t \in Tasks, ~IsLoad(t) PROVE LoadsInOrder(Append(s, t), lo, hi)
  BY <1>0, <1>1, Pushed
<1>2. ASSUME NEW t \in Tasks, IsLoad(t), t.request = hi + 1
      PROVE  LoadsInOrder(Append(s, t), lo, hi + 1)
  <2>0. /\ DOMAIN Append(s, t) = 1..(Len(s) + 1)
        /\ \A i \in 1..Len(s) : Append(s, t)[i] = s[i]
        /\ Append(s, t)[Len(s) + 1] = t
    BY Pushed
  <2> DEFINE a == Append(s, t)
  <2> HIDE DEF a
  <2>1. \A i \in DOMAIN a : IsLoad(a[i]) => a[i].request \in (lo + 1)..(hi + 1)
    BY <1>0, <1>2, <2>0 DEF a
  <2>2. \A i, j \in DOMAIN a :
          IsLoad(a[i]) /\ IsLoad(a[j]) /\ i < j => a[i].request < a[j].request
    BY <1>0, <1>2, <2>0 DEF a
  <2>3. \A r \in (lo + 1)..(hi + 1) : \E i \in DOMAIN a : IsLoad(a[i]) /\ a[i].request = r
    <3> TAKE r \in (lo + 1)..(hi + 1)
    <3>1. CASE r = hi + 1
      BY <1>0, <1>2, <2>0, <3>1 DEF a
    <3>2. CASE r \in (lo + 1)..hi
      BY <1>0, <2>0, <3>2 DEF a
    <3> QED
      BY <3>1, <3>2
  <2>4. lo <= hi + 1
    OBVIOUS
  <2> QED
    BY <2>1, <2>2, <2>3, <2>4 DEF a
<1>3. ASSUME s # <<>> PROVE
         /\ DOMAIN Tail(s) = 1..(Len(s) - 1) /\ Len(s) >= 1 /\ Head(s) = s[1]
         /\ \A i \in 1..(Len(s) - 1) : Tail(s)[i] = s[i + 1]
  BY <1>3, Popped
<1>4. ASSUME s # <<>>, ~IsLoad(Head(s)) PROVE LoadsInOrder(Tail(s), lo, hi)
  <2> DEFINE u == Tail(s)
  <2> HIDE DEF u
  <2>0. /\ DOMAIN u = 1..(Len(s) - 1) /\ Len(s) >= 1 /\ Head(s) = s[1]
        /\ \A i \in 1..(Len(s) - 1) : u[i] = s[i + 1]
    BY <1>3, <1>4 DEF u
  <2>1. \A r \in (lo + 1)..hi : \E i \in DOMAIN u : IsLoad(u[i]) /\ u[i].request = r
    <3> TAKE r \in (lo + 1)..hi
    <3>1. PICK i \in 1..Len(s) : IsLoad(s[i]) /\ s[i].request = r
      BY <1>0
    <3>2. i # 1
      BY <1>4, <2>0, <3>1
    <3>3. i - 1 \in 1..(Len(s) - 1) /\ (i - 1) + 1 = i
      BY <1>0, <3>1, <3>2
    <3>4. u[i - 1] = s[i]
      BY <2>0, <3>3
    <3> QED
      BY <2>0, <3>1, <3>3, <3>4
  <2>2. \A i \in DOMAIN u : i + 1 \in DOMAIN s /\ u[i] = s[i + 1]
    BY <1>0, <2>0
  <2>3. \A i, j \in DOMAIN u : i < j => i + 1 < j + 1
    BY <2>0
  <2> QED
    BY <2>1, <2>2, <2>3 DEF u
<1>5. ASSUME s # <<>>, IsLoad(Head(s)) PROVE LoadsInOrder(Tail(s), Head(s).request, hi)
  <2> DEFINE u == Tail(s)
             h == Head(s).request
  <2> HIDE DEF u, h
  <2>0. /\ DOMAIN u = 1..(Len(s) - 1) /\ Len(s) >= 1 /\ Head(s) = s[1]
        /\ \A i \in 1..(Len(s) - 1) : u[i] = s[i + 1]
    BY <1>3, <1>5 DEF u
  <2>1. 1 \in DOMAIN s /\ IsLoad(s[1]) /\ s[1].request = h
    BY <1>0, <1>5, <2>0 DEF h
  <2>2. h \in (lo + 1)..hi
    BY <2>1
  <2>3. \A i \in DOMAIN u : i + 1 \in DOMAIN s /\ 1 < i + 1 /\ u[i] = s[i + 1]
    BY <1>0, <2>0
  <2>4. \A i \in DOMAIN u : IsLoad(u[i]) => u[i].request \in (lo + 1)..hi /\ h < u[i].request
    BY <2>1, <2>3
  <2>5. \A i \in DOMAIN u : IsLoad(u[i]) => u[i].request \in (h + 1)..hi
    BY <2>2, <2>4
  <2>6. \A i, j \in DOMAIN u : i < j => i + 1 < j + 1
    BY <2>0
  <2>7. \A i, j \in DOMAIN u :
          IsLoad(u[i]) /\ IsLoad(u[j]) /\ i < j => u[i].request < u[j].request
    BY <2>3, <2>6
  <2>8. \A r \in (h + 1)..hi : \E i \in DOMAIN u : IsLoad(u[i]) /\ u[i].request = r
    <3> TAKE r \in (h + 1)..hi
    <3>1. PICK i \in 1..Len(s) : IsLoad(s[i]) /\ s[i].request = r
      BY <1>0, <2>2
    <3>2. i # 1
      BY <2>1, <2>2, <3>1
    <3>3. i - 1 \in 1..(Len(s) - 1) /\ (i - 1) + 1 = i
      BY <1>0, <3>1, <3>2
    <3>4. u[i - 1] = s[i]
      BY <2>0, <3>3
    <3> QED
      BY <2>0, <3>1, <3>3, <3>4
  <2>9. h <= hi
    BY <2>2
  <2> QED
    BY <2>5, <2>7, <2>8, <2>9 DEF u, h
<1> QED
  BY <1>1, <1>2, <1>4, <1>5

\* No step loses, duplicates or overtakes a request in flight.
LEMMA StepInOrder ==
  ASSUME TypeOK, Control, InOrder, [Next]_vars
  PROVE  InOrder'
<1> USE DEF InOrder, Taken, Posted
<1>type. /\ income \in Seq(Requests) /\ Len(income) \in Nat /\ DOMAIN income = 1..Len(income)
         /\ work \in Seq(Requests) /\ Len(work) \in Nat /\ DOMAIN work = 1..Len(work)
         /\ mainTasks \in Seq(Tasks)
         /\ requestNumber \in Nat /\ request \in Nat /\ lastLoaded \in Nat
         /\ Taken \in Int /\ Posted \in Int
  BY LenProperties DEF TypeOK
<1>empty. Len(<<>>) = 0 /\ DOMAIN <<>> = {}
  BY EmptySeq
<1>loads. /\ \A t \in Tasks : ~IsLoad(t) => LoadsInOrder(Append(mainTasks, t), lastLoaded, Posted)
          /\ \A t \in Tasks : IsLoad(t) /\ t.request = Posted + 1
               => LoadsInOrder(Append(mainTasks, t), lastLoaded, Posted + 1)
          /\ mainTasks # <<>> /\ ~IsLoad(Head(mainTasks))
               => LoadsInOrder(Tail(mainTasks), lastLoaded, Posted)
          /\ mainTasks # <<>> /\ IsLoad(Head(mainTasks))
               => LoadsInOrder(Tail(mainTasks), Head(mainTasks).request, Posted)
  BY <1>type, LoadsStep
<1>queues. ASSUME UNCHANGED <<income, work, requestNumber, request>>,
                  LoadsInOrder(mainTasks', lastLoaded', Posted)
           PROVE  InOrder'
  BY <1>queues
<1>frame. ASSUME UNCHANGED <<income, work, requestNumber, request, mainTasks, lastLoaded>>
          PROVE  InOrder'
  BY <1>frame
<1>increase. ASSUME NEW g \in Groups
             PROVE  IncreaseTask(g) \in Tasks /\ ~IsLoad(IncreaseTask(g))
  BY TaskType DEF IncreaseTask, IsLoad
<1>1. CASE CreateIncrease
  <2>1. LoadsInOrder(mainTasks', lastLoaded, Posted)
    BY <1>1, <1>loads, <1>increase DEF CreateIncrease
  <2> QED
    BY <1>1, <2>1, <1>queues DEF CreateIncrease, queueVars, receiverVars, mainVars
<1>2. ASSUME NEW c \in Clients, EnterAppend(c) PROVE InOrder'
  BY <1>2, <1>frame DEF EnterAppend, queueVars, receiverVars, mainVars, loops
<1>3. ASSUME NEW c \in Clients, AppendRequest(c) PROVE InOrder'
  <2>1. /\ UNCHANGED <<work, request, mainTasks, lastLoaded>>
        /\ requestNumber' = requestNumber + 1
        /\ income' = Append(income, requestNumber + 1)
    BY <1>3 DEF AppendRequest, receiverVars, mainVars, loops
  <2>2. requestNumber + 1 \in Requests
    BY <1>3 DEF AppendRequest, Requests, Control, TypeOK
  <2>3. /\ Len(income') = Len(income) + 1 /\ DOMAIN income' = 1..(Len(income) + 1)
        /\ \A i \in 1..Len(income) : income'[i] = income[i]
        /\ income'[Len(income) + 1] = requestNumber + 1
    BY <1>type, <2>1, <2>2, Pushed
  <2>4. Taken' = Taken /\ Posted' = Posted
    BY <1>type, <2>1, <2>3
  <2>5. \A i \in DOMAIN income' : income'[i] = Taken + Len(work) + i
    <3> TAKE i \in DOMAIN income'
    <3>1. CASE i \in 1..Len(income)
      BY <1>type, <2>3, <3>1
    <3>2. CASE i = Len(income) + 1
      BY <1>type, <2>3, <3>2
    <3> QED
      BY <1>type, <2>3, <3>1, <3>2
  <2> QED
    BY <2>1, <2>4, <2>5
<1>4. ASSUME NEW c \in Clients, SignalRequest(c) PROVE InOrder'
  BY <1>4, <1>frame DEF SignalRequest, queueVars, receiverVars, mainVars, loops
<1>5. CASE StartPeek
  BY <1>5, <1>frame DEF StartPeek, queueVars, receiverVars, mainVars, clientVars
<1>6. CASE Peek
  <2>0. UNCHANGED <<requestNumber, mainTasks, lastLoaded>> /\ request = 0
    BY <1>6 DEF Peek, Control, mainVars, loops
  <2>1. CASE LoadRequests.work = <<>>
    <3>1. work = <<>> /\ income = <<>>
      BY <2>1 DEF LoadRequests
    <3>2. work' = work /\ income' = income /\ request' = request
      BY <1>6, <2>1, <3>1 DEF Peek, LoadRequests
    <3> QED
      BY <2>0, <3>2, <1>frame
  <2>2. CASE LoadRequests.work # <<>>
    <3> DEFINE q == LoadRequests.work
    <3>1. q \in Seq(Requests)
      BY <1>type DEF LoadRequests
    <3>2. request' = Head(q) /\ work' = Tail(q) /\ income' = LoadRequests.income
      BY <1>6, <2>2 DEF Peek
    <3>3. /\ Len(q) + Len(income') = Len(work) + Len(income)
          /\ Len(income') \in Nat /\ DOMAIN income' = 1..Len(income')
          /\ DOMAIN q = 1..Len(q) /\ Len(q) \in Nat
      BY <1>type, <1>empty, <3>2 DEF LoadRequests
    <3>4. /\ \A i \in DOMAIN q : q[i] = Taken + i
          /\ \A i \in DOMAIN income' : income'[i] = Taken + Len(q) + i
      <4>1. CASE work = <<>>
        BY <1>type, <1>empty, <3>2, <4>1 DEF LoadRequests
      <4>2. CASE work # <<>>
        BY <1>type, <3>2, <4>2 DEF LoadRequests
      <4> QED
        BY <4>1, <4>2
    <3> HIDE DEF q
    <3>5. /\ Head(q) = q[1] /\ Head(q) \in Requests /\ Len(q) >= 1
          /\ Len(Tail(q)) = Len(q) - 1 /\ DOMAIN Tail(q) = 1..(Len(q) - 1)
          /\ \A i \in 1..(Len(q) - 1) : Tail(q)[i] = q[i + 1]
      BY <2>2, <3>1, Popped DEF q
    <3>len. Len(work') = Len(q) - 1
      BY <3>2, <3>5
    <3>6. Taken' = Taken + 1
      <4>1. requestNumber' = requestNumber
        BY <2>0
      <4>2. /\ Len(work) \in Nat /\ Len(income) \in Nat /\ requestNumber \in Nat
            /\ Len(q) \in Nat /\ Len(income') \in Nat
        BY <1>type, <3>3
      <4>3. Len(income') = Len(work) + Len(income) - Len(q)
        BY <3>3, <4>2
      <4> HIDE DEF InOrder
      <4> QED
        BY <3>len, <4>1, <4>2, <4>3
    <3>7. request' = Taken' /\ request' # 0
      <4>1. q[1] = Taken + 1 /\ q[1] \in Requests
        BY <3>3, <3>4, <3>5
      <4>2. Taken + 1 # 0
        BY <1>type, <4>1 DEF Requests
      <4> QED
        BY <3>2, <3>5, <3>6, <4>1, <4>2
    <3>8. Posted' = Posted
      BY <1>type, <2>0, <3>6, <3>7
    <3>9. \A i \in DOMAIN work' : work'[i] = Taken' + i
      <4> TAKE i \in DOMAIN work'
      <4>1. i \in 1..(Len(q) - 1) /\ i + 1 \in DOMAIN q /\ work'[i] = q[i + 1]
        BY <3>2, <3>3, <3>5
      <4>2. q[i + 1] = Taken + (i + 1)
        BY <3>4, <4>1
      <4> QED
        BY <1>type, <3>6, <4>1, <4>2
    <3>10. \A i \in DOMAIN income' : income'[i] = Taken' + Len(work') + i
      <4> TAKE i \in DOMAIN income'
      <4>1. income'[i] = Taken + Len(q) + i /\ Len(work') = Len(q) - 1 /\ i \in Nat
        BY <3>2, <3>3, <3>4, <3>5
      <4> QED
        BY <1>type, <3>3, <3>6, <4>1
    <3> QED
      BY <2>0, <3>7, <3>8, <3>9, <3>10
  <2> QED
    BY <2>1, <2>2
<1>7. CASE WaitReturns
  BY <1>7, <1>frame DEF WaitReturns, queueVars, mainVars, loops, clientVars
<1>8. CASE Recheck
  BY <1>8, <1>frame DEF Recheck, queueVars, mainVars, loops, clientVars
<1>9. CASE PostLoad
  <2>0. UNCHANGED <<income, work, requestNumber, lastLoaded>>
    BY <1>9 DEF PostLoad, queueVars, mainVars
  <2>1. CASE mainPc = "gone"
    BY <1>9, <2>0, <2>1, <1>frame DEF PostLoad
  <2>2. CASE mainPc # "gone"
    <3>1. mainTasks' = Append(mainTasks, LoadTask(view, request)) /\ request' = 0
      BY <1>9, <2>2 DEF PostLoad
    <3>2. view \in Views /\ request \in Requests /\ request # 0
      BY <1>9 DEF PostLoad, Control, TypeOK, Requests
    <3>3. LoadTask(view, request) \in Tasks /\ IsLoad(LoadTask(view, request))
          /\ LoadTask(view, request).request = request
      BY <3>2, TaskType DEF LoadTask, IsLoad
    <3>4. request = Posted + 1 /\ Posted' = Posted + 1
      BY <1>type, <2>0, <3>1, <3>2
    <3>5. LoadsInOrder(mainTasks', lastLoaded, Posted')
      BY <1>loads, <3>1, <3>3, <3>4
    <3> QED
      BY <2>0, <3>1, <3>5
  <2> QED
    BY <2>1, <2>2
<1>10. CASE IncreaseConsumer
  <2>1. LoadsInOrder(mainTasks', lastLoaded, Posted)
    BY <1>10, <1>loads, <1>increase DEF IncreaseConsumer
  <2> QED
    BY <1>10, <2>1, <1>queues DEF IncreaseConsumer, queueVars, mainVars
<1>11. CASE IncreaseBrowserView
  <2>1. LoadsInOrder(mainTasks', lastLoaded, Posted)
    BY <1>11, <1>loads DEF IncreaseBrowserView, IsLoad
  <2> QED
    BY <1>11, <2>1, <1>queues DEF IncreaseBrowserView, queueVars, receiverVars
<1>12. CASE LoadRequest
  <2>1. LoadsInOrder(mainTasks', lastLoaded', Posted)
    BY <1>12, <1>loads DEF LoadRequest, IsLoad
  <2> QED
    BY <1>12, <2>1, <1>queues DEF LoadRequest, queueVars, receiverVars
<1>13. ASSUME NEW v \in Views, NextRequest(v) PROVE InOrder'
  BY <1>13, <1>frame DEF NextRequest, Ask, queueVars, receiverVars, clientVars
<1>14. ASSUME NEW v \in Views, FinishLoad(v) PROVE InOrder'
  BY <1>14, <1>frame DEF FinishLoad, queueVars, receiverVars, loops, clientVars
<1>15. CASE WillDelete
  BY <1>15, <1>frame DEF WillDelete, queueVars, receiverVars, loops, clientVars
<1>16. CASE SignalDelete
  BY <1>16, <1>frame DEF SignalDelete, queueVars, receiverVars, loops, clientVars
<1>17. CASE StopMain
  BY <1>17, <1>frame DEF StopMain, queueVars, receiverVars, loops, clientVars
<1>18. CASE UNCHANGED vars
  BY <1>18, <1>frame DEF vars, loops, queueVars, receiverVars, mainVars, clientVars
<1> QED
  BY <1>1, <1>2, <1>3, <1>4, <1>5, <1>6, <1>7, <1>8, <1>9, <1>10, <1>11, <1>12, <1>13, <1>14,
     <1>15, <1>16, <1>17, <1>18
     DEF Next, Receiver, Main, MainLoop, Client

\* No step makes a view stand in line twice, or forgets one that asked.
LEMMA StepOneAsk ==
  ASSUME TypeOK, Control, OneAskPerView, [Next]_vars
  PROVE  OneAskPerView'
<1> USE DEF OneAskPerView, AsksInLoop, HasLoadTask
<1>type. /\ peekTasks \in Seq(Views) /\ Len(peekTasks) \in Nat
         /\ DOMAIN peekTasks = 1..Len(peekTasks)
         /\ mainTasks \in Seq(Tasks) /\ Len(mainTasks) \in Nat
         /\ DOMAIN mainTasks = 1..Len(mainTasks)
         /\ viewState \in [Views -> {"free", "asked", "loading", "deleted"}]
  BY LenProperties DEF TypeOK
<1>frame. ASSUME UNCHANGED <<peekTasks, view, mainTasks, viewState>> PROVE OneAskPerView'
  BY <1>frame
\* A task that is no load comes or goes without moving a view.
<1>pushTask. ASSUME NEW t \in Tasks, mainTasks' = Append(mainTasks, t)
             PROVE  /\ DOMAIN mainTasks' = 1..(Len(mainTasks) + 1)
                    /\ \A i \in DOMAIN mainTasks : i \in DOMAIN mainTasks' /\ mainTasks'[i] = mainTasks[i]
                    /\ mainTasks'[Len(mainTasks) + 1] = t
  BY <1>type, <1>pushTask, Pushed
<1>popTask. ASSUME mainTasks # <<>>, mainTasks' = Tail(mainTasks)
            PROVE  /\ Head(mainTasks) = mainTasks[1] /\ 1 \in DOMAIN mainTasks
                   /\ DOMAIN mainTasks' = 1..(Len(mainTasks) - 1)
                   /\ \A i \in DOMAIN mainTasks' :
                        i + 1 \in DOMAIN mainTasks /\ mainTasks'[i] = mainTasks[i + 1]
                   /\ \A i \in DOMAIN mainTasks : i # 1 =>
                        i - 1 \in DOMAIN mainTasks' /\ mainTasks'[i - 1] = mainTasks[i]
  <2>1. /\ Head(mainTasks) = mainTasks[1] /\ Len(mainTasks) >= 1
        /\ DOMAIN mainTasks' = 1..(Len(mainTasks) - 1)
        /\ \A i \in 1..(Len(mainTasks) - 1) : mainTasks'[i] = mainTasks[i + 1]
    BY <1>type, <1>popTask, Popped
  <2>2. \A i \in DOMAIN mainTasks : i # 1 => i - 1 \in 1..(Len(mainTasks) - 1) /\ (i - 1) + 1 = i
    BY <1>type
  <2> QED
    BY <1>type, <2>1, <2>2
<1>noload. ASSUME UNCHANGED <<peekTasks, view, viewState>>,
                  \/ UNCHANGED mainTasks
                  \/ \E g \in Groups : mainTasks' = Append(mainTasks, IncreaseTask(g))
           PROVE  OneAskPerView'
  <2>1. ASSUME NEW g \in Groups, mainTasks' = Append(mainTasks, IncreaseTask(g))
        PROVE  OneAskPerView'
    <3>1. IncreaseTask(g) \in Tasks /\ ~IsLoad(IncreaseTask(g))
      BY TaskType DEF IncreaseTask, IsLoad
    <3>2. /\ DOMAIN mainTasks' = 1..(Len(mainTasks) + 1)
          /\ \A i \in DOMAIN mainTasks : i \in DOMAIN mainTasks' /\ mainTasks'[i] = mainTasks[i]
          /\ ~IsLoad(mainTasks'[Len(mainTasks) + 1])
      BY <2>1, <3>1, <1>pushTask
    <3>3. \A i \in DOMAIN mainTasks' : IsLoad(mainTasks'[i]) => i \in DOMAIN mainTasks
      BY <1>type, <3>2
    <3>4. \A v : HasLoadTask(v)' <=> HasLoadTask(v)
      BY <3>2, <3>3
    <3> QED
      BY <1>noload, <3>2, <3>3, <3>4
  <2> QED
    BY <1>noload, <1>frame, <2>1
\* A view that stands nowhere in line asks.
<1>ask. ASSUME NEW v \in Views, viewState[v] \in {"free", "loading"}, Ask(v),
               UNCHANGED view, \A w : HasLoadTask(w)' => HasLoadTask(w),
               \A w : HasLoadTask(w) => HasLoadTask(w)',
               \A i, j \in DOMAIN mainTasks' :
                 IsLoad(mainTasks'[i]) /\ IsLoad(mainTasks'[j])
                   /\ mainTasks'[i].view = mainTasks'[j].view => i = j
        PROVE  OneAskPerView'
  <2>1. /\ DOMAIN peekTasks' = 1..(Len(peekTasks) + 1)
        /\ \A i \in DOMAIN peekTasks : i \in DOMAIN peekTasks' /\ peekTasks'[i] = peekTasks[i]
        /\ peekTasks'[Len(peekTasks) + 1] = v
    BY <1>type, <1>ask, Pushed DEF Ask
  <2>2. ~AsksInLoop(v) /\ view # v /\ ~HasLoadTask(v)
    BY <1>ask
  <2>3. \A w : AsksInLoop(w)' <=> AsksInLoop(w) \/ w = v
    <3> TAKE w
    <3>1. ASSUME NEW i \in DOMAIN peekTasks', peekTasks'[i] = w PROVE AsksInLoop(w) \/ w = v
      BY <1>type, <2>1, <3>1
    <3>2. Len(peekTasks) + 1 \in DOMAIN peekTasks'
      BY <1>type, <2>1
    <3> QED
      BY <2>1, <3>1, <3>2
  <2>4. \A i, j \in DOMAIN peekTasks' : peekTasks'[i] = peekTasks'[j] => i = j
    BY <1>type, <2>1, <2>2
  <2>5. \A w \in Views : viewState'[w] = IF w = v THEN "asked" ELSE viewState[w]
    BY <1>type, <1>ask DEF Ask
  <2> HIDE DEF AsksInLoop, HasLoadTask
  <2> QED
    BY <1>ask, <2>2, <2>3, <2>4, <2>5
<1>1. CASE CreateIncrease
  BY <1>1, <1>noload DEF CreateIncrease, queueVars, receiverVars, mainVars, clientVars
<1>2. ASSUME NEW c \in Clients, EnterAppend(c) PROVE OneAskPerView'
  BY <1>2, <1>frame DEF EnterAppend, queueVars, receiverVars, mainVars, loops
<1>3. ASSUME NEW c \in Clients, AppendRequest(c) PROVE OneAskPerView'
  BY <1>3, <1>frame DEF AppendRequest, receiverVars, mainVars, loops
<1>4. ASSUME NEW c \in Clients, SignalRequest(c) PROVE OneAskPerView'
  BY <1>4, <1>frame DEF SignalRequest, queueVars, receiverVars, mainVars, loops
<1>5. CASE StartPeek
  <2>1. CASE receiveDelete
    <3>1. UNCHANGED <<view, mainTasks, viewState>> /\ peekTasks' = Tail(peekTasks) /\ peekTasks # <<>>
      BY <1>5, <2>1 DEF StartPeek, receiverVars, mainVars
    <3>2. \A v \in Views : viewState[v] = "deleted"
      BY <2>1 DEF Control
    <3>3. /\ DOMAIN peekTasks' = 1..(Len(peekTasks) - 1)
          /\ \A i \in DOMAIN peekTasks' :
               i + 1 \in DOMAIN peekTasks /\ peekTasks'[i] = peekTasks[i + 1]
      BY <1>type, <3>1, Popped
    <3>4. \A v : AsksInLoop(v)' => AsksInLoop(v)
      BY <3>3
    <3>5. \A i, j \in DOMAIN peekTasks' : peekTasks'[i] = peekTasks'[j] => i = j
      BY <1>type, <3>3
    <3> QED
      BY <3>1, <3>2, <3>4, <3>5
  <2>2. CASE ~receiveDelete
    <3>1. /\ UNCHANGED <<mainTasks, viewState>> /\ peekTasks' = Tail(peekTasks) /\ peekTasks # <<>>
          /\ view' = Head(peekTasks) /\ view = NoView
      BY <1>5, <2>2 DEF StartPeek, Control, mainVars
    <3>2. /\ DOMAIN peekTasks' = 1..(Len(peekTasks) - 1)
          /\ \A i \in DOMAIN peekTasks' :
               i + 1 \in DOMAIN peekTasks /\ peekTasks'[i] = peekTasks[i + 1]
          /\ \A i \in DOMAIN peekTasks : i # 1 => i - 1 \in DOMAIN peekTasks' /\ peekTasks'[i - 1] = peekTasks[i]
          /\ 1 \in DOMAIN peekTasks /\ view' = peekTasks[1] /\ view' \in Views
      <4>1. /\ Head(peekTasks) = peekTasks[1] /\ Head(peekTasks) \in Views /\ Len(peekTasks) >= 1
            /\ DOMAIN peekTasks' = 1..(Len(peekTasks) - 1)
            /\ \A i \in 1..(Len(peekTasks) - 1) : peekTasks'[i] = peekTasks[i + 1]
        BY <1>type, <3>1, Popped
      <4>2. \A i \in DOMAIN peekTasks : i # 1 => i - 1 \in 1..(Len(peekTasks) - 1) /\ (i - 1) + 1 = i
        BY <1>type
      <4> QED
        BY <1>type, <3>1, <4>1, <4>2
    <3> PICK v0 \in Views : v0 = Head(peekTasks) /\ v0 = peekTasks[1]
      BY <3>1, <3>2
    <3>3. \A i, j \in DOMAIN peekTasks' : peekTasks'[i] = peekTasks'[j] => i = j
      BY <1>type, <3>2
    <3>4. \A v : AsksInLoop(v) <=> AsksInLoop(v)' \/ v0 = v
      BY <3>2
    <3>5. ~AsksInLoop(v0)'
      <4> SUFFICES ASSUME NEW i \in DOMAIN peekTasks', peekTasks'[i] = v0 PROVE FALSE
        OBVIOUS
      <4>1. i + 1 = 1 /\ i \in 1..(Len(peekTasks) - 1)
        BY <3>2
      <4> QED
        BY <1>type, <4>1
    <3>6. \A v : HasLoadTask(v)' <=> HasLoadTask(v)
      BY <3>1
    <3>7. \A v \in Views : view # v
      BY <3>1, NoViewAssumption
    <3>8. view' = v0
      BY <3>1
    <3> HIDE DEF AsksInLoop, HasLoadTask
    <3> QED
      BY <3>1, <3>3, <3>4, <3>5, <3>6, <3>7, <3>8
  <2> QED
    BY <2>1, <2>2
<1>6. CASE Peek
  BY <1>6, <1>frame DEF Peek, mainVars, loops, clientVars
<1>7. CASE WaitReturns
  BY <1>7, <1>frame DEF WaitReturns, queueVars, mainVars, loops, clientVars
<1>8. CASE Recheck
  <2>1. CASE receiveDelete
    <3>1. \A v \in Views : viewState[v] = "deleted"
      BY <2>1 DEF Control
    <3>2. view' = NoView /\ UNCHANGED <<peekTasks, mainTasks, viewState>>
      BY <1>8, <2>1 DEF Recheck, mainVars, loops
    <3> QED
      BY <3>1, <3>2, NoViewAssumption
  <2>2. CASE ~receiveDelete
    BY <1>8, <2>2, <1>frame DEF Recheck, mainVars, loops
  <2> QED
    BY <2>1, <2>2
<1>9. CASE PostLoad
  <2>1. CASE mainPc = "gone"
    BY <1>9, <2>1, <1>frame DEF PostLoad, mainVars
  <2>2. CASE mainPc # "gone"
    <3>1. /\ mainTasks' = Append(mainTasks, LoadTask(view, request)) /\ view' = NoView
          /\ UNCHANGED <<peekTasks, viewState>>
      BY <1>9, <2>2 DEF PostLoad, mainVars
    <3>2. view \in Views /\ request \in Requests
      BY <1>9 DEF PostLoad, Control, TypeOK, Requests
    <3>3. /\ LoadTask(view, request) \in Tasks /\ IsLoad(LoadTask(view, request))
          /\ LoadTask(view, request).view = view
      BY <3>2, TaskType DEF LoadTask, IsLoad
    <3>4. /\ DOMAIN mainTasks' = 1..(Len(mainTasks) + 1)
          /\ \A i \in DOMAIN mainTasks : i \in DOMAIN mainTasks' /\ mainTasks'[i] = mainTasks[i]
          /\ IsLoad(mainTasks'[Len(mainTasks) + 1])
          /\ mainTasks'[Len(mainTasks) + 1].view = view
      BY <3>1, <3>3, <1>pushTask
    <3>5. ~HasLoadTask(view) /\ ~AsksInLoop(view)
      BY <3>2
    <3>6. \A i, j \in DOMAIN mainTasks' :
            IsLoad(mainTasks'[i]) /\ IsLoad(mainTasks'[j]) /\ mainTasks'[i].view = mainTasks'[j].view
              => i = j
      BY <1>type, <3>4, <3>5
    <3>7. \A v : HasLoadTask(v)' <=> HasLoadTask(v) \/ v = view
      <4> TAKE v
      <4>1. Len(mainTasks) + 1 \in DOMAIN mainTasks'
        BY <1>type, <3>4
      <4>2. \A i \in DOMAIN mainTasks' : i \in DOMAIN mainTasks \/ i = Len(mainTasks) + 1
        BY <1>type, <3>4
      <4> QED
        BY <3>4, <4>1, <4>2
    <3>8. \A v : AsksInLoop(v)' <=> AsksInLoop(v)
      BY <3>1
    <3> HIDE DEF AsksInLoop, HasLoadTask
    <3> QED
      BY <3>1, <3>5, <3>6, <3>7, <3>8, NoViewAssumption
  <2> QED
    BY <2>1, <2>2
<1>10. CASE IncreaseConsumer
  BY <1>10, <1>noload DEF IncreaseConsumer, queueVars, mainVars, clientVars
<1>11. CASE IncreaseBrowserView
  <2>1. /\ mainTasks' = Tail(mainTasks) /\ mainTasks # <<>> /\ UNCHANGED view
        /\ ~IsLoad(Head(mainTasks))
    BY <1>11 DEF IncreaseBrowserView, receiverVars, IsLoad
  <2>2. /\ ~IsLoad(mainTasks[1]) /\ 1 \in DOMAIN mainTasks
        /\ DOMAIN mainTasks' = 1..(Len(mainTasks) - 1)
        /\ \A i \in DOMAIN mainTasks' : i + 1 \in DOMAIN mainTasks /\ mainTasks'[i] = mainTasks[i + 1]
        /\ \A i \in DOMAIN mainTasks : i # 1 =>
             i - 1 \in DOMAIN mainTasks' /\ mainTasks'[i - 1] = mainTasks[i]
    BY <2>1, <1>popTask
  <2>3. \A v : HasLoadTask(v)' <=> HasLoadTask(v)
    BY <2>2
  <2>4. \A i, j \in DOMAIN mainTasks' :
          IsLoad(mainTasks'[i]) /\ IsLoad(mainTasks'[j]) /\ mainTasks'[i].view = mainTasks'[j].view
            => i = j
    BY <1>type, <2>2
  <2>5. CASE UNCHANGED <<peekTasks, viewState>>
    <3>1. \A v : AsksInLoop(v)' <=> AsksInLoop(v)
      BY <2>5
    <3> HIDE DEF AsksInLoop, HasLoadTask
    <3> QED
      BY <2>1, <2>3, <2>4, <2>5, <3>1
  <2>6. ASSUME NEW v \in Views, viewState[v] = "free", Ask(v) PROVE OneAskPerView'
    <3> HIDE DEF OneAskPerView, AsksInLoop, HasLoadTask
    <3> QED
      BY <2>1, <2>3, <2>4, <2>6, <1>ask
  <2> QED
    BY <1>11, <2>5, <2>6 DEF IncreaseBrowserView
<1>12. CASE LoadRequest
  <2> DEFINE t == Head(mainTasks)
  <2>1. /\ mainTasks' = Tail(mainTasks) /\ mainTasks # <<>> /\ UNCHANGED <<view, peekTasks>>
        /\ IsLoad(t)
        /\ viewState' = IF viewState[t.view] = "deleted" THEN viewState
                        ELSE [viewState EXCEPT ![t.view] = "loading"]
    BY <1>12 DEF LoadRequest, receiverVars, IsLoad
  <2>2. /\ mainTasks[1] = t /\ 1 \in DOMAIN mainTasks
        /\ DOMAIN mainTasks' = 1..(Len(mainTasks) - 1)
        /\ \A i \in DOMAIN mainTasks' : i + 1 \in DOMAIN mainTasks /\ mainTasks'[i] = mainTasks[i + 1]
        /\ \A i \in DOMAIN mainTasks : i # 1 =>
             i - 1 \in DOMAIN mainTasks' /\ mainTasks'[i - 1] = mainTasks[i]
    BY <2>1, <1>popTask
  <2>3. t \in Tasks /\ t.view \in Views
    BY <1>type, <2>1, Popped, TaskType DEF IsLoad
  <2> PICK w \in Views : w = t.view
    BY <2>3
  <2> HIDE DEF t
  <2>4. HasLoadTask(w)
    BY <2>1, <2>2
  <2>5. \A v : HasLoadTask(v)' => HasLoadTask(v)
    BY <2>2
  <2>6. ~HasLoadTask(w)'
    <3> SUFFICES ASSUME NEW i \in DOMAIN mainTasks', IsLoad(mainTasks'[i]), mainTasks'[i].view = w
                 PROVE  FALSE
      BY DEF IsLoad
    <3>1. i + 1 = 1 /\ i \in 1..(Len(mainTasks) - 1)
      BY <2>1, <2>2
    <3> QED
      BY <1>type, <3>1
  <2>7. \A v : HasLoadTask(v) => HasLoadTask(v)' \/ v = w
    BY <2>2
  <2>8. \A i, j \in DOMAIN mainTasks' :
          IsLoad(mainTasks'[i]) /\ IsLoad(mainTasks'[j]) /\ mainTasks'[i].view = mainTasks'[j].view
            => i = j
    BY <1>type, <2>2
  <2>9. \A v : AsksInLoop(v)' <=> AsksInLoop(v)
    BY <2>1
  <2>10. \A v \in Views : \/ viewState'[v] = viewState[v] /\ (v # w \/ viewState[v] = "deleted")
                          \/ v = w /\ viewState'[v] = "loading"
    BY <1>type, <2>1
  <2> HIDE DEF AsksInLoop, HasLoadTask
  <2> QED
    BY <2>1, <2>4, <2>5, <2>6, <2>7, <2>8, <2>9, <2>10
<1>13. ASSUME NEW v \in Views, NextRequest(v) PROVE OneAskPerView'
  <2>1. viewState[v] = "loading" /\ Ask(v) /\ UNCHANGED <<view, mainTasks>>
    BY <1>13 DEF NextRequest, receiverVars
  <2>2. \A w : HasLoadTask(w)' <=> HasLoadTask(w)
    BY <2>1
  <2>3. \A i, j \in DOMAIN mainTasks' :
          IsLoad(mainTasks'[i]) /\ IsLoad(mainTasks'[j]) /\ mainTasks'[i].view = mainTasks'[j].view
            => i = j
    BY <2>1
  <2> HIDE DEF OneAskPerView, AsksInLoop, HasLoadTask
  <2> QED
    BY <2>1, <2>2, <2>3, <1>ask
<1>14. ASSUME NEW v \in Views, FinishLoad(v) PROVE OneAskPerView'
  BY <1>14, <1>type DEF FinishLoad, loops, receiverVars
<1>15. CASE WillDelete
  BY <1>15, <1>type DEF WillDelete, loops, receiverVars
<1>16. CASE SignalDelete
  BY <1>16, <1>frame DEF SignalDelete, queueVars, receiverVars, loops, clientVars
<1>17. CASE StopMain
  BY <1>17, <1>frame DEF StopMain, queueVars, receiverVars, loops, clientVars
<1>18. CASE UNCHANGED vars
  BY <1>18, <1>frame DEF vars, loops, queueVars, receiverVars, mainVars, clientVars
<1> HIDE DEF OneAskPerView
<1> QED
  BY <1>1, <1>2, <1>3, <1>4, <1>5, <1>6, <1>7, <1>8, <1>9, <1>10, <1>11, <1>12, <1>13, <1>14,
     <1>15, <1>16, <1>17, <1>18
     DEF Next, Receiver, Main, MainLoop, Client

-----------------------------------------------------------------------------

\* A step of the queue keeps the inductive invariant.
LEMMA InvStep == IInv /\ [Next]_vars => IInv'
  BY StepType, StepControl, StepWakeup, StepInOrder, StepOneAsk DEF IInv

\* The inductive invariant holds in every reachable state.
THEOREM InvHolds == Spec => []IInv
  BY InvStep, InitInv, PTL DEF Spec

\* Every variable keeps its type.
THEOREM TypeCorrect == Spec => []TypeOK
<1>1. IInv => TypeOK
  BY DEF IInv
<1> QED
  BY <1>1, InvHolds, PTL

\* However many clients append and however the threads interleave, a receiver
\* asleep on a queued request is always about to be woken (addRequestToQueue
\* against peekRequestFormQueue).
THEOREM WakeupNotLost == Spec => []NoLostWakeup
<1>1. IInv => NoLostWakeup
  BY DEF IInv
<1> QED
  BY <1>1, InvHolds, PTL

\* willDelete never leaves the receiver asleep for good.
THEOREM DeleteWakes == Spec => []DeleteWakesReceiver
<1>1. IInv => DeleteWakesReceiver
  BY DEF IInv
<1> QED
  BY <1>1, InvHolds, PTL

\* No request is lost, duplicated or reordered between BrowserLoad and
\* BrowserView::load.
THEOREM RequestsInOrder == Spec => []InOrder
<1>1. IInv => InOrder
  BY DEF IInv
<1> QED
  BY <1>1, InvHolds, PTL

\* A view has at most one request on its way, and none while it loads.
THEOREM OneRequestPerView == Spec => []OneAskPerView
<1>1. IInv => OneAskPerView
  BY DEF IInv
<1> QED
  BY <1>1, InvHolds, PTL

(***************************************************************************)
(* 2. The channel.                                                         *)
(*                                                                         *)
(* InOrder makes the mapping a matter of numbers: the channel's queue is   *)
(* Taken+1 .. requestNumber, and what was handed over and not yet loaded   *)
(* is lastLoaded+1 .. Taken, the last of it perhaps in the receiver's      *)
(* hands and the rest in the main loop.  Numbered is RequestQueue's        *)
(* Channel with the handed requests read off by number, as the steps are   *)
(* easier to follow; SameHanded then counts the loads of the main loop to  *)
(* see that Channel reads the same.                                        *)
(***************************************************************************)

\* The numbers lo+1 .. hi, in order.
Numbers(lo, hi) == [k \in 1..(hi - lo) |-> lo + k]

\* The view that request r was handed to, if it is among the loads of tasks.
LoadView(tasks, r) ==
  CHOOSE v \in Views : \E i \in DOMAIN tasks :
    IsLoad(tasks[i]) /\ tasks[i].request = r /\ tasks[i].view = v

\* The receiver's own request is on its way to its view.
HandedView(r) == IF r = request THEN view ELSE LoadView(mainTasks, r)

\* The requests handed over, read off by number.
HandedByNumber == [k \in 1..(Taken - lastLoaded) |->
                     [view |-> HandedView(lastLoaded + k), request |-> lastLoaded + k]]

\* Channel with this reading.
Numbered == INSTANCE RequestChannel WITH
  queue <- work \o income, sent <- requestNumber, waiting <- Waiting,
  handed <- HandedByNumber, channel <- ChannelState

\* A client inside BrowserLoad keeps the shell from being released.
ClientsInside == \A c \in Clients : clientPc[c] # "idle" => mainPc = "run"

-----------------------------------------------------------------------------
(* Sequences of numbers, and the loads of a loop. *)

\* What a send and a hand-over do to the numbers in the queue.
LEMMA NumbersStep ==
  ASSUME NEW lo \in Nat, NEW hi \in Nat, lo <= hi
  PROVE  /\ Numbers(lo, hi) \in Seq(Nat) /\ Len(Numbers(lo, hi)) = hi - lo
         /\ Append(Numbers(lo, hi), hi + 1) = Numbers(lo, hi + 1)
         /\ lo < hi => /\ Numbers(lo, hi) # <<>> /\ Head(Numbers(lo, hi)) = lo + 1
                       /\ Tail(Numbers(lo, hi)) = Numbers(lo + 1, hi)
<1>1. hi - lo \in Nat /\ hi + 1 - lo = (hi - lo) + 1
  OBVIOUS
<1>2. Numbers(lo, hi) \in Seq(Nat) /\ Len(Numbers(lo, hi)) = hi - lo
  BY <1>1 DEF Numbers
<1>3. Append(Numbers(lo, hi), hi + 1) = Numbers(lo, hi + 1)
  BY <1>1 DEF Numbers
<1>4. ASSUME lo < hi
      PROVE  /\ Numbers(lo, hi) # <<>> /\ Head(Numbers(lo, hi)) = lo + 1
             /\ Tail(Numbers(lo, hi)) = Numbers(lo + 1, hi)
  <2> DEFINE s == Numbers(lo, hi)
  <2>1. hi - lo \in Nat \ {0} /\ hi - (lo + 1) = (hi - lo) - 1
    BY <1>4
  <2>2. s # <<>> /\ \A i \in 1..(hi - lo) : s[i] = lo + i
    BY <2>1 DEF Numbers
  <2>3. s \in Seq(Nat) /\ Len(s) = hi - lo
    BY <1>2
  <2> HIDE DEF s
  <2>4. /\ Tail(s) \in Seq(Nat) /\ Len(Tail(s)) = hi - lo - 1 /\ Head(s) = s[1]
        /\ DOMAIN Tail(s) = 1..(hi - lo - 1)
        /\ \A i \in 1..(hi - lo - 1) : Tail(s)[i] = s[i + 1]
    BY <2>2, <2>3, Popped
  <2>5. Tail(s) = [i \in 1..(hi - (lo + 1)) |-> (lo + 1) + i]
    <3>1. Tail(s) = [i \in 1..(hi - lo - 1) |-> Tail(s)[i]]
      BY <2>4, LenProperties
    <3>2. \A i \in 1..(hi - lo - 1) : Tail(s)[i] = (lo + 1) + i
      BY <2>1, <2>2, <2>4
    <3> QED
      BY <2>1, <3>1, <3>2
  <2>6. Tail(s) = Numbers(lo + 1, hi)
    BY <2>5 DEF Numbers
  <2>7. 1 \in 1..(hi - lo)
    BY <2>1
  <2>8. Head(s) = lo + 1
    BY <2>2, <2>4, <2>7
  <2> QED
    BY <2>2, <2>6, <2>8 DEF s
<1> QED
  BY <1>2, <1>3, <1>4

\* What the receiver will pop is the numbers that were not popped yet.
LEMMA QueueNumbers ==
  ASSUME IInv
  PROVE  /\ work \o income = Numbers(Taken, requestNumber)
         /\ Taken \in Nat /\ requestNumber \in Nat /\ lastLoaded \in Nat
         /\ lastLoaded <= Posted /\ Posted <= Taken /\ Taken <= requestNumber
         /\ request # 0 => request = Taken /\ Posted = Taken - 1
         /\ request = 0 => Posted = Taken
<1>1. /\ income \in Seq(Requests) /\ Len(income) \in Nat /\ DOMAIN income = 1..Len(income)
      /\ work \in Seq(Requests) /\ Len(work) \in Nat /\ DOMAIN work = 1..Len(work)
      /\ requestNumber \in Nat /\ lastLoaded \in Nat /\ request \in Nat
  BY LenProperties DEF IInv, TypeOK
<1>2. /\ \A i \in DOMAIN income : income[i] = Taken + Len(work) + i
      /\ \A i \in DOMAIN work : work[i] = Taken + i
      /\ request # 0 => request = Taken
      /\ lastLoaded <= Posted
  BY DEF IInv, InOrder, LoadsInOrder
<1>3. Taken \in Int /\ Taken = requestNumber - Len(income) - Len(work)
  BY <1>1 DEF Taken
<1>4. /\ Posted <= Taken /\ Posted \in Int
      /\ request # 0 => Posted = Taken - 1
      /\ request = 0 => Posted = Taken
  BY <1>3 DEF Posted
<1>5. Taken \in Nat /\ Taken <= requestNumber
  BY <1>1, <1>2, <1>3, <1>4
<1>6. /\ work \o income \in Seq(Requests)
      /\ Len(work \o income) = Len(work) + Len(income)
      /\ \A i \in 1..(Len(work) + Len(income)) :
           (work \o income)[i] = IF i <= Len(work) THEN work[i] ELSE income[i - Len(work)]
  BY <1>1, ConcatProperties
<1> HIDE DEF Taken, Posted
<1>7. Len(work) + Len(income) = requestNumber - Taken
  BY <1>1, <1>3
<1>8. \A i \in 1..(requestNumber - Taken) : (work \o income)[i] = Taken + i
  <2> TAKE i \in 1..(requestNumber - Taken)
  <2>1. CASE i <= Len(work)
    BY <1>1, <1>2, <1>6, <1>7, <2>1
  <2>2. CASE ~(i <= Len(work))
    <3>1. i - Len(work) \in DOMAIN income
      BY <1>1, <1>7, <2>2
    <3>2. income[i - Len(work)] = Taken + Len(work) + (i - Len(work))
      BY <1>2, <3>1
    <3> QED
      BY <1>1, <1>3, <1>6, <1>7, <2>2, <3>2
  <2> QED
    BY <2>1, <2>2
<1>9. work \o income = [i \in 1..(requestNumber - Taken) |-> (work \o income)[i]]
  BY <1>6, <1>7, LenProperties
<1>10. work \o income = Numbers(Taken, requestNumber)
  BY <1>8, <1>9 DEF Numbers
<1> QED
  BY <1>1, <1>2, <1>4, <1>5, <1>10

\* Where a load stands in the loop says which view it is for.
LEMMA LoadViewIs ==
  ASSUME NEW s \in Seq(Tasks), NEW lo, NEW hi, LoadsInOrder(s, lo, hi),
         NEW i \in DOMAIN s, IsLoad(s[i])
  PROVE  LoadView(s, s[i].request) = s[i].view
<1>1. DOMAIN s = 1..Len(s) /\ Len(s) \in Nat /\ \A j \in DOMAIN s : s[j] \in Tasks
  BY LenProperties, ElementOfSeq
<1>2. \A j \in DOMAIN s : IsLoad(s[j]) => s[j].view \in Views /\ s[j].request \in Nat
  BY <1>1, TaskType DEF IsLoad, Requests
<1>3. ASSUME NEW j \in DOMAIN s, IsLoad(s[j]), s[j].request = s[i].request
      PROVE  j = i
  <2>1. \A k, l \in DOMAIN s :
          IsLoad(s[k]) /\ IsLoad(s[l]) /\ k < l => s[k].request < s[l].request
    BY DEF LoadsInOrder
  <2>2. ~(i < j) /\ ~(j < i)
    BY <1>2, <1>3, <2>1
  <2> QED
    BY <1>1, <2>2
<1>4. \A v \in Views : (\E j \in DOMAIN s : IsLoad(s[j]) /\ s[j].request = s[i].request
                                              /\ s[j].view = v) <=> v = s[i].view
  BY <1>2, <1>3
<1> QED
  BY <1>2, <1>4 DEF LoadView

\* What a post and a pop do to the loads of the main loop.
LEMMA LoadViewStep ==
  ASSUME NEW s \in Seq(Tasks), NEW lo \in Nat, NEW hi \in Int, LoadsInOrder(s, lo, hi)
  PROVE  /\ \A t \in Tasks : ~IsLoad(t) =>
              \A r \in (lo + 1)..hi : LoadView(Append(s, t), r) = LoadView(s, r)
         /\ \A t \in Tasks : IsLoad(t) /\ t.request = hi + 1 =>
              /\ \A r \in (lo + 1)..hi : LoadView(Append(s, t), r) = LoadView(s, r)
              /\ LoadView(Append(s, t), hi + 1) = t.view
         /\ s # <<>> /\ ~IsLoad(Head(s)) =>
              \A r \in (lo + 1)..hi : LoadView(Tail(s), r) = LoadView(s, r)
         /\ s # <<>> /\ IsLoad(Head(s)) =>
              /\ Head(s).request = lo + 1 /\ lo < hi
              /\ \A r \in (lo + 2)..hi : LoadView(Tail(s), r) = LoadView(s, r)
<1>1. DOMAIN s = 1..Len(s) /\ Len(s) \in Nat
  BY LenProperties
<1>2. \A r \in (lo + 1)..hi : \E i \in DOMAIN s : IsLoad(s[i]) /\ s[i].request = r
  BY DEF LoadsInOrder
<1>3. ASSUME NEW t \in Tasks, NEW h \in Int, LoadsInOrder(Append(s, t), lo, h),
             NEW r \in (lo + 1)..hi
      PROVE  LoadView(Append(s, t), r) = LoadView(s, r)
  <2> DEFINE u == Append(s, t)
  <2>1. u \in Seq(Tasks) /\ DOMAIN u = 1..(Len(s) + 1) /\ \A i \in 1..Len(s) : u[i] = s[i]
    BY Pushed
  <2>2. PICK i \in DOMAIN s : IsLoad(s[i]) /\ s[i].request = r
    BY <1>2
  <2>3. i \in DOMAIN u /\ u[i] = s[i]
    BY <1>1, <2>1
  <2>4. LoadsInOrder(u, lo, h)
    BY <1>3
  <2> HIDE DEF u
  <2>5. LoadView(u, r) = u[i].view
    BY <2>1, <2>2, <2>3, <2>4, LoadViewIs
  <2>6. LoadView(s, r) = s[i].view
    BY <2>2, LoadViewIs
  <2> QED
    BY <2>3, <2>5, <2>6 DEF u
<1>4. \A t \in Tasks : ~IsLoad(t) =>
        \A r \in (lo + 1)..hi : LoadView(Append(s, t), r) = LoadView(s, r)
  BY <1>3, LoadsStep
<1>5. ASSUME NEW t \in Tasks, IsLoad(t), t.request = hi + 1
      PROVE  /\ \A r \in (lo + 1)..hi : LoadView(Append(s, t), r) = LoadView(s, r)
             /\ LoadView(Append(s, t), hi + 1) = t.view
  <2> DEFINE u == Append(s, t)
  <2>1. u \in Seq(Tasks) /\ Len(s) + 1 \in DOMAIN u /\ u[Len(s) + 1] = t
    BY <1>1, Pushed
  <2>2. LoadsInOrder(u, lo, hi + 1)
    BY <1>5, LoadsStep
  <2>3. \A r \in (lo + 1)..hi : LoadView(Append(s, t), r) = LoadView(s, r)
    BY <1>3, <2>2
  <2> HIDE DEF u
  <2>4. LoadView(u, u[Len(s) + 1].request) = u[Len(s) + 1].view
    BY <1>5, <2>1, <2>2, LoadViewIs
  <2> QED
    BY <1>5, <2>1, <2>3, <2>4 DEF u
<1>6. ASSUME s # <<>>, NEW l \in Nat, LoadsInOrder(Tail(s), l, hi),
             NEW r \in (l + 1)..hi, r > lo, ~(IsLoad(Head(s)) /\ Head(s).request = r)
      PROVE  LoadView(Tail(s), r) = LoadView(s, r)
  <2> DEFINE u == Tail(s)
  <2>1. u \in Seq(Tasks) /\ DOMAIN u = 1..(Len(s) - 1) /\ Head(s) = s[1]
        /\ \A i \in 1..(Len(s) - 1) : u[i] = s[i + 1]
    BY <1>6, Popped
  <2>2. PICK i \in DOMAIN s : IsLoad(s[i]) /\ s[i].request = r
    BY <1>2, <1>6
  <2>3. i # 1
    BY <1>6, <2>1, <2>2
  <2>4. i - 1 \in DOMAIN u /\ u[i - 1] = s[i]
    BY <1>1, <2>1, <2>3
  <2>5. LoadsInOrder(u, l, hi)
    BY <1>6
  <2> HIDE DEF u
  <2>6. LoadView(u, u[i - 1].request) = u[i - 1].view
    BY <2>1, <2>2, <2>4, <2>5, LoadViewIs
  <2>7. LoadView(s, r) = s[i].view
    BY <2>2, LoadViewIs
  <2> QED
    BY <2>2, <2>4, <2>6, <2>7 DEF u
<1>7. s # <<>> /\ ~IsLoad(Head(s)) =>
        \A r \in (lo + 1)..hi : LoadView(Tail(s), r) = LoadView(s, r)
  BY <1>6, LoadsStep
<1>8. ASSUME s # <<>>, IsLoad(Head(s))
      PROVE  /\ Head(s).request = lo + 1 /\ lo < hi
             /\ \A r \in (lo + 2)..hi : LoadView(Tail(s), r) = LoadView(s, r)
  <2>1. 1 \in DOMAIN s /\ Head(s) = s[1] /\ Head(s) \in Tasks
    BY <1>1, <1>8, Popped
  <2>2. Head(s).request \in (lo + 1)..hi
    BY <1>8, <2>1 DEF LoadsInOrder
  <2>3. PICK i \in DOMAIN s : IsLoad(s[i]) /\ s[i].request = lo + 1
    BY <1>2, <2>2
  <2>4. i = 1
    <3>1. 1 < i => s[1].request < s[i].request
      BY <1>8, <2>1, <2>3 DEF LoadsInOrder
    <3> QED
      BY <1>1, <2>1, <2>2, <2>3, <3>1
  <2>5. Head(s).request = lo + 1 /\ lo < hi
    BY <2>1, <2>2, <2>3, <2>4
  <2>6. LoadsInOrder(Tail(s), lo + 1, hi)
    BY <1>8, <2>5, LoadsStep
  <2>7. \A r \in (lo + 2)..hi : LoadView(Tail(s), r) = LoadView(s, r)
    BY <1>6, <1>8, <2>5, <2>6
  <2> QED
    BY <2>5, <2>7
<1> QED
  BY <1>4, <1>5, <1>7, <1>8

-----------------------------------------------------------------------------
(* Steps. *)

\* The shell is created with no client inside.
LEMMA InitClients == Init => ClientsInside
BY DEF Init, ClientsInside

\* ~BrowserShell begins only when no client is inside BrowserLoad, and none
\* enters after.
LEMMA StepClients ==
  ASSUME TypeOK, ClientsInside, [Next]_vars
  PROVE  ClientsInside'
<1> USE DEF TypeOK, ClientsInside
<1>1. CASE CreateIncrease \/ Receiver \/ UNCHANGED vars
  BY <1>1 DEF CreateIncrease, Receiver, StartPeek, Peek, WaitReturns, Recheck, PostLoad,
              IncreaseConsumer, vars, mainVars, clientVars
<1>2. ASSUME NEW c \in Clients, EnterAppend(c) \/ AppendRequest(c) \/ SignalRequest(c)
      PROVE  ClientsInside'
  BY <1>2 DEF EnterAppend, AppendRequest, SignalRequest, mainVars
<1>3. CASE IncreaseBrowserView \/ LoadRequest \/ \E v \in Views : NextRequest(v) \/ FinishLoad(v)
  BY <1>3 DEF IncreaseBrowserView, LoadRequest, NextRequest, FinishLoad, clientVars
<1>4. CASE WillDelete
  BY <1>4 DEF WillDelete, clientVars
<1>5. CASE SignalDelete \/ StopMain
  BY <1>5 DEF SignalDelete, StopMain, clientVars
<1> QED
  BY <1>1, <1>2, <1>3, <1>4, <1>5 DEF Next, Main, MainLoop, Client

\* A step that leaves alone what the mapping reads.
LEMMA MappingKept ==
  ASSUME UNCHANGED <<work, income, requestNumber, peekTasks, lastLoaded, receiveDelete>>,
         receiverPc' = receiverPc, view' = view, request' = request,
         HandedByNumber' = HandedByNumber
  PROVE  UNCHANGED Numbered!vars
BY DEF Numbered!vars, Waiting, ChannelState, Alive

\* What was handed over depends on these alone.
LEMMA HandedKept ==
  ASSUME UNCHANGED <<work, income, requestNumber, lastLoaded, request, view, mainTasks>>
  PROVE  HandedByNumber' = HandedByNumber
BY DEF HandedByNumber, Taken, HandedView

\* An increase in the main loop hands nothing over.
LEMMA IncreaseHands ==
  ASSUME IInv, UNCHANGED <<work, income, requestNumber, lastLoaded, request, view>>,
         NEW g \in Groups, mainTasks' = Append(mainTasks, IncreaseTask(g))
  PROVE  HandedByNumber' = HandedByNumber
<1>1. /\ mainTasks \in Seq(Tasks) /\ LoadsInOrder(mainTasks, lastLoaded, Posted)
      /\ IncreaseTask(g) \in Tasks /\ ~IsLoad(IncreaseTask(g))
  BY TaskType DEF IInv, TypeOK, InOrder, IncreaseTask, IsLoad
<1>2. /\ Taken \in Nat /\ lastLoaded \in Nat /\ Posted <= Taken /\ lastLoaded <= Posted
      /\ request # 0 => request = Taken /\ Posted = Taken - 1
      /\ request = 0 => Posted = Taken
  BY QueueNumbers
<1>3. Taken' = Taken
  BY DEF Taken
<1> HIDE DEF Taken, Posted
<1>4. Posted \in Int
  BY <1>2
<1>5. \A r \in (lastLoaded + 1)..Posted : LoadView(mainTasks', r) = LoadView(mainTasks, r)
  BY <1>1, <1>2, <1>4, LoadViewStep
<1>6. \A k \in 1..(Taken - lastLoaded) : HandedView(lastLoaded + k)' = HandedView(lastLoaded + k)
  <2> TAKE k \in 1..(Taken - lastLoaded)
  <2>1. CASE lastLoaded + k = request
    BY <2>1 DEF HandedView
  <2>2. CASE lastLoaded + k # request
    <3>1. lastLoaded + k \in (lastLoaded + 1)..Posted
      BY <1>2, <1>4, <2>2
    <3> QED
      BY <1>5, <2>2, <3>1 DEF HandedView
  <2> QED
    BY <2>1, <2>2
<1> QED
  BY <1>3, <1>6 DEF HandedByNumber

\* Two queues, or the receiver's view and its loop, as one.
LEMMA TwoQueues ==
  ASSUME NEW S, NEW s \in Seq(S), NEW t \in Seq(S)
  PROVE  /\ <<>> \o t = t /\ s \o <<>> = s /\ s \o t \in Seq(S)
         /\ \A x \in S : s \o Append(t, x) = Append(s \o t, x)
         /\ s # <<>> => Head(s \o t) = Head(s) /\ Tail(s \o t) = Tail(s) \o t
         /\ \A x \in S : Head(<<x>> \o t) = x /\ Tail(<<x>> \o t) = t /\ <<x>> \o t # <<>>
OBVIOUS

\* The oldest of both is the oldest of the first, if it has one.
LEMMA PopOfTwo ==
  ASSUME NEW S, NEW s \in Seq(S), NEW t \in Seq(S), s # <<>>
  PROVE  Tail(s) \o t = Tail(s \o t) /\ Head(s) = Head(s \o t)
BY TwoQueues

\* What the receiver has taken and what is left is what was there.
LEMMA HeadAndTail ==
  ASSUME NEW S, NEW s \in Seq(S), s # <<>>
  PROVE  <<Head(s)>> \o Tail(s) = s
OBVIOUS

\* The consumers in line, where the receiver may stand.
LEMMA WaitingIs ==
  ASSUME IInv
  PROVE  /\ peekTasks \in Seq(Views)
         /\ receiverPc \in {"peek", "wait", "woken"} =>
              /\ view \in Views /\ Waiting = <<view>> \o peekTasks
              /\ Waiting # <<>> /\ Head(Waiting) = view /\ Tail(Waiting) = peekTasks
         /\ receiverPc \notin {"peek", "wait", "woken"} => Waiting = peekTasks
<1>1. peekTasks \in Seq(Views) /\ view \in Views \cup {NoView} /\ <<>> \in Seq(Views)
  BY DEF IInv, TypeOK
<1>2. receiverPc \in {"peek", "wait", "woken"} => view \in Views
  BY <1>1 DEF IInv, Control
<1>3. CASE receiverPc \in {"peek", "wait", "woken"}
  <2>1. Waiting = <<view>> \o peekTasks
    BY <1>3 DEF Waiting
  <2> QED
    BY <1>1, <1>2, <1>3, <2>1, TwoQueues
<1>4. CASE receiverPc \notin {"peek", "wait", "woken"}
  <2>1. Waiting = <<>> \o peekTasks
    BY <1>4 DEF Waiting
  <2> QED
    BY <1>1, <1>4, <2>1, TwoQueues
<1> QED
  BY <1>3, <1>4

\* appendRequest sends.
LEMMA AppendSends ==
  ASSUME IInv, ClientsInside, NEW c \in Clients, Alive, AppendRequest(c)
  PROVE  Numbered!Send
<1>1. /\ mainPc = "run" /\ ~receiveDelete /\ requestNumber < MaxRequests
  BY DEF AppendRequest, ClientsInside, IInv, Control, TypeOK
<1>2. /\ requestNumber' = requestNumber + 1 /\ income' = Append(income, requestNumber + 1)
      /\ UNCHANGED <<work, request, view, receiverPc, receiveDelete, lastLoaded, mainTasks,
                     peekTasks>>
  BY DEF AppendRequest, receiverVars, mainVars, loops
<1>3. /\ income \in Seq(Requests) /\ work \in Seq(Requests) /\ requestNumber \in 0..MaxRequests
  BY DEF IInv, TypeOK
<1>4. requestNumber + 1 \in Requests
  BY <1>1, <1>3 DEF Requests
<1>5. (work \o income)' = Append(work \o income, requestNumber + 1)
  BY <1>2, <1>3, <1>4, TwoQueues
<1>6. Len(income') = Len(income) + 1 /\ Len(income) \in Nat /\ Len(work) \in Nat
  BY <1>2, <1>3, <1>4, Pushed, LenProperties
<1>7. Taken' = Taken
  BY <1>2, <1>3, <1>6 DEF Taken
<1>8. HandedByNumber' = HandedByNumber
  BY <1>2, <1>7 DEF HandedByNumber, HandedView
<1>9. Waiting' = Waiting /\ ChannelState' = ChannelState /\ ChannelState = "open"
  BY <1>1, <1>2 DEF Waiting, ChannelState, Alive
<1> QED
  BY <1>1, <1>2, <1>5, <1>8, <1>9 DEF Numbered!Send

\* A view that is free, or has done its load, asks.
LEMMA AskAsks ==
  ASSUME IInv, Alive, mainPc = "run", NEW v \in Views, viewState[v] \in {"free", "loading"}, Ask(v),
         UNCHANGED <<work, income, requestNumber, lastLoaded, request, view, receiverPc,
                     receiveDelete>>,
         HandedByNumber' = HandedByNumber
  PROVE  Numbered!Ask(v)
<1>1. ~receiveDelete
  BY DEF IInv, Control, TypeOK
<1>2. view # v /\ ~AsksInLoop(v)
  BY DEF IInv, OneAskPerView
<1>3. peekTasks' = Append(peekTasks, v) /\ peekTasks \in Seq(Views)
  BY DEF Ask, IInv, TypeOK
<1>4. Waiting' = Append(Waiting, v)
  <2>1. CASE receiverPc \in {"peek", "wait", "woken"}
    <3>1. view \in Views /\ <<view>> \in Seq(Views) /\ Waiting = <<view>> \o peekTasks
      BY <2>1, WaitingIs
    <3>2. Waiting' = <<view>> \o Append(peekTasks, v)
      BY <1>3, <2>1 DEF Waiting
    <3> QED
      BY <1>3, <3>1, <3>2, TwoQueues
  <2>2. CASE receiverPc \notin {"peek", "wait", "woken"}
    <3>1. Waiting' = <<>> \o Append(peekTasks, v) /\ Waiting = peekTasks
      BY <1>3, <2>2, WaitingIs DEF Waiting
    <3>2. Append(peekTasks, v) \in Seq(Views)
      BY <1>3, Pushed
    <3> QED
      BY <3>1, <3>2, TwoQueues
  <2> QED
    BY <2>1, <2>2
<1>5. \A i \in DOMAIN Waiting : Waiting[i] # v
  <2>1. \A i \in DOMAIN peekTasks : peekTasks[i] # v
    BY <1>2 DEF AsksInLoop
  <2>2. CASE receiverPc \in {"peek", "wait", "woken"}
    <3>1. view \in Views /\ <<view>> \in Seq(Views) /\ Waiting = <<view>> \o peekTasks
      BY <2>2, WaitingIs
    <3>2. \A i \in DOMAIN (<<view>> \o peekTasks) :
            (<<view>> \o peekTasks)[i] = view
              \/ \E j \in DOMAIN peekTasks : (<<view>> \o peekTasks)[i] = peekTasks[j]
      BY <1>3, <3>1
    <3> QED
      BY <1>2, <2>1, <3>1, <3>2
  <2>3. CASE receiverPc \notin {"peek", "wait", "woken"}
    BY <2>1, <2>3, WaitingIs
  <2> QED
    BY <2>2, <2>3
<1>6. ChannelState' = ChannelState /\ ChannelState = "open"
  BY <1>1 DEF ChannelState, Alive
<1> QED
  BY <1>4, <1>5, <1>6 DEF Numbered!Ask

\* peekRequest gives the oldest request to the view the receiver serves, or finds none.
LEMMA PeekGives ==
  ASSUME IInv, Peek
  PROVE  [Numbered!Next]_(Numbered!vars)
<1>1. /\ income \in Seq(Requests) /\ work \in Seq(Requests) /\ <<>> \in Seq(Requests)
      /\ requestNumber \in Nat /\ Len(income) \in Nat /\ Len(work) \in Nat
  BY LenProperties DEF IInv, TypeOK
<1>2. /\ receiverPc = "peek" /\ Alive /\ request = 0
      /\ UNCHANGED <<requestNumber, view, lastLoaded, receiveDelete, mainTasks, peekTasks>>
  BY DEF Peek, IInv, Control, mainVars, loops, Alive
<1> DEFINE q == LoadRequests
<1>3. /\ q.work \in Seq(Requests) /\ q.income \in Seq(Requests)
      /\ q.work \o q.income = work \o income
      /\ Len(q.work) + Len(q.income) = Len(work) + Len(income)
      /\ q.work = <<>> => work = <<>> /\ income = <<>> /\ q.income = <<>>
  <2>1. CASE work = <<>>
    <3>1. q.work = income /\ q.income = <<>>
      BY <2>1 DEF LoadRequests
    <3> QED
      BY <1>1, <2>1, <3>1, TwoQueues
  <2>2. CASE work # <<>>
    BY <1>1, <2>2 DEF LoadRequests
  <2> QED
    BY <2>1, <2>2
<1>4. CASE q.work = <<>>
  <2>1. /\ work' = work /\ income' = income /\ request' = request /\ receiverPc' = "wait"
    BY <1>3, <1>4 DEF Peek
  <2>2. HandedByNumber' = HandedByNumber
    BY <1>2, <2>1, HandedKept
  <2> QED
    BY <1>2, <2>1, <2>2 DEF Numbered!vars, Waiting, ChannelState, Alive
<1>5. CASE q.work # <<>>
  <2>1. /\ income' = q.income /\ work' = Tail(q.work) /\ request' = Head(q.work)
        /\ receiverPc' = "post"
    BY <1>5 DEF Peek
  <2> HIDE DEF q
  <2>2. /\ (work \o income)' = Tail(work \o income) /\ request' = Head(work \o income)
        /\ Len(work') + Len(income') = Len(work) + Len(income) - 1
        /\ Len(work) + Len(income) > 0
    <3> DEFINE w == q.work
               i == q.income
    <3>1. /\ w \in Seq(Requests) /\ i \in Seq(Requests) /\ w # <<>>
          /\ w \o i = work \o income /\ Len(w) + Len(i) = Len(work) + Len(income)
          /\ income' = i /\ work' = Tail(w) /\ request' = Head(w)
      BY <1>3, <1>5, <2>1
    <3> HIDE DEF w, i
    <3>2. Tail(w) \o i = Tail(w \o i) /\ Head(w) = Head(w \o i)
      <4>1. w \in Seq(Requests) /\ i \in Seq(Requests) /\ w # <<>>
        BY <3>1
      <4> QED
        BY <4>1, PopOfTwo
    <3>3. Len(Tail(w)) = Len(w) - 1 /\ Len(w) >= 1 /\ Len(w) \in Nat /\ Len(i) \in Nat
      BY <3>1, Popped, LenProperties
    <3>4. (work \o income)' = Tail(work \o income) /\ request' = Head(work \o income)
      BY <3>1, <3>2
    <3>5. /\ Len(work') + Len(income') = Len(work) + Len(income) - 1
          /\ Len(work) + Len(income) > 0
      BY <3>1, <3>3
    <3> QED
      BY <3>4, <3>5
  <2>3. /\ work \o income = Numbers(Taken, requestNumber)
        /\ Taken \in Nat /\ lastLoaded \in Nat /\ lastLoaded <= Taken
        /\ Taken <= requestNumber /\ Posted = Taken
    BY <1>2, QueueNumbers
  <2>4. Taken < requestNumber /\ Taken' = Taken + 1
    <3>1. Len(work') \in Int /\ Len(income') \in Int
      <4>1. work' \in Seq(Requests) /\ income' \in Seq(Requests)
        BY <1>3, <1>5, <2>1, Popped
      <4> QED
        BY <4>1, LenProperties
    <3> QED
      BY <1>1, <1>2, <2>2, <3>1 DEF Taken
  <2>5. work \o income # <<>> /\ request' = Taken + 1
    <3> DEFINE s == work \o income
               lo == Taken
    <3>1. s = Numbers(lo, requestNumber) /\ lo \in Nat /\ requestNumber \in Nat
          /\ lo < requestNumber /\ lo <= requestNumber
      BY <1>1, <2>3, <2>4
    <3>2. request' = Head(s)
      BY <2>2
    <3> HIDE DEF s, lo
    <3>3. s # <<>> /\ Head(s) = lo + 1
      BY <3>1, NumbersStep
    <3> QED
      BY <3>2, <3>3 DEF s, lo
  <2>6. Waiting # <<>> /\ Head(Waiting) = view /\ Waiting' = Tail(Waiting)
    <3>1. Waiting' = <<>> \o peekTasks
      BY <1>2, <2>1 DEF Waiting
    <3> QED
      BY <1>2, <3>1, WaitingIs, TwoQueues
  <2>7. HandedByNumber' = Append(HandedByNumber, [view |-> view, request |-> Taken + 1])
    <3> HIDE DEF Taken, Posted
    <3>1. lastLoaded' = lastLoaded /\ mainTasks' = mainTasks /\ view' = view
          /\ request' = Taken + 1
      BY <1>2, <2>5
    <3> DEFINE hv(k) == HandedView(lastLoaded + k)'
               n == Taken - lastLoaded
               e(k) == [view |-> HandedView(lastLoaded + k), request |-> lastLoaded + k]
               last == [view |-> view, request |-> Taken + 1]
    <3>2. \A k \in 1..(n + 1) : hv(k) = IF k = n + 1 THEN view ELSE HandedView(lastLoaded + k)
      BY <1>2, <2>3, <3>1 DEF HandedView
    <3>3. HandedByNumber' = [k \in 1..(Taken - lastLoaded)' |->
                       [view |-> hv(k), request |-> lastLoaded' + k]]
      BY DEF HandedByNumber
    <3>4. (Taken - lastLoaded)' = n + 1 /\ n \in Nat
      BY <2>3, <2>4, <3>1
    <3> HIDE DEF hv
    <3>5. HandedByNumber = [k \in 1..n |-> e(k)]
      BY DEF HandedByNumber
    <3>6. \A k \in 1..(n + 1) : HandedByNumber'[k] = IF k = n + 1 THEN last ELSE e(k)
      <4> TAKE k \in 1..(n + 1)
      <4>1. HandedByNumber'[k] = [view |-> hv(k), request |-> lastLoaded + k]
        BY <3>1, <3>3, <3>4
      <4>2. k = n + 1 => lastLoaded + k = Taken + 1
        BY <2>3
      <4> QED
        BY <3>2, <4>1, <4>2
    <3>7. HandedByNumber' = [k \in 1..(n + 1) |-> HandedByNumber'[k]]
      BY <3>3, <3>4
    <3> HIDE DEF n, e, last
    <3>8. Append([k \in 1..n |-> e(k)], last)
            = [k \in 1..(n + 1) |-> IF k = n + 1 THEN last ELSE e(k)]
      BY <3>4
    <3> QED
      BY <3>5, <3>6, <3>7, <3>8 DEF last
  <2>8. ChannelState' = ChannelState /\ ChannelState # "crashed"
    BY <1>2, <2>1 DEF ChannelState, Alive
  <2>9. Numbered!Give
    BY <1>2, <2>2, <2>5, <2>6, <2>7, <2>8 DEF Numbered!Give
  <2> QED
    BY <2>9 DEF Numbered!Next
<1> QED
  BY <1>4, <1>5

\* The receiver takes a view from its loop to serve it, or drops it at the end.
LEMMA StartPeekServes ==
  ASSUME IInv, StartPeek
  PROVE  [Numbered!Next]_(Numbered!vars)
<1>1. /\ receiverPc = "idle" /\ Alive /\ peekTasks # <<>> /\ peekTasks' = Tail(peekTasks)
      /\ UNCHANGED <<work, income, requestNumber, lastLoaded, receiveDelete, mainTasks, request>>
      /\ request = 0
  BY DEF StartPeek, Alive, queueVars, mainVars, receiverVars, IInv, Control
<1>2. peekTasks \in Seq(Views) /\ Waiting = peekTasks
  BY <1>1, WaitingIs
<1>3. Head(peekTasks) \in Views /\ Tail(peekTasks) \in Seq(Views)
  BY <1>1, <1>2, Popped
<1>4. HandedByNumber' = HandedByNumber
  <2>1. Taken' = Taken
    BY <1>1 DEF Taken
  <2>2. lastLoaded \in Nat /\ Taken \in Nat
    BY QueueNumbers
  <2>3. \A k \in 1..(Taken - lastLoaded) : HandedView(lastLoaded + k)' = HandedView(lastLoaded + k)
    BY <1>1, <2>2 DEF HandedView
  <2> QED
    BY <1>1, <2>1, <2>3 DEF HandedByNumber
<1>5. CASE receiveDelete
  <2>1. receiverPc' = receiverPc /\ view' = view
    BY <1>5 DEF StartPeek, receiverVars
  <2>2. Waiting' = <<>> \o Tail(peekTasks)
    BY <1>1, <2>1 DEF Waiting
  <2>3. Waiting' = Tail(Waiting)
    BY <1>2, <1>3, <2>2, TwoQueues
  <2>4. ChannelState = "closed" /\ ChannelState' = "closed"
    BY <1>1, <1>5, <2>1 DEF ChannelState, Alive
  <2> QED
    BY <1>1, <1>2, <1>4, <2>3, <2>4 DEF Numbered!Next, Numbered!Dismiss
<1>6. CASE ~receiveDelete
  <2>1. receiverPc' = "peek" /\ view' = Head(peekTasks)
    BY <1>6 DEF StartPeek
  <2>2. Waiting' = <<Head(peekTasks)>> \o Tail(peekTasks)
    BY <1>1, <2>1 DEF Waiting
  <2>3. <<Head(peekTasks)>> \o Tail(peekTasks) = peekTasks
    BY <1>1, <1>2, HeadAndTail
  <2>4. ChannelState' = ChannelState
    BY <1>1, <2>1 DEF ChannelState, Alive
  <2> QED
    BY <1>1, <1>2, <1>4, <2>2, <2>3, <2>4 DEF Numbered!vars
<1> QED
  BY <1>5, <1>6

\* The receiver wakes up; at the end it dismisses the view it waited for.
LEMMA WakeServes ==
  ASSUME IInv, WaitReturns \/ Recheck
  PROVE  [Numbered!Next]_(Numbered!vars)
<1>1. /\ receiverPc \in {"wait", "woken"} /\ Alive
      /\ UNCHANGED <<work, income, requestNumber, lastLoaded, receiveDelete, mainTasks, request,
                     peekTasks>>
      /\ request = 0 /\ receiverPc' # "crashed"
  BY DEF WaitReturns, Recheck, Alive, queueVars, mainVars, loops, receiverVars, IInv, Control
<1>2. HandedByNumber' = HandedByNumber
  <2>1. Taken' = Taken
    BY <1>1 DEF Taken
  <2>2. lastLoaded \in Nat /\ Taken \in Nat
    BY QueueNumbers
  <2>3. \A k \in 1..(Taken - lastLoaded) : HandedView(lastLoaded + k)' = HandedView(lastLoaded + k)
    BY <1>1, <2>2 DEF HandedView
  <2> QED
    BY <1>1, <2>1, <2>3 DEF HandedByNumber
<1>3. ChannelState' = ChannelState
  BY <1>1 DEF ChannelState, Alive
<1>4. CASE view' = view /\ receiverPc' \in {"peek", "wait", "woken"}
  BY <1>1, <1>2, <1>3, <1>4 DEF Numbered!vars, Waiting
<1>5. CASE receiveDelete /\ receiverPc' = "idle"
  <2>1. Waiting' = <<>> \o peekTasks
    BY <1>1, <1>5 DEF Waiting
  <2>2. Waiting # <<>> /\ Waiting' = Tail(Waiting)
    BY <1>1, <2>1, WaitingIs, TwoQueues
  <2>3. ChannelState = "closed"
    BY <1>1, <1>5 DEF ChannelState
  <2> QED
    BY <1>1, <1>2, <1>3, <2>2, <2>3 DEF Numbered!Next, Numbered!Dismiss
<1> QED
  BY <1>4, <1>5 DEF WaitReturns, Recheck, receiverVars

\* PostLoad moves what was given from the receiver's hands to the main loop.
LEMMA PostLoadKeeps ==
  ASSUME IInv, PostLoad
  PROVE  [Numbered!Next]_(Numbered!vars)
<1>1. /\ receiverPc = "post" /\ Alive /\ request # 0 /\ view # NoView
      /\ UNCHANGED <<work, income, requestNumber, lastLoaded, receiveDelete, peekTasks>>
      /\ receiverPc' \notin {"peek", "wait", "woken"}
  BY DEF PostLoad, Alive, queueVars, mainVars, IInv, Control
<1>2. Waiting' = Waiting
  BY <1>1 DEF Waiting
<1>3. CASE mainPc = "gone"
  <2>1. receiverPc' = "crashed" /\ UNCHANGED <<view, request, mainTasks>>
    BY <1>3 DEF PostLoad
  <2>2. receiveDelete
    BY <1>3 DEF IInv, Control, TypeOK
  <2>3. HandedByNumber' = HandedByNumber
    BY <1>1, <2>1, HandedKept
  <2>4. ChannelState = "closed" /\ ChannelState' = "crashed"
    BY <1>1, <2>1, <2>2 DEF ChannelState, Alive
  <2> QED
    BY <1>1, <1>2, <2>3, <2>4 DEF Numbered!Next, Numbered!Crash
<1>4. CASE mainPc # "gone"
  <2> DEFINE t == LoadTask(view, request)
  <2>1. mainTasks' = Append(mainTasks, t) /\ request' = 0 /\ receiverPc' \in {"idle", "increase"}
    BY <1>4 DEF PostLoad
  <2>2. /\ request = Taken /\ Posted = Taken - 1 /\ Taken \in Nat /\ lastLoaded \in Nat
        /\ lastLoaded <= Posted
    BY <1>1, QueueNumbers
  <2>3. /\ mainTasks \in Seq(Tasks) /\ LoadsInOrder(mainTasks, lastLoaded, Posted)
        /\ t \in Tasks /\ IsLoad(t) /\ t.request = Posted + 1 /\ t.view = view
    <3>1. view \in Views /\ request \in Requests
      BY <1>1 DEF IInv, TypeOK, Requests
    <3> QED
      BY <2>2, <3>1, TaskType DEF IInv, TypeOK, InOrder, LoadTask, IsLoad
  <2>4. Posted \in Int
    BY <2>2
  <2>5. /\ \A r \in (lastLoaded + 1)..Posted : LoadView(mainTasks', r) = LoadView(mainTasks, r)
        /\ LoadView(mainTasks', Posted + 1) = view
    <3> HIDE DEF t
    <3> QED
      BY <2>1, <2>2, <2>3, <2>4, LoadViewStep
  <2>6. Taken' = Taken
    BY <1>1 DEF Taken
  <2>7. \A k \in 1..(Taken - lastLoaded) : HandedView(lastLoaded + k)' = HandedView(lastLoaded + k)
    <3> TAKE k \in 1..(Taken - lastLoaded)
    <3>1. HandedView(lastLoaded + k)' = LoadView(mainTasks', lastLoaded + k)
      BY <1>1, <2>1, <2>2 DEF HandedView
    <3>2. CASE lastLoaded + k = request
      BY <2>2, <2>5, <3>1, <3>2 DEF HandedView
    <3>3. CASE lastLoaded + k # request
      <4>1. lastLoaded + k \in (lastLoaded + 1)..Posted
        BY <2>2, <3>3
      <4> QED
        BY <2>5, <3>1, <3>3, <4>1 DEF HandedView
    <3> QED
      BY <3>2, <3>3
  <2>8. HandedByNumber' = HandedByNumber
    BY <1>1, <2>6, <2>7 DEF HandedByNumber
  <2>9. ChannelState' = ChannelState
    BY <1>1, <2>1 DEF ChannelState, Alive
  <2> QED
    BY <1>1, <1>2, <2>8, <2>9 DEF Numbered!vars
<1> QED
  BY <1>3, <1>4

\* An increase is posted or not, by create() or by the receiver, which may crash in
\* a shell that is being released.
LEMMA IncreaseKeeps ==
  ASSUME IInv, IncreaseConsumer \/ (Alive /\ CreateIncrease)
  PROVE  [Numbered!Next]_(Numbered!vars)
<1>1. /\ Alive
      /\ UNCHANGED <<work, income, requestNumber, lastLoaded, receiveDelete, request, view,
                     peekTasks>>
      /\ mainTasks' = mainTasks \/ \E g \in Groups : mainTasks' = Append(mainTasks, IncreaseTask(g))
  BY DEF IncreaseConsumer, CreateIncrease, Alive, queueVars, receiverVars, mainVars
<1>2. HandedByNumber' = HandedByNumber
  BY <1>1, HandedKept, IncreaseHands
<1>3. CASE receiverPc' = receiverPc
  BY <1>1, <1>2, <1>3 DEF Numbered!vars, Waiting, ChannelState, Alive
<1>4. CASE receiverPc = "increase" /\ receiverPc' = "idle"
  BY <1>1, <1>2, <1>4 DEF Numbered!vars, Waiting, ChannelState, Alive
<1>5. CASE receiverPc = "increase" /\ receiverPc' = "crashed" /\ mainPc # "run"
  <2>1. receiveDelete
    BY <1>5 DEF IInv, Control, TypeOK
  <2>2. /\ ChannelState = "closed" /\ ChannelState' = "crashed" /\ Waiting' = Waiting
    BY <1>1, <1>5, <2>1 DEF ChannelState, Alive, Waiting
  <2> QED
    BY <1>1, <1>2, <2>2 DEF Numbered!Next, Numbered!Crash
<1> QED
  BY <1>3, <1>4, <1>5 DEF IncreaseConsumer, CreateIncrease, receiverVars

\* increaseBrowserView makes at most one view ask.
LEMMA IncreaseAsks ==
  ASSUME IInv, Alive, IncreaseBrowserView
  PROVE  [Numbered!Next]_(Numbered!vars)
<1>1. /\ mainPc = "run" /\ mainTasks # <<>> /\ mainTasks' = Tail(mainTasks)
      /\ Head(mainTasks).task = "increase"
      /\ UNCHANGED <<work, income, requestNumber, lastLoaded, receiveDelete, request, view,
                     receiverPc>>
  BY DEF IncreaseBrowserView, queueVars, receiverVars
<1>2. /\ mainTasks \in Seq(Tasks) /\ LoadsInOrder(mainTasks, lastLoaded, Posted)
      /\ ~IsLoad(Head(mainTasks))
  BY <1>1 DEF IInv, TypeOK, InOrder, IsLoad
<1>3. /\ Taken \in Nat /\ lastLoaded \in Nat /\ Posted <= Taken /\ lastLoaded <= Posted
      /\ request # 0 => request = Taken /\ Posted = Taken - 1
      /\ request = 0 => Posted = Taken
  BY QueueNumbers
<1>4. Taken' = Taken
  BY <1>1 DEF Taken
<1> HIDE DEF Taken, Posted
<1>5. Posted \in Int
  BY <1>3
<1>6. \A r \in (lastLoaded + 1)..Posted : LoadView(mainTasks', r) = LoadView(mainTasks, r)
  BY <1>1, <1>2, <1>3, <1>5, LoadViewStep
<1>7. \A k \in 1..(Taken - lastLoaded) : HandedView(lastLoaded + k)' = HandedView(lastLoaded + k)
  <2> TAKE k \in 1..(Taken - lastLoaded)
  <2>1. CASE lastLoaded + k = request
    BY <1>1, <2>1 DEF HandedView
  <2>2. CASE lastLoaded + k # request
    <3>1. lastLoaded + k \in (lastLoaded + 1)..Posted
      BY <1>3, <1>5, <2>2
    <3> QED
      BY <1>1, <1>6, <2>2, <3>1 DEF HandedView
  <2> QED
    BY <2>1, <2>2
<1>8. HandedByNumber' = HandedByNumber
  BY <1>1, <1>4, <1>7 DEF HandedByNumber
<1>9. CASE UNCHANGED <<peekTasks, viewState>>
  BY <1>1, <1>8, <1>9 DEF Numbered!vars, Waiting, ChannelState, Alive
<1>10. ASSUME NEW v \in Views, viewState[v] = "free", Ask(v)
       PROVE  Numbered!Ask(v)
  BY <1>1, <1>8, <1>10, AskAsks
<1> QED
  BY <1>9, <1>10 DEF IncreaseBrowserView, Numbered!Next

\* loadRequest takes the oldest of what was handed over.
LEMMA LoadTakes ==
  ASSUME IInv, Alive, LoadRequest
  PROVE  Numbered!Take
<1>1. /\ mainTasks # <<>> /\ mainTasks' = Tail(mainTasks) /\ IsLoad(Head(mainTasks))
      /\ lastLoaded' = Head(mainTasks).request
      /\ UNCHANGED <<work, income, requestNumber, receiveDelete, request, view, receiverPc,
                     peekTasks>>
  BY DEF LoadRequest, queueVars, receiverVars, IsLoad
<1>2. mainTasks \in Seq(Tasks) /\ LoadsInOrder(mainTasks, lastLoaded, Posted)
  BY DEF IInv, TypeOK, InOrder
<1>3. /\ Taken \in Nat /\ lastLoaded \in Nat /\ Posted <= Taken /\ lastLoaded <= Posted
      /\ request # 0 => request = Taken /\ Posted = Taken - 1
      /\ request = 0 => Posted = Taken
  BY QueueNumbers
<1>4. Taken' = Taken
  BY <1>1 DEF Taken
<1> HIDE DEF Taken, Posted
<1>5. Posted \in Int
  BY <1>3
<1>6. /\ Head(mainTasks).request = lastLoaded + 1 /\ lastLoaded < Posted
      /\ \A r \in (lastLoaded + 2)..Posted : LoadView(mainTasks', r) = LoadView(mainTasks, r)
  BY <1>1, <1>2, <1>3, <1>5, LoadViewStep
<1>7. lastLoaded' = lastLoaded + 1
  BY <1>1, <1>6
<1> DEFINE e(k) == [view |-> HandedView(lastLoaded + k), request |-> lastLoaded + k]
           hv(k) == HandedView(lastLoaded + k)'
           n == Taken - lastLoaded
<1>8. \A k \in 1..(n - 1) : hv(k) = HandedView(lastLoaded + (k + 1))
  <2> TAKE k \in 1..(n - 1)
  <2>0. lastLoaded' + k = lastLoaded + (k + 1) /\ k \in Nat
    BY <1>3, <1>7
  <2>1. CASE lastLoaded + (k + 1) = request
    BY <1>1, <2>0, <2>1 DEF HandedView
  <2>2. CASE lastLoaded + (k + 1) # request
    <3>1. lastLoaded + (k + 1) \in (lastLoaded + 2)..Posted
      BY <1>3, <1>5, <2>2
    <3> QED
      BY <1>1, <1>6, <2>0, <2>2, <3>1 DEF HandedView
  <2> QED
    BY <2>1, <2>2
<1>9. HandedByNumber = [k \in 1..n |-> e(k)] /\ n \in Nat \ {0}
  BY <1>3, <1>6 DEF HandedByNumber
<1>10. HandedByNumber' = [k \in 1..(Taken - lastLoaded)' |-> [view |-> hv(k), request |-> lastLoaded' + k]]
  BY DEF HandedByNumber
<1>11. (Taken - lastLoaded)' = n - 1
  BY <1>3, <1>4, <1>7
<1> HIDE DEF hv
<1>12. \A k \in 1..(n - 1) : HandedByNumber'[k] = e(k + 1)
  <2> TAKE k \in 1..(n - 1)
  <2>1. HandedByNumber'[k] = [view |-> hv(k), request |-> lastLoaded' + k]
    BY <1>10, <1>11
  <2>2. lastLoaded' + k = lastLoaded + (k + 1)
    BY <1>3, <1>7, <1>9
  <2> QED
    BY <1>8, <2>1, <2>2
<1>13. HandedByNumber' = [k \in 1..(n - 1) |-> HandedByNumber'[k]]
  BY <1>10, <1>11
<1> HIDE DEF e, n
<1>14. /\ HandedByNumber # <<>> /\ Tail(HandedByNumber) = [k \in 1..(n - 1) |-> e(k + 1)]
  BY <1>9
<1>15. HandedByNumber' = Tail(HandedByNumber)
  BY <1>12, <1>13, <1>14
<1>16. Waiting' = Waiting /\ ChannelState' = ChannelState /\ ChannelState # "crashed"
  BY <1>1 DEF Waiting, ChannelState, Alive
<1> QED
  BY <1>1, <1>14, <1>15, <1>16 DEF Numbered!Take

\* Every step of the queue's threads is a step of the channel, or none of it.
LEMMA StepChannel ==
  ASSUME IInv, ClientsInside, [Next]_vars
  PROVE  [Numbered!Next]_(Numbered!vars)
<1>1. CASE Receiver
  <2>1. CASE Peek
    BY <2>1, PeekGives
  <2>2. CASE StartPeek
    BY <2>2, StartPeekServes
  <2>3. CASE WaitReturns \/ Recheck
    BY <2>3, WakeServes
  <2>4. CASE PostLoad
    BY <2>4, PostLoadKeeps
  <2>5. CASE IncreaseConsumer
    BY <2>5, IncreaseKeeps
  <2> QED
    BY <1>1, <2>1, <2>2, <2>3, <2>4, <2>5 DEF Receiver
<1>2. CASE Alive /\ CreateIncrease
  BY <1>2, IncreaseKeeps
<1>3. ASSUME NEW c \in Clients, Client(c)
      PROVE  [Numbered!Next]_(Numbered!vars)
  <2>1. CASE Alive /\ AppendRequest(c)
    BY <2>1, AppendSends DEF Numbered!Next
  <2>2. CASE EnterAppend(c) \/ SignalRequest(c)
    <3>1. UNCHANGED <<queueVars, receiverVars, mainVars, loops>>
      BY <2>2 DEF EnterAppend, SignalRequest
    <3> QED
      BY <3>1, HandedKept, MappingKept DEF queueVars, receiverVars, mainVars, loops
  <2> QED
    BY <1>3, <2>1, <2>2 DEF Client
<1>4. CASE Alive /\ IncreaseBrowserView
  BY <1>4, IncreaseAsks
<1>5. CASE Alive /\ LoadRequest
  BY <1>5, LoadTakes DEF Numbered!Next
<1>6. ASSUME NEW v \in Views, Alive, NextRequest(v)
      PROVE  Numbered!Ask(v)
  <2>1. /\ mainPc = "run" /\ viewState[v] = "loading" /\ Ask(v)
        /\ UNCHANGED <<work, income, requestNumber, lastLoaded, request, view, receiverPc,
                       receiveDelete, mainTasks>>
    BY <1>6 DEF NextRequest, queueVars, receiverVars
  <2> QED
    BY <1>6, <2>1, HandedKept, AskAsks
<1>7. ASSUME NEW v \in Views, FinishLoad(v)
      PROVE  UNCHANGED Numbered!vars
  BY <1>7, HandedKept, MappingKept DEF FinishLoad, queueVars, receiverVars, loops
<1>8. CASE Alive /\ WillDelete
  <2>1. /\ UNCHANGED <<work, income, requestNumber, lastLoaded, request, view, receiverPc,
                       mainTasks, peekTasks>>
        /\ receiveDelete' = TRUE /\ mainPc = "run"
    BY <1>8 DEF WillDelete, queueVars, receiverVars, loops
  <2>2. ~receiveDelete
    BY <2>1 DEF IInv, Control, TypeOK
  <2>3. ChannelState = "open" /\ ChannelState' = "closed" /\ Waiting' = Waiting
    BY <1>8, <2>1, <2>2 DEF ChannelState, Alive, Waiting
  <2>4. HandedByNumber' = HandedByNumber
    BY <2>1, HandedKept
  <2> QED
    BY <2>1, <2>3, <2>4 DEF Numbered!Next, Numbered!Close
<1>9. CASE SignalDelete \/ StopMain
  BY <1>9, HandedKept, MappingKept DEF SignalDelete, StopMain, queueVars, receiverVars, loops
<1>10. CASE UNCHANGED vars
  BY <1>10, HandedKept, MappingKept DEF vars, queueVars, receiverVars, mainVars, loops
<1>11. \A v \in Views : Alive /\ NextRequest(v) => Numbered!Next
  BY <1>6 DEF Numbered!Next
<1> QED
  BY <1>1, <1>2, <1>3, <1>4, <1>5, <1>7, <1>8, <1>9, <1>10, <1>11 DEF Next, Main, MainLoop

-----------------------------------------------------------------------------
(* The two readings of the main loop agree. *)

\* The loads of the first requests are as many as these requests.
LEMMA LoadsCounted ==
  ASSUME NEW s \in Seq(Tasks), NEW lo \in Nat, NEW hi \in Int, LoadsInOrder(s, lo, hi),
         NEW m \in lo..hi
  PROVE  Cardinality({i \in DOMAIN s : IsLoad(s[i]) /\ s[i].request <= m}) = m - lo
<1> DEFINE at == {i \in DOMAIN s : IsLoad(s[i]) /\ s[i].request <= m}
           f == [i \in at |-> s[i].request]
<1>1. DOMAIN s = 1..Len(s) /\ Len(s) \in Nat
  BY LenProperties
<1>2. /\ \A i \in DOMAIN s : IsLoad(s[i]) => s[i].request \in (lo + 1)..hi
      /\ \A i, j \in DOMAIN s :
           IsLoad(s[i]) /\ IsLoad(s[j]) /\ i < j => s[i].request < s[j].request
      /\ \A r \in (lo + 1)..hi : \E i \in DOMAIN s : IsLoad(s[i]) /\ s[i].request = r
  BY DEF LoadsInOrder
<1>3. \A i \in at : i \in 1..Len(s) /\ s[i].request \in (lo + 1)..m
  BY <1>1, <1>2
<1>4. \A r \in (lo + 1)..m : \E i \in at : s[i].request = r
  BY <1>2
<1>5. \A i, j \in at : s[i].request = s[j].request => i = j
  <2> SUFFICES ASSUME NEW i \in at, NEW j \in at, s[i].request = s[j].request PROVE i = j
    OBVIOUS
  <2>1. ~(i < j) /\ ~(j < i)
    BY <1>2, <1>3
  <2> QED
    BY <1>3, <2>1
<1>6. IsFiniteSet(at)
  <2>1. IsFiniteSet(1..Len(s))
    BY <1>1, FS_Interval
  <2>2. at \in SUBSET (1..Len(s))
    BY <1>3
  <2> QED
    BY <2>1, <2>2, FS_Subset
<1> HIDE DEF at
<1>7. f \in Bijection(at, (lo + 1)..m)
  BY <1>3, <1>4, <1>5 DEF Bijection, Injection, Surjection, IsInjective
<1>8. ExistsBijection(at, (lo + 1)..m)
  BY <1>7 DEF ExistsBijection
<1>9. Cardinality(at) = Cardinality((lo + 1)..m)
  BY <1>6, <1>8, FS_Bijection
<1>10. Cardinality((lo + 1)..m) = m - lo
  <2>1. lo + 1 \in Int /\ m \in Int /\ lo <= m
    OBVIOUS
  <2>2. Cardinality((lo + 1)..m) = IF lo + 1 > m THEN 0 ELSE m - (lo + 1) + 1
    BY <2>1, FS_Interval
  <2> QED
    BY <2>1, <2>2
<1> QED
  BY <1>9, <1>10 DEF at

\* Where the k-th load of the main loop stands.
LEMMA LoadsByNumber ==
  ASSUME IInv
  PROVE  Loads = [k \in 1..(Posted - lastLoaded) |->
                    [view |-> LoadView(mainTasks, lastLoaded + k), request |-> lastLoaded + k]]
<1> DEFINE s == mainTasks
           lo == lastLoaded
           hi == Posted
           at == {i \in DOMAIN s : IsLoad(s[i])}
           upTo(i) == {j \in at : j <= i}
           nth(k) == CHOOSE i \in at : Cardinality(upTo(i)) = k
<1>1. s \in Seq(Tasks) /\ lo \in Nat /\ hi \in Int /\ lo <= hi /\ LoadsInOrder(s, lo, hi)
  BY QueueNumbers DEF IInv, TypeOK, InOrder
<1> HIDE DEF s, lo, hi
<1>2. DOMAIN s = 1..Len(s) /\ Len(s) \in Nat
  BY <1>1, LenProperties
<1>3. /\ \A i \in at : i \in 1..Len(s) /\ s[i].request \in (lo + 1)..hi
      /\ \A i, j \in at : i < j => s[i].request < s[j].request
      /\ \A r \in (lo + 1)..hi : \E i \in at : s[i].request = r
  BY <1>1, <1>2 DEF LoadsInOrder
<1>4. Cardinality(at) = hi - lo
  <2>1. at = {i \in DOMAIN s : IsLoad(s[i]) /\ s[i].request <= hi}
    BY <1>3
  <2>2. hi \in lo..hi
    BY <1>1
  <2> QED
    BY <1>1, <2>1, <2>2, LoadsCounted
<1>5. ASSUME NEW i \in at PROVE Cardinality(upTo(i)) = s[i].request - lo
  <2>1. \A j \in at : j <= i <=> s[j].request <= s[i].request
    <3> TAKE j \in at
    <3>1. j < i \/ j = i \/ i < j
      BY <1>3
    <3>2. j < i => s[j].request < s[i].request
      BY <1>3
    <3>3. i < j => s[i].request < s[j].request
      BY <1>3
    <3> QED
      BY <1>3, <3>1, <3>2, <3>3
  <2>2. upTo(i) = {j \in DOMAIN s : IsLoad(s[j]) /\ s[j].request <= s[i].request}
    BY <2>1
  <2>3. s[i].request \in lo..hi
    BY <1>1, <1>3
  <2> HIDE DEF upTo
  <2> QED
    BY <1>1, <2>2, <2>3, LoadsCounted
<1>6. \A i, j \in at : s[i].request = s[j].request => i = j
  <2> SUFFICES ASSUME NEW i \in at, NEW j \in at, s[i].request = s[j].request PROVE i = j
    OBVIOUS
  <2>1. ~(i < j) /\ ~(j < i)
    BY <1>3
  <2> QED
    BY <1>3, <2>1
<1>7. ASSUME NEW k \in 1..(hi - lo)
      PROVE  s[nth(k)].request = lo + k /\ s[nth(k)].view = LoadView(s, lo + k)
  <2>1. PICK i \in at : s[i].request = lo + k
    BY <1>1, <1>3
  <2>2. Cardinality(upTo(i)) = k
    BY <1>1, <1>5, <2>1
  <2> DEFINE n == nth(k)
  <2>3. n \in at /\ Cardinality(upTo(n)) = k
    BY <2>2
  <2>4. s[n].request - lo = k
    BY <1>5, <2>3
  <2>5. s[n].request \in (lo + 1)..hi
    BY <1>3, <2>3
  <2> HIDE DEF n
  <2>6. s[n].request = lo + k
    <3>1. \A r \in (lo + 1)..hi : r - lo = k => r = lo + k
      BY <1>1
    <3> QED
      BY <2>4, <2>5, <3>1
  <2>7. n = i
    BY <1>6, <2>1, <2>3, <2>6
  <2>8. i \in DOMAIN s /\ IsLoad(s[i])
    BY <2>1
  <2>9. LoadView(s, s[i].request) = s[i].view
    BY <1>1, <2>8, LoadViewIs
  <2> QED
    BY <2>1, <2>6, <2>7, <2>9 DEF n
<1>8. Loads = [k \in 1..Cardinality(at) |->
                 [view |-> s[nth(k)].view, request |-> s[nth(k)].request]]
  BY DEF Loads, s
<1> HIDE DEF at, nth
<1> QED
  BY <1>4, <1>7, <1>8 DEF s, lo, hi

\* Channel and Numbered are given the same requests.
LEMMA SameHanded == IInv => Handed = HandedByNumber
<1> SUFFICES ASSUME IInv PROVE Handed = HandedByNumber
  OBVIOUS
<1> DEFINE lo == lastLoaded
           m == Posted - lastLoaded
           entry(k) == [view |-> LoadView(mainTasks, lo + k), request |-> lo + k]
           last == [view |-> view, request |-> request]
<1>1. /\ Taken \in Nat /\ lo \in Nat /\ m \in Nat /\ lo + m = Posted
      /\ request # 0 => request = Taken /\ Posted = Taken - 1
      /\ request = 0 => Posted = Taken
  BY QueueNumbers
<1>2. Loads = [k \in 1..m |-> entry(k)]
  BY LoadsByNumber
<1>3. HandedByNumber = [k \in 1..(Taken - lo) |->
                          [view |-> HandedView(lo + k), request |-> lo + k]]
  BY DEF HandedByNumber
<1> HIDE DEF lo, m
<1>4. \A k \in 1..m : HandedView(lo + k) = LoadView(mainTasks, lo + k)
  BY <1>1 DEF HandedView
<1> HIDE DEF entry, last
<1>5. CASE request = 0
  <2>1. Loads \in Seq({entry(k) : k \in 1..m})
    BY <1>1, <1>2
  <2>2. Handed = Loads
    BY <1>5, <2>1, TwoQueues DEF Handed
  <2>3. Taken - lo = m
    BY <1>1, <1>5
  <2> QED
    BY <1>2, <1>3, <1>4, <2>2, <2>3 DEF entry
<1>6. CASE request # 0
  <2> DEFINE S == {entry(k) : k \in 1..m} \cup {last}
  <2>1. Loads \in Seq(S) /\ Len(Loads) = m /\ last \in S /\ <<last>> \in Seq(S)
        /\ Len(<<last>>) = 1 /\ <<last>>[1] = last
    BY <1>1, <1>2
  <2> HIDE DEF S
  <2>2. Handed = Loads \o <<last>>
    BY <1>6 DEF Handed, last
  <2>3. /\ Handed \in Seq(S) /\ Len(Handed) = m + 1
        /\ \A k \in 1..(m + 1) : Handed[k] = IF k <= m THEN Loads[k] ELSE <<last>>[k - m]
    BY <1>1, <2>1, <2>2, ConcatProperties
  <2>4. Handed = [k \in 1..(m + 1) |-> Handed[k]]
    BY <2>3, LenProperties
  <2>5. \A k \in 1..m : Handed[k] = [view |-> HandedView(lo + k), request |-> lo + k]
    BY <1>1, <1>2, <1>4, <2>3 DEF entry
  <2>6. lo + (m + 1) = request /\ Taken - lo = m + 1
    BY <1>1, <1>6
  <2>7. Handed[m + 1] = [view |-> HandedView(lo + (m + 1)), request |-> lo + (m + 1)]
    <3>1. (m + 1) - m = 1 /\ ~(m + 1 <= m) /\ m + 1 \in 1..(m + 1)
      BY <1>1
    <3>2. Handed[m + 1] = last
      BY <2>1, <2>3, <3>1
    <3>3. HandedView(lo + (m + 1)) = view
      BY <2>6 DEF HandedView
    <3> QED
      BY <2>6, <3>2, <3>3 DEF last
  <2>8. \A k \in 1..(m + 1) : Handed[k] = [view |-> HandedView(lo + k), request |-> lo + k]
    BY <1>1, <2>5, <2>7
  <2> QED
    BY <1>3, <2>4, <2>6, <2>8
<1> QED
  BY <1>5, <1>6

\* So a step of the one is a step of the other.
LEMMA SameChannel ==
  ASSUME IInv, IInv', [Numbered!Next]_(Numbered!vars)
  PROVE  [Channel!Next]_(Channel!vars)
<1>1. Handed = HandedByNumber
  BY SameHanded
<1>2. (Handed = HandedByNumber)'
  BY SameHanded, PTL
<1>3. CASE Numbered!vars' = Numbered!vars
  BY <1>1, <1>2, <1>3 DEF Numbered!vars, Channel!vars
<1>4. CASE Numbered!Next
  BY <1>1, <1>2, <1>4 DEF Numbered!Next, Channel!Next, Numbered!Send, Channel!Send,
     Numbered!Ask, Channel!Ask, Numbered!Give, Channel!Give, Numbered!Take, Channel!Take,
     Numbered!Close, Channel!Close, Numbered!Dismiss, Channel!Dismiss,
     Numbered!Crash, Channel!Crash
<1> QED
  BY <1>3, <1>4

\* First in, first out, each request to one consumer, no consumer twice in line, and a
\* request and a consumer that are both there meet before the channel dismisses
\* anybody: the safety part of the channel.
THEOREM QueueImplementsChannel == Spec => Channel!Init /\ [][Channel!Next]_(Channel!vars)
<1>1. Init => Channel!Init
  <2> SUFFICES ASSUME Init PROVE Channel!Init
    OBVIOUS
  <2>1. /\ work = <<>> /\ income = <<>> /\ requestNumber = 0 /\ peekTasks = <<>>
        /\ receiverPc = "idle" /\ ~receiveDelete /\ lastLoaded = 0
    BY DEF Init
  <2>2. <<>> \o <<>> = <<>> /\ Len(<<>>) = 0
    <3>1. <<>> \in Seq(Views) /\ Len(<<>>) = 0
      BY EmptySeq
    <3>2. \A t \in Seq(Views) : <<>> \o t = t
      BY <3>1, TwoQueues
    <3> QED
      BY <3>1, <3>2
  <2>3. Taken = 0
    <3> DEFINE i == Len(income)
               w == Len(work)
    <3>1. i = 0 /\ w = 0
      BY <2>1, <2>2
    <3>2. Taken = requestNumber - i - w
      BY DEF Taken
    <3> HIDE DEF i, w
    <3> QED
      BY <2>1, <3>1, <3>2
  <2>4. HandedByNumber = <<>>
    <3> DEFINE e(k) == [view |-> HandedView(lastLoaded + k), request |-> lastLoaded + k]
               n == Taken - lastLoaded
    <3>1. HandedByNumber = [k \in 1..n |-> e(k)] /\ n = 0
      BY <2>1, <2>3 DEF HandedByNumber
    <3> HIDE DEF e, n
    <3> QED
      BY <3>1
  <2>5. work \o income = <<>> /\ Waiting = <<>> /\ ChannelState = "open"
    BY <2>1, <2>2 DEF Waiting, ChannelState, Alive
  <2>6. Handed = <<>>
    BY <2>4, InitInv, SameHanded
  <2> QED
    BY <2>1, <2>5, <2>6 DEF Channel!Init
<1>2. IInv /\ IInv' /\ ClientsInside /\ [Next]_vars => [Channel!Next]_(Channel!vars)
  BY StepChannel, SameChannel
<1>3. IInv => TypeOK
  BY DEF IInv
<1>4. TypeOK /\ ClientsInside /\ [Next]_vars => ClientsInside'
  BY StepClients
<1> QED
  BY <1>1, <1>2, <1>3, <1>4, InitClients, InvHolds, PTL DEF Spec

(***************************************************************************)
(* 3. The shell.                                                           *)
(***************************************************************************)

USE GroupsAssumption, CreateAssumption, OptionsAssumption, ViewsAssumption

-----------------------------------------------------------------------------
(* Each step of the shell is one of the queue. *)

\* create() starts from the queue's initial state.
LEMMA ShellStarts == ShellInit => Init
  BY DEF ShellInit, Init

\* The views a group gives to an increase were not there before, or it is the
\* single tab that has not been asked for yet.
LEMMA IncreaseIsNew ==
  ASSUME ShellInv, ShellIncreaseBrowserView
  PROVE  /\ IncreaseBrowserView
         /\ \/ UNCHANGED <<viewState, group>>
            \/ \E v \in Views, g \in Groups :
                 /\ viewState[v] = "free" /\ viewState' = [viewState EXCEPT ![v] = "asked"]
                 /\ group' = [group EXCEPT ![v] = g]
                 /\ g = "main" /\ IsFixed => Size("main") < MaxCount
                 /\ g = "main" /\ IsSingle => ViewsOf("main") = {}
<1> DEFINE g == Head(mainTasks).group
<1>1. /\ mainPc = "run" /\ mainTasks # <<>> /\ Head(mainTasks).task = "increase"
      /\ mainTasks' = Tail(mainTasks) /\ GetBrowserView(g)
      /\ UNCHANGED <<queueVars, event, receiverVars, mainPc, receiveDelete, lastLoaded, clientVars>>
  BY DEF ShellIncreaseBrowserView
<1>2. Head(mainTasks) = mainTasks[1] /\ 1 \in DOMAIN mainTasks /\ Head(mainTasks) \in Tasks
  BY <1>1, Popped, LenProperties DEF ShellInv, IInv, TypeOK
<1>3. g \in Groups
  BY <1>1, <1>2 DEF Tasks
<1>4. ASSUME g = "main", IsSingle, ViewsOf("main") # {} PROVE FALSE
  BY <1>1, <1>2, <1>4 DEF ShellInv, SingleTabFirst
<1>5. CASE NewView(g) /\ (g = "main" /\ IsFixed => Size("main") < MaxCount)
                      /\ (g = "main" /\ IsSingle => ViewsOf("main") = {})
  <2>1. PICK v \in Views : viewState[v] = "free" /\ Ask(v) /\ group' = [group EXCEPT ![v] = g]
    BY <1>5 DEF NewView
  <2>2. IncreaseBrowserView
    BY <1>1, <2>1 DEF IncreaseBrowserView
  <2> QED
    BY <1>3, <1>5, <2>1, <2>2 DEF Ask
<1>6. CASE UNCHANGED <<peekTasks, viewState, group>>
  BY <1>1, <1>6 DEF IncreaseBrowserView
<1>7. ~(IsFixed /\ IsNewTab)
  BY DEF IsFixed, IsNewTab, FIXED_TAB, NEW_TAB
<1>8. ~(IsFixed /\ IsSingle) /\ ~(IsNewTab /\ IsSingle)
  BY DEF IsSingle
<1> HIDE DEF g
<1>9. CASE g = "tab"
  BY <1>1, <1>5, <1>9 DEF GetBrowserView
<1>10. CASE g = "main"
  BY <1>1, <1>4, <1>5, <1>6, <1>7, <1>8, <1>10 DEF GetBrowserView
<1> QED
  BY <1>3, <1>9, <1>10

\* Every step of the shell is a step of the queue, or none of its variables
\* changes.
LEMMA ShellStep ==
  ASSUME ShellInv, [ShellNext]_shellVars
  PROVE  [Next]_vars
<1>1. CASE ShellReceiver
  BY <1>1 DEF ShellReceiver, IncreaseConsumerIfNeeded, Next, Receiver
<1>2. CASE ShellMainLoop
  BY <1>2, IncreaseIsNew DEF ShellMainLoop, Next, Main, MainLoop
<1>3. CASE \E v \in Views : Respond(v)
  BY <1>3 DEF Respond, PrepareDoNextRequest, Next, Main
<1>4. CASE Alive /\ (Create \/ DeleteShell \/ StopMain)
  BY <1>4 DEF Create, DeleteShell, Next, Main
<1>5. CASE \E c \in Clients : Client(c)
  BY <1>5 DEF Next
<1>6. CASE UNCHANGED shellVars
  BY <1>6 DEF shellVars
<1> QED
  BY <1>1, <1>2, <1>3, <1>4, <1>5, <1>6 DEF ShellNext

-----------------------------------------------------------------------------
(* The groups. *)

\* Nobody writes the options after create().
LEMMA OptionKept ==
  ASSUME [ShellNext]_shellVars
  PROVE  /\ option' = option
         /\ IsNewTab' = IsNewTab /\ IsFixed' = IsFixed /\ IsSingle' = IsSingle
         /\ MaxCount' = MaxCount
<1>1. option' = option
  BY DEF ShellNext, shellVars, ShellReceiver, IncreaseConsumerIfNeeded, ShellMainLoop,
         ShellIncreaseBrowserView, Respond, PrepareDoNextRequest, Create, DeleteShell
<1> QED
  BY <1>1 DEF IsNewTab, IsFixed, IsSingle, MaxCount

\* What a step may do to the views and the groups' lists.
ViewsKept == UNCHANGED <<viewState, group>>
ViewMade(v, g) ==
  /\ viewState[v] = "free" /\ viewState' = [viewState EXCEPT ![v] = "asked"]
  /\ group' = [group EXCEPT ![v] = g]
  /\ g = "main" /\ IsFixed => Size("main") < MaxCount
  /\ g = "main" /\ IsSingle => ViewsOf("main") = {}
ViewGoesOn(v, state) ==
  /\ viewState[v] \notin {"free", "deleted"} /\ state \in {"asked", "loading"}
  /\ viewState' = [viewState EXCEPT ![v] = state] /\ group' = group
ViewDeleted(v) ==
  /\ viewState[v] = "loading" /\ viewState' = [viewState EXCEPT ![v] = "free"]
  /\ group' = [group EXCEPT ![v] = "none"]
  /\ IsSingle => group[v] = "tab"
AllDeleted ==
  /\ viewState' = [v \in Views |-> "deleted"] /\ group' = [v \in Views |-> "none"]
  /\ mainPc' # "run"

\* The lists and the views change together, in one of these ways.
LEMMA ViewStep ==
  ASSUME ShellInv, [ShellNext]_shellVars
  PROVE  \/ ViewsKept
         \/ \E v \in Views, g \in Groups : ViewMade(v, g)
         \/ \E v \in Views, state \in {"asked", "loading"} : ViewGoesOn(v, state)
         \/ \E v \in Views : ViewDeleted(v)
         \/ AllDeleted
<1>1. CASE ShellReceiver
  BY <1>1 DEF ShellReceiver, IncreaseConsumerIfNeeded, StartPeek, Peek, WaitReturns, Recheck,
              PostLoad, IncreaseConsumer, mainVars, ViewsKept
<1>2. CASE ShellIncreaseBrowserView
  BY <1>2, IncreaseIsNew DEF ViewsKept, ViewMade
<1>3. CASE LoadRequest /\ UNCHANGED <<option, group>>
  <2> DEFINE t == Head(mainTasks)
  <2>1. /\ mainTasks # <<>> /\ t.task = "load"
        /\ viewState' = IF viewState[t.view] = "deleted" THEN viewState
                        ELSE [viewState EXCEPT ![t.view] = "loading"]
    BY <1>3 DEF LoadRequest
  <2>2. t = mainTasks[1] /\ 1 \in DOMAIN mainTasks /\ t \in Tasks
    BY <2>1, Popped, LenProperties DEF ShellInv, IInv, TypeOK
  <2>3. t.view \in Views /\ HasLoadTask(t.view)
    BY <2>1, <2>2 DEF Tasks, HasLoadTask, IsLoad
  <2>4. viewState[t.view] # "free"
    BY <2>3 DEF ShellInv, IInv, OneAskPerView
  <2> QED
    BY <1>3, <2>1, <2>3, <2>4 DEF ViewsKept, ViewGoesOn
<1>4. CASE SignalDelete /\ UNCHANGED <<option, group>>
  BY <1>4 DEF SignalDelete, ViewsKept
<1>5. ASSUME NEW v \in Views, Respond(v) PROVE ViewGoesOn(v, "asked") \/ ViewDeleted(v)
  <2>1. CASE NextRequest(v) /\ UNCHANGED <<option, group>>
    BY <2>1 DEF NextRequest, Ask, ViewGoesOn
  <2>2. CASE HasObserver(v) /\ FinishLoad(v) /\ group' = [group EXCEPT ![v] = "none"]
    BY <2>2 DEF HasObserver, FinishLoad, ViewDeleted, IsSingle
  <2> QED
    BY <1>5, <2>1, <2>2 DEF Respond, PrepareDoNextRequest
<1>6. CASE Create
  BY <1>6 DEF Create, CreateIncrease, mainVars, ViewsKept
<1>7. CASE DeleteShell
  BY <1>7 DEF DeleteShell, WillDelete, AllDeleted
<1>8. CASE StopMain /\ UNCHANGED <<option, group>>
  BY <1>8 DEF StopMain, ViewsKept
<1>9. CASE \E c \in Clients : Client(c) /\ UNCHANGED <<option, group>>
  BY <1>9 DEF Client, EnterAppend, AppendRequest, SignalRequest, mainVars, ViewsKept
<1>10. CASE UNCHANGED shellVars
  BY <1>10 DEF shellVars, vars, mainVars, ViewsKept
<1> QED
  BY <1>1, <1>2, <1>3, <1>4, <1>5, <1>6, <1>7, <1>8, <1>9, <1>10 DEF ShellNext, ShellMainLoop

\* A step keeps the lists and the views in agreement.
LEMMA StepGroupType ==
  ASSUME ShellInv, [ShellNext]_shellVars
  PROVE  GroupTypeOK'
<1> USE DEF GroupTypeOK
<1>1. IInv' /\ TypeOK'
  BY InvStep, ShellStep DEF ShellInv, IInv
<1>2. option' \in [type : Int, viewCount : Int]
  BY OptionKept DEF ShellInv
<1>3. /\ viewState \in [Views -> {"free", "asked", "loading", "deleted"}]
      /\ group \in [Views -> Groups \cup {"none"}]
      /\ \A v \in Views : group[v] = "none" <=> viewState[v] \in {"free", "deleted"}
  BY DEF ShellInv, TypeOK
<1> DEFINE Agree == /\ group' \in [Views -> Groups \cup {"none"}]
                    /\ \A v \in Views : group'[v] = "none" <=> viewState'[v] \in {"free", "deleted"}
<1>4. ASSUME ViewsKept PROVE Agree
  BY <1>3, <1>4 DEF ViewsKept
<1>5. ASSUME NEW v \in Views, NEW g \in Groups, ViewMade(v, g) PROVE Agree
  BY <1>3, <1>5 DEF ViewMade
<1>6. ASSUME NEW v \in Views, NEW state \in {"asked", "loading"}, ViewGoesOn(v, state) PROVE Agree
  BY <1>3, <1>6 DEF ViewGoesOn
<1>7. ASSUME NEW v \in Views, ViewDeleted(v) PROVE Agree
  BY <1>3, <1>7 DEF ViewDeleted
<1>8. ASSUME AllDeleted PROVE Agree
  BY <1>8 DEF AllDeleted
<1>9. Agree
  BY <1>4, <1>5, <1>6, <1>7, <1>8, ViewStep
<1> QED
  BY <1>1, <1>2, <1>9

\* What a step may do to the main group's list.
LEMMA MainGroupStep ==
  ASSUME ShellInv, [ShellNext]_shellVars
  PROVE  \/ ViewsOf("main")' \subseteq ViewsOf("main")
            /\ (IsSingle /\ mainPc' = "run" => ViewsOf("main")' = ViewsOf("main"))
         \/ \E v \in Views : /\ ViewsOf("main")' = ViewsOf("main") \cup {v}
                             /\ IsFixed => Size("main") < MaxCount
                             /\ IsSingle => ViewsOf("main") = {}
<1> DEFINE Shrinks == /\ ViewsOf("main")' \subseteq ViewsOf("main")
                      /\ IsSingle /\ mainPc' = "run" => ViewsOf("main")' = ViewsOf("main")
<1>1. /\ group \in [Views -> Groups \cup {"none"}]
      /\ \A v \in Views : group[v] = "none" <=> viewState[v] \in {"free", "deleted"}
  BY DEF ShellInv, GroupTypeOK
<1>2. ASSUME group' = group PROVE Shrinks
  BY <1>2 DEF ViewsOf
<1>3. ASSUME NEW v \in Views, NEW g \in Groups, ViewMade(v, g)
      PROVE  \/ Shrinks
             \/ /\ ViewsOf("main")' = ViewsOf("main") \cup {v}
                /\ IsFixed => Size("main") < MaxCount
                /\ IsSingle => ViewsOf("main") = {}
  <2>1. group[v] = "none"
    BY <1>1, <1>3 DEF ViewMade
  <2>2. CASE g = "tab"
    BY <1>1, <1>3, <2>1, <2>2 DEF ViewMade, ViewsOf
  <2>3. CASE g = "main"
    <3>1. ViewsOf("main")' = ViewsOf("main") \cup {v}
      BY <1>1, <1>3, <2>3 DEF ViewMade, ViewsOf
    <3> QED
      BY <1>3, <2>3, <3>1 DEF ViewMade
  <2> QED
    BY <2>2, <2>3
<1>4. ASSUME NEW v \in Views, ViewDeleted(v) PROVE Shrinks
  BY <1>1, <1>4 DEF ViewDeleted, ViewsOf
<1>5. ASSUME AllDeleted PROVE Shrinks
  BY <1>5 DEF AllDeleted, ViewsOf
<1> QED
  BY <1>2, <1>3, <1>4, <1>5, ViewStep DEF ViewsKept, ViewGoesOn

\* A step keeps the bounds of the main group.
LEMMA StepBounded ==
  ASSUME ShellInv, [ShellNext]_shellVars
  PROVE  MainGroupBounded'
<1> DEFINE S == ViewsOf("main") T == ViewsOf("main")'
<1>1. /\ IsFixed' = IsFixed /\ IsSingle' = IsSingle /\ MaxCount' = MaxCount
  BY OptionKept
<1>2. MaxCount \in Int
  BY DEF ShellInv, GroupTypeOK, MaxCount
<1>3. /\ IsFixed => Size("main") <= MaxCount
      /\ IsSingle => Size("main") <= 1
  BY DEF ShellInv, MainGroupBounded
<1>4. IsFiniteSet(S) /\ IsFiniteSet(T)
  BY FS_Subset DEF ViewsOf
<1>5. Size("main") = Cardinality(S) /\ Size("main")' = Cardinality(T)
      /\ Cardinality(S) \in Nat /\ Cardinality(T) \in Nat
  BY <1>4, FS_CardinalityType DEF Size
<1> HIDE DEF S, T
<1>6. CASE T \subseteq S
  <2>1. Cardinality(T) <= Cardinality(S)
    BY <1>4, <1>6, FS_Subset
  <2> QED
    BY <1>1, <1>2, <1>3, <1>5, <2>1 DEF MainGroupBounded
<1>7. CASE \E v \in Views : /\ T = S \cup {v}
                            /\ IsFixed => Size("main") < MaxCount
                            /\ IsSingle => S = {}
  <2>1. Cardinality(T) <= Cardinality(S) + 1
    BY <1>4, <1>5, <1>7, FS_AddElement
  <2>2. IsSingle => Cardinality(S) = 0
    BY <1>7, FS_EmptySet
  <2> QED
    BY <1>1, <1>2, <1>5, <1>7, <2>1, <2>2 DEF MainGroupBounded
<1> QED
  BY <1>6, <1>7, MainGroupStep DEF S, T

\* Tasks that leave a single tab alone.
OnlyTabs(tasks) ==
  \A i \in DOMAIN tasks : tasks[i].task = "increase" => tasks[i].group = "tab"

\* Posting no increase but one of the second group, and popping, keep that so.
LEMMA OnlyTabsStep ==
  ASSUME NEW s \in Seq(Tasks), OnlyTabs(s)
  PROVE  /\ \A t \in Tasks : (t.task = "increase" => t.group = "tab") => OnlyTabs(Append(s, t))
         /\ s # <<>> => OnlyTabs(Tail(s))
<1>1. DOMAIN s = 1..Len(s) /\ Len(s) \in Nat
  BY LenProperties
<1>2. ASSUME NEW t \in Tasks, t.task = "increase" => t.group = "tab"
      PROVE  OnlyTabs(Append(s, t))
  <2>1. /\ DOMAIN Append(s, t) = 1..(Len(s) + 1)
        /\ \A i \in 1..Len(s) : Append(s, t)[i] = s[i]
        /\ Append(s, t)[Len(s) + 1] = t
    BY Pushed
  <2> QED
    BY <1>1, <1>2, <2>1 DEF OnlyTabs
<1>3. ASSUME s # <<>> PROVE OnlyTabs(Tail(s))
  <2>1. /\ DOMAIN Tail(s) = 1..(Len(s) - 1)
        /\ \A i \in 1..(Len(s) - 1) : Tail(s)[i] = s[i + 1]
    BY <1>3, Popped
  <2>2. \A i \in 1..(Len(s) - 1) : i + 1 \in 1..Len(s)
    BY <1>1
  <2> QED
    BY <1>1, <2>1, <2>2 DEF OnlyTabs
<1> QED
  BY <1>2, <1>3

\* Until the single tab is there nothing runs but create() and its increase.
LEMMA SingleTabComes ==
  ASSUME ShellInv, [ShellNext]_shellVars, IsSingle, mainPc = "run", mainPc' = "run",
         ViewsOf("main") = {}
  PROVE  SingleTabFirst'
<1> USE DEF SingleTabFirst
<1>1. /\ \A v \in Views : group[v] = "none" /\ viewState[v] \in {"free", "deleted"}
      /\ receiverPc = "idle" /\ peekTasks = <<>>
      /\ \/ startup = 1 /\ mainTasks = <<>>
         \/ startup = 0 /\ mainTasks = <<IncreaseTask("main")>>
  BY DEF ShellInv, GroupTypeOK
<1>2. IsSingle' = IsSingle /\ group \in [Views -> Groups \cup {"none"}]
  BY OptionKept DEF ShellInv, GroupTypeOK
<1> DEFINE Same == UNCHANGED <<group, receiverPc, peekTasks, startup, mainTasks>>
<1>3. ASSUME Same PROVE SingleTabFirst'
  BY <1>1, <1>2, <1>3 DEF ViewsOf
<1>4. ~ShellReceiver
  BY <1>1 DEF ShellReceiver, IncreaseConsumerIfNeeded, StartPeek, Peek, WaitReturns, Recheck,
              PostLoad, IncreaseConsumer
<1>5. CASE ShellIncreaseBrowserView
  <2>1. /\ startup = 0 /\ mainTasks = <<IncreaseTask("main")>>
        /\ mainTasks' = Tail(mainTasks) /\ GetBrowserView(Head(mainTasks).group)
        /\ startup' = startup
    BY <1>1, <1>5 DEF ShellIncreaseBrowserView, clientVars
  <2>2. Head(mainTasks).group = "main" /\ mainTasks' = <<>>
    BY <2>1 DEF IncreaseTask
  <2>3. NewView("main")
    BY <2>1, <2>2, <1>2 DEF GetBrowserView, IsSingle
  <2>4. ViewsOf("main")' # {}
    BY <2>3, <1>2 DEF NewView, ViewsOf
  <2> QED
    BY <2>1, <2>2, <2>4
<1>6. CASE LoadRequest \/ SignalDelete
  <2>1. mainTasks # <<>> => Head(mainTasks).task = "increase"
    BY <1>1 DEF IncreaseTask
  <2> QED
    BY <1>6, <2>1 DEF LoadRequest, SignalDelete
<1>7. ~\E v \in Views : Respond(v)
  BY <1>1 DEF Respond, PrepareDoNextRequest, NextRequest, FinishLoad
<1>8. CASE Create
  <2>1. startup = 1 /\ mainTasks = <<>> /\ startup' = 0
        /\ mainTasks' = TryToIncreaseBrowserView(1)
    BY <1>1, <1>8 DEF Create, CreateIncrease
  <2>2. mainTasks' = <<IncreaseTask("main")>>
    BY <2>1 DEF TryToIncreaseBrowserView, CanGetMoreBrowserView
  <2>3. UNCHANGED <<group, receiverPc, peekTasks>>
    BY <1>8 DEF Create, CreateIncrease, receiverVars
  <2> QED
    BY <1>1, <2>1, <2>2, <2>3 DEF ViewsOf
<1>9. ~DeleteShell /\ ~StopMain
  BY DEF DeleteShell, WillDelete, StopMain
<1>10. ASSUME NEW c \in Clients, Client(c), UNCHANGED <<option, group>> PROVE Same
  BY <1>10 DEF Client, EnterAppend, AppendRequest, SignalRequest, receiverVars, loops
<1>11. ASSUME UNCHANGED shellVars PROVE Same
  BY <1>11 DEF shellVars, vars, receiverVars, loops, clientVars
<1> QED
  BY <1>3, <1>4, <1>5, <1>6, <1>7, <1>8, <1>9, <1>10, <1>11 DEF ShellNext, ShellMainLoop

\* Once it is there, create() is through and no increase for its group is posted.
LEMMA SingleTabStays ==
  ASSUME ShellInv, [ShellNext]_shellVars, IsSingle, mainPc = "run", mainPc' = "run",
         ViewsOf("main") # {}
  PROVE  SingleTabFirst'
<1>1. startup = 0 /\ OnlyTabs(mainTasks) /\ mainTasks \in Seq(Tasks)
  BY DEF ShellInv, SingleTabFirst, OnlyTabs, IInv, TypeOK
<1>2. ViewsOf("main")' # {}
  BY MainGroupStep
<1> DEFINE Quiet == startup' = startup /\ OnlyTabs(mainTasks')
<1>3. ~CanGetMoreBrowserView
  BY DEF CanGetMoreBrowserView, IsSingle
<1>4. ASSUME ShellReceiver PROVE Quiet
  <2>1. ASSUME StartPeek \/ Peek \/ WaitReturns \/ Recheck PROVE Quiet
    BY <1>1, <2>1 DEF StartPeek, Peek, WaitReturns, Recheck, clientVars, loops
  <2>2. ASSUME PostLoad PROVE Quiet
    <3>1. view \in Views /\ request \in Requests
      BY <2>2 DEF ShellInv, IInv, TypeOK, Control, PostLoad, Requests
    <3>2. LoadTask(view, request) \in Tasks /\ LoadTask(view, request).task # "increase"
      BY <3>1 DEF LoadTask, Tasks
    <3> QED
      BY <1>1, <2>2, <3>2, OnlyTabsStep DEF PostLoad, clientVars
  <2>3. ASSUME IncreaseConsumerIfNeeded PROVE Quiet
    <3>1. PICK n \in ObservedSizes : mainTasks' = TryToIncreaseBrowserView(n)
      BY <2>3 DEF IncreaseConsumerIfNeeded
    <3>2. mainTasks' = mainTasks \/ mainTasks' = Append(mainTasks, IncreaseTask("tab"))
      BY <1>3, <3>1 DEF TryToIncreaseBrowserView
    <3>3. IncreaseTask("tab") \in Tasks /\ IncreaseTask("tab").group = "tab"
      BY DEF IncreaseTask, Tasks
    <3>4. OnlyTabs(mainTasks')
      BY <1>1, <3>2, <3>3, OnlyTabsStep
    <3> QED
      BY <2>3, <3>4 DEF IncreaseConsumerIfNeeded, IncreaseConsumer, clientVars
  <2> QED
    BY <1>4, <2>1, <2>2, <2>3 DEF ShellReceiver
<1>5. ASSUME ShellIncreaseBrowserView PROVE Quiet
  BY <1>1, <1>5, OnlyTabsStep DEF ShellIncreaseBrowserView, clientVars
<1>6. ASSUME LoadRequest PROVE Quiet
  BY <1>1, <1>6, OnlyTabsStep DEF LoadRequest, clientVars
<1>7. ASSUME NEW v \in Views, Respond(v) PROVE Quiet
  BY <1>1, <1>7 DEF Respond, PrepareDoNextRequest, NextRequest, FinishLoad, clientVars, loops
<1>8. ~Create /\ ~SignalDelete /\ ~DeleteShell /\ ~StopMain
  BY <1>1 DEF Create, CreateIncrease, SignalDelete, DeleteShell, WillDelete, StopMain
<1>9. ASSUME NEW c \in Clients, Client(c) PROVE Quiet
  BY <1>1, <1>9 DEF Client, EnterAppend, AppendRequest, SignalRequest, loops
<1>10. ASSUME UNCHANGED shellVars PROVE Quiet
  BY <1>1, <1>10 DEF shellVars, vars, loops, clientVars
<1>11. Quiet
  BY <1>4, <1>5, <1>6, <1>7, <1>8, <1>9, <1>10 DEF ShellNext, ShellMainLoop
<1> QED
  BY <1>1, <1>2, <1>11 DEF SingleTabFirst, OnlyTabs

\* A shell that was released never runs again.
LEMMA RunsFromStart ==
  ASSUME ShellInv, [ShellNext]_shellVars, mainPc' = "run"
  PROVE  mainPc = "run"
  BY ShellStep DEF Next, Receiver, Main, MainLoop, Client, StartPeek, Peek, WaitReturns, Recheck,
     PostLoad, IncreaseConsumer, IncreaseBrowserView, LoadRequest, SignalDelete, WillDelete,
     StopMain, NextRequest, FinishLoad, CreateIncrease, EnterAppend, AppendRequest,
     SignalRequest, mainVars, vars

\* A step keeps the single tab first.
LEMMA StepSingle ==
  ASSUME ShellInv, [ShellNext]_shellVars
  PROVE  SingleTabFirst'
<1>1. mainPc' = "run" => mainPc = "run"
  BY RunsFromStart
<1>2. IsSingle' = IsSingle
  BY OptionKept
<1>3. CASE ~IsSingle \/ mainPc' # "run"
  BY <1>2, <1>3 DEF SingleTabFirst
<1> QED
  BY <1>1, <1>3, SingleTabComes, SingleTabStays

-----------------------------------------------------------------------------

\* create() starts in a state of the inductive invariant.
LEMMA ShellInvInit == ShellInit => ShellInv
<1> SUFFICES ASSUME ShellInit PROVE ShellInv
  OBVIOUS
<1>1. IInv
  BY ShellStarts, InitInv
<1>2. option \in [type : Int, viewCount : Int]
  <2>1. PICK shelltype \in ShellTypes, viewcount \in ViewCounts :
          option \in Options(shelltype, viewcount)
    BY DEF ShellInit
  <2> DEFINE T == IF shelltype = Absent THEN Garbage ELSE {shelltype}
             C == IF shelltype # FIXED_TAB THEN Garbage
                  ELSE IF viewcount = Absent THEN {5} ELSE {viewcount}
  <2>2. T \subseteq Int /\ C \subseteq Int
    BY OptionsAssumption
  <2>3. option \in [type : T, viewCount : C]
    BY <2>1 DEF Options
  <2> QED
    BY <2>2, <2>3
<1>3. /\ group = [v \in Views |-> "none"] /\ viewState = [v \in Views |-> "free"]
      /\ startup = IF IsFixed THEN 5 ELSE 1
      /\ receiverPc = "idle" /\ peekTasks = <<>> /\ mainTasks = <<>>
  BY ShellStarts DEF ShellInit, Init
<1>4. GroupTypeOK
  BY <1>1, <1>2, <1>3 DEF GroupTypeOK, IInv
<1>5. ViewsOf("main") = {}
  BY <1>3 DEF ViewsOf
<1>6. SingleTabFirst
  BY <1>3, <1>5 DEF SingleTabFirst, IsSingle
<1>7. MainGroupBounded
  <2>1. Size("main") = 0
    BY <1>5, FS_EmptySet DEF Size
  <2>2. MaxCount \in Nat
    BY <1>2 DEF MaxCount
  <2> QED
    BY <2>1, <2>2 DEF MainGroupBounded
<1> QED
  BY <1>1, <1>4, <1>6, <1>7 DEF ShellInv

\* The inductive invariant of the shell and its queue holds in every reachable
\* state, whatever the type and the count CreateBrowser left in the options.
THEOREM ShellInvariant == ShellSpec => []ShellInv
<1>1. ShellInv /\ [ShellNext]_shellVars => ShellInv'
  <2> SUFFICES ASSUME ShellInv, [ShellNext]_shellVars PROVE ShellInv'
    OBVIOUS
  <2>1. IInv'
    BY InvStep, ShellStep DEF ShellInv
  <2> QED
    BY <2>1, StepGroupType, StepSingle, StepBounded DEF ShellInv
<1> QED
  BY <1>1, ShellInvInit, PTL DEF ShellSpec

\* The shell implements the queue: tryToIncreaseBrowserView and getBrowserView
\* never make a view ask that already stands in line or loads.
THEOREM ShellKeepsQueueRules == ShellSpec => QueueSpec
<1>1. ShellInv /\ [ShellNext]_shellVars => [Next]_vars
  BY ShellStep
<1> QED
  BY <1>1, ShellStarts, ShellInvariant, PTL DEF ShellSpec, QueueSpec

\* However many increases are under way, a fixed group never outgrows
\* m_maxCount, nor a single one its tab.
THEOREM GroupsBounded == ShellSpec => []MainGroupBounded
<1>1. ShellInv => MainGroupBounded
  BY DEF ShellInv
<1> QED
  BY <1>1, ShellInvariant, PTL

\* The groups' lists hold the live views and no others.
THEOREM GroupsHoldLiveViews == ShellSpec => []GroupTypeOK
<1>1. ShellInv => GroupTypeOK
  BY DEF ShellInv
<1> QED
  BY <1>1, ShellInvariant, PTL

\* So no request is lost, doubled or overtaken by another in any shell.
THEOREM ShellRequestsInOrder == ShellSpec => []InOrder
<1>1. ShellInv => InOrder
  BY DEF ShellInv, IInv
<1> QED
  BY <1>1, ShellInvariant, PTL

-----------------------------------------------------------------------------
(* The one consumer of a NEW_TAB shell. *)

\* Where increases are in the main loop.
Increases(tasks) == {i \in DOMAIN tasks : tasks[i].task = "increase"}

\* The consumer is in one place at a time: owed by create(), posted as an
\* increase, in line, with the receiver, or owed by the receiver's last peek.
OnePlace ==
  /\ startup <= 1 /\ Len(peekTasks) <= 1
  /\ \A i, j \in Increases(mainTasks) : i = j
  /\ startup # 0 => peekTasks = <<>> /\ view = NoView /\ receiverPc # "increase"
  /\ startup # 0 => Increases(mainTasks) = {}
  /\ peekTasks # <<>> => view = NoView /\ receiverPc # "increase" /\ Increases(mainTasks) = {}
  /\ view # NoView => receiverPc # "increase" /\ Increases(mainTasks) = {}
  /\ receiverPc = "increase" => Increases(mainTasks) = {}

\* Only a shell of the third kind has one consumer, and only while it runs.
OnePlaceInv == IsNewTab /\ mainPc = "run" => OnePlace

\* What posting a task and taking the first one do to the increases.
LEMMA IncreasesStep ==
  ASSUME NEW s \in Seq(Tasks)
  PROVE  /\ \A t \in Tasks : t.task # "increase" =>
              Increases(Append(s, t)) = Increases(s)
         /\ \A t \in Tasks : Increases(s) = {} =>
              \A i, j \in Increases(Append(s, t)) : i = j
         /\ s # <<>> => \A i \in Increases(Tail(s)) : i + 1 \in Increases(s)
         /\ s # <<>> /\ Head(s).task = "increase" => 1 \in Increases(s)
<1>1. DOMAIN s = 1..Len(s) /\ Len(s) \in Nat
  BY LenProperties
<1>2. ASSUME NEW t \in Tasks
      PROVE  /\ DOMAIN Append(s, t) = 1..(Len(s) + 1)
             /\ \A i \in 1..Len(s) : Append(s, t)[i] = s[i]
             /\ Append(s, t)[Len(s) + 1] = t
  BY Pushed
<1>3. ASSUME NEW t \in Tasks, t.task # "increase"
      PROVE  Increases(Append(s, t)) = Increases(s)
  BY <1>1, <1>2, <1>3 DEF Increases
<1>4. ASSUME NEW t \in Tasks, Increases(s) = {},
             NEW i \in Increases(Append(s, t))
      PROVE  i = Len(s) + 1
  BY <1>1, <1>2, <1>4 DEF Increases
<1>5. ASSUME s # <<>>, NEW i \in Increases(Tail(s)) PROVE i + 1 \in Increases(s)
  <2>1. i \in 1..(Len(s) - 1) /\ Tail(s)[i] = s[i + 1]
    BY <1>5, Popped DEF Increases
  <2> QED
    BY <1>1, <1>5, <2>1 DEF Increases
<1>6. ASSUME s # <<>>, Head(s).task = "increase" PROVE 1 \in Increases(s)
  BY <1>1, <1>6, Popped DEF Increases
<1> QED
  BY <1>3, <1>4, <1>5, <1>6

\* A task that is taken leaves at most one increase, and none if it was one.
LEMMA IncreasesTaken ==
  ASSUME NEW s \in Seq(Tasks), s # <<>>, \A i, j \in Increases(s) : i = j
  PROVE  /\ \A i, j \in Increases(Tail(s)) : i = j
         /\ Increases(s) = {} => Increases(Tail(s)) = {}
         /\ Head(s).task = "increase" => Increases(Tail(s)) = {}
<1>1. \A i \in Increases(Tail(s)) : i \in Nat /\ i > 0 /\ i + 1 \in Increases(s)
  BY IncreasesStep, Popped DEF Increases
<1>2. Head(s).task = "increase" => 1 \in Increases(s)
  BY IncreasesStep
<1> QED
  BY <1>1, <1>2

\* NEW_TAB shells delete the views that answered.
LEMMA NewTabObserves ==
  ASSUME NEW v \in Views, IsNewTab, Respond(v)
  PROVE  FinishLoad(v)
  BY DEF Respond, PrepareDoNextRequest, HasObserver

\* Each step moves the consumer on from one place to the next: create() posts
\* the owed increase, the increase makes a view that asks, the receiver takes
\* what asked, and its last peek either hands it on or owes it again.
LEMMA StepOnePlace ==
  ASSUME ShellInv, [ShellNext]_shellVars, OnePlace, IsNewTab, mainPc = "run", mainPc' = "run"
  PROVE  OnePlace'
<1>1. mainTasks \in Seq(Tasks) /\ peekTasks \in Seq(Views) /\ startup \in Nat
      /\ ~receiveDelete
  BY DEF ShellInv, IInv, TypeOK, Control
<1> DEFINE Same == UNCHANGED <<startup, peekTasks, view, receiverPc, mainTasks>>
<1>2. ASSUME Same PROVE OnePlace'
  BY <1>2 DEF OnePlace
<1>3. IncreaseTask("main") \in Tasks
  BY DEF IncreaseTask, Tasks
<1>4. CASE StartPeek /\ UNCHANGED <<option, group>>
  <2>1. /\ peekTasks # <<>> /\ peekTasks' = Tail(peekTasks)
        /\ receiverPc' = "peek" /\ UNCHANGED <<startup, mainTasks>>
    BY <1>1, <1>4 DEF StartPeek, clientVars
  <2>2. Len(Tail(peekTasks)) = Len(peekTasks) - 1 /\ Tail(peekTasks) \in Seq(Views)
        /\ Len(peekTasks) \in Nat
    BY <1>1, <2>1, Popped, LenProperties
  <2>3. peekTasks' = <<>> /\ Len(peekTasks') = 0
    <3>1. Len(peekTasks') <= 0 /\ peekTasks' \in Seq(Views)
      BY <2>1, <2>2 DEF OnePlace
    <3>2. Len(peekTasks') = 0
      BY <3>1, LenProperties
    <3> QED
      BY <3>1, <3>2, EmptySeq
  <2> QED
    BY <2>1, <2>3 DEF OnePlace
<1>5. CASE (Peek \/ WaitReturns \/ Recheck) /\ UNCHANGED <<option, group>>
  <2>1. /\ UNCHANGED <<startup, peekTasks, view, mainTasks>>
        /\ receiverPc' # "increase"
    BY <1>1, <1>5 DEF Peek, WaitReturns, Recheck, loops, clientVars, mainVars
  <2> QED
    BY <2>1 DEF OnePlace
<1>6. CASE PostLoad /\ UNCHANGED <<option, group>>
  <2>1. view \in Views /\ view # NoView /\ request \in Requests
    BY <1>6 DEF ShellInv, IInv, TypeOK, Control, PostLoad, Requests
  <2>2. LoadTask(view, request) \in Tasks /\ LoadTask(view, request).task # "increase"
    BY <2>1 DEF LoadTask, Tasks
  <2>3. /\ mainTasks' = Append(mainTasks, LoadTask(view, request))
        /\ view' = NoView /\ UNCHANGED <<startup, peekTasks>>
    BY <1>6 DEF PostLoad, clientVars
  <2>4. Increases(mainTasks') = Increases(mainTasks)
    BY <1>1, <2>2, <2>3, IncreasesStep
  <2> QED
    BY <2>1, <2>3, <2>4 DEF OnePlace
<1>7. CASE IncreaseConsumerIfNeeded
  <2>1. /\ receiverPc = "increase" /\ receiverPc' = "idle"
        /\ UNCHANGED <<startup, peekTasks, view>>
    BY <1>7 DEF IncreaseConsumerIfNeeded, IncreaseConsumer, clientVars
  <2>2. mainTasks' = mainTasks \/ mainTasks' = Append(mainTasks, IncreaseTask("main"))
    BY <1>7 DEF IncreaseConsumerIfNeeded, TryToIncreaseBrowserView, CanGetMoreBrowserView
  <2>3. Increases(mainTasks) = {} /\ startup = 0 /\ peekTasks = <<>> /\ view = NoView
    BY <2>1 DEF OnePlace
  <2>4. \A i, j \in Increases(Append(mainTasks, IncreaseTask("main"))) : i = j
    BY <1>1, <1>3, <2>3, IncreasesStep
  <2>5. \A i, j \in Increases(mainTasks') : i = j
    BY <2>2, <2>3, <2>4
  <2> QED
    BY <2>1, <2>3, <2>5 DEF OnePlace
<1>8. CASE ShellIncreaseBrowserView
  <2>1. /\ mainTasks # <<>> /\ Head(mainTasks).task = "increase"
        /\ mainTasks' = Tail(mainTasks) /\ UNCHANGED <<startup, view, receiverPc>>
        /\ \/ peekTasks' = peekTasks
           \/ \E v \in Views : peekTasks' = Append(peekTasks, v)
    BY <1>8 DEF ShellIncreaseBrowserView, GetBrowserView, NewView, Ask, ViewsOf, receiverVars,
       clientVars
  <2>2. Increases(mainTasks') = {} /\ Increases(mainTasks) # {}
    BY <1>1, <2>1, IncreasesStep, IncreasesTaken DEF OnePlace
  <2>3. peekTasks = <<>> /\ startup = 0 /\ view = NoView /\ receiverPc # "increase"
    BY <2>2 DEF OnePlace
  <2>4. Len(peekTasks') <= 1
    <3>1. Len(peekTasks) = 0
      BY <2>3, EmptySeq
    <3>2. ASSUME NEW v \in Views, peekTasks' = Append(peekTasks, v) PROVE Len(peekTasks') <= 1
      BY <1>1, <3>1, <3>2, Pushed
    <3>3. CASE peekTasks' = peekTasks
      BY <3>1, <3>3
    <3>4. CASE peekTasks' # peekTasks
      <4>1. PICK v \in Views : peekTasks' = Append(peekTasks, v)
        BY <2>1, <3>4
      <4> QED
        BY <3>2, <4>1
    <3> QED
      BY <3>3, <3>4
  <2> QED
    BY <2>1, <2>2, <2>3, <2>4 DEF OnePlace
<1>9. CASE LoadRequest /\ UNCHANGED <<option, group>>
  <2>1. /\ mainTasks # <<>> /\ mainTasks' = Tail(mainTasks)
        /\ UNCHANGED <<startup, view, receiverPc, peekTasks>>
    BY <1>9 DEF LoadRequest, receiverVars, clientVars
  <2>2. /\ \A i, j \in Increases(mainTasks') : i = j
        /\ Increases(mainTasks) = {} => Increases(mainTasks') = {}
    BY <1>1, <2>1, IncreasesTaken DEF OnePlace
  <2> QED
    BY <2>1, <2>2 DEF OnePlace
<1>10. ASSUME NEW v \in Views, Respond(v) PROVE Same
  BY <1>10, NewTabObserves DEF FinishLoad, receiverVars, loops, clientVars
<1>11. CASE Create
  <2>1. /\ startup > 0 /\ startup' = startup - 1
        /\ mainTasks' = Append(mainTasks, IncreaseTask("main"))
        /\ UNCHANGED <<view, receiverPc, peekTasks>>
    BY <1>11 DEF Create, CreateIncrease, TryToIncreaseBrowserView, CanGetMoreBrowserView,
                 receiverVars
  <2>2. /\ startup' = 0 /\ Increases(mainTasks) = {} /\ peekTasks = <<>> /\ view = NoView
        /\ receiverPc # "increase"
    BY <1>1, <2>1 DEF OnePlace
  <2>3. \A i, j \in Increases(mainTasks') : i = j
    BY <1>1, <1>3, <2>1, <2>2, IncreasesStep
  <2> QED
    BY <2>1, <2>2, <2>3 DEF OnePlace
<1>12. ~DeleteShell /\ ~StopMain /\ ~SignalDelete
  BY DEF DeleteShell, WillDelete, StopMain, SignalDelete
<1>13. ASSUME NEW c \in Clients, Client(c), UNCHANGED <<option, group>> PROVE Same
  BY <1>13 DEF Client, EnterAppend, AppendRequest, SignalRequest, receiverVars, loops
<1>14. ASSUME UNCHANGED shellVars PROVE Same
  BY <1>14 DEF shellVars, vars, receiverVars, loops, clientVars
<1> QED
  BY <1>2, <1>4, <1>5, <1>6, <1>7, <1>8, <1>9, <1>10, <1>11, <1>12, <1>13, <1>14
     DEF ShellNext, ShellReceiver, ShellMainLoop

\* One place makes a count of at most one.
LEMMA OnePlaceCounts ==
  ASSUME ShellInv, OnePlace
  PROVE  AskOrIncrease <= 1
<1> DEFINE S == Increases(mainTasks)
           seen == Len(peekTasks)
           held == IF view = NoView THEN 0 ELSE 1
           owed == IF receiverPc = "increase" THEN 1 ELSE 0
<1>1. peekTasks \in Seq(Views) /\ startup \in Nat
  BY DEF ShellInv, IInv, TypeOK
<1>2. Cardinality(S) <= 1 /\ Cardinality(S) \in Nat /\ (S = {} => Cardinality(S) = 0)
  <2>1. CASE S = {}
    BY <2>1, FS_EmptySet
  <2>2. CASE S # {}
    <3>1. PICK i : S = {i}
      BY <2>2 DEF OnePlace
    <3>2. Cardinality({i}) = 1
      BY FS_Singleton
    <3> HIDE DEF S
    <3> QED
      BY <2>2, <3>1, <3>2
  <2> QED
    BY <2>1, <2>2
<1>3. AskOrIncrease = seen + held + owed + startup + Cardinality(S)
  BY DEF AskOrIncrease, Increases
<1>4. seen \in Nat /\ (peekTasks = <<>> => seen = 0)
  BY <1>1, EmptySeq, LenProperties
<1>5. /\ startup # 0 => seen = 0 /\ held = 0 /\ owed = 0 /\ S = {}
      /\ seen # 0 => held = 0 /\ owed = 0 /\ S = {}
      /\ held # 0 => owed = 0 /\ S = {}
      /\ owed # 0 => S = {}
      /\ startup <= 1 /\ seen <= 1
  BY <1>4, EmptySeq DEF OnePlace
<1>6. held \in 0..1 /\ owed \in 0..1
  OBVIOUS
<1> HIDE DEF S, seen, held, owed
<1> QED
  BY <1>1, <1>2, <1>3, <1>4, <1>5, <1>6

\* In NEW_TAB mode at most one consumer is ever in line or on its way.
THEOREM OneConsumer == ShellSpec => []OneConsumerInLine
<1>1. ShellInit => OnePlaceInv
  <2> SUFFICES ASSUME ShellInit, IsNewTab PROVE OnePlace
    BY DEF OnePlaceInv
  <2>1. /\ startup = 1 /\ receiverPc = "idle" /\ peekTasks = <<>> /\ mainTasks = <<>>
        /\ view = NoView
    BY ShellStarts DEF ShellInit, Init, IsFixed, IsNewTab, FIXED_TAB, NEW_TAB
  <2>2. DOMAIN mainTasks = {} /\ Len(peekTasks) = 0
    BY <2>1, EmptySeq
  <2> QED
    BY <2>1, <2>2 DEF OnePlace, Increases
<1>2. ShellInv /\ OnePlaceInv /\ [ShellNext]_shellVars => OnePlaceInv'
  <2> SUFFICES ASSUME ShellInv, OnePlaceInv, [ShellNext]_shellVars, IsNewTab', mainPc' = "run"
               PROVE  OnePlace'
    BY DEF OnePlaceInv
  <2> QED
    BY RunsFromStart, OptionKept, StepOnePlace DEF OnePlaceInv
<1>3. ShellInv /\ OnePlaceInv => OneConsumerInLine
  BY OnePlaceCounts DEF OnePlaceInv, OneConsumerInLine
<1> QED
  BY <1>1, <1>2, <1>3, ShellInvariant, PTL DEF ShellSpec
=============================================================================
