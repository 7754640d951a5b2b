-------------------------- MODULE TaskMonitorProofs --------------------------
(***************************************************************************)
(* LongScriptEnds for every interval, every lateness of the worker up to an *)
(* interval, and every bound on the clock.  The argument is a deadline: a   *)
(* script that runs is met by a test of doTimeout that cannot fail at most  *)
(* 2 * Interval after it began, plus the worker's lateness, because the     *)
(* last test that may have failed was at most one interval after it.        *)
(***************************************************************************)
EXTENDS TaskMonitor, TLAPS

\* While the shell lives either the timer is about to be started or it runs, and
\* the worker is not late.
Watching ==
  main # "stopped" =>
    /\ monitor = "live"
    /\ \/ workerTasks = <<"init">> /\ dueAt = Never /\ worker = "idle" /\ now <= Lateness
       \/ workerTasks = <<>> /\ dueAt # Never /\ now <= dueAt + Lateness
    /\ worker = "terminate" => now <= dueAt - Interval + Lateness

\* WillProcessTask sets both times, so a task that runs always seems to run.
SeemsToRun ==
  /\ main \in {"task", "script"} => taskBegin = taskEnd
  /\ main = "script" => taskBegin <= scriptSince

\* When the test that ends the script that runs is made, or was made.
Deadline ==
  main = "script" =>
    /\ ~terminating /\ worker = "idle" /\ dueAt # Never =>
         dueAt <= scriptSince + 2 * Interval
    /\ ~terminating /\ worker = "terminate" =>
         dueAt <= scriptSince + 3 * Interval + Lateness
    /\ terminating => now <= scriptSince + 2 * (Interval + Lateness)

MonitorInv == MonitorTypeOK /\ Watching /\ SeemsToRun /\ Deadline

-----------------------------------------------------------------------------
\* The types are inductive with the help of no other invariant.
LEMMA TypeStep == MonitorTypeOK /\ [Next]_vars => MonitorTypeOK'
<1> SUFFICES ASSUME MonitorTypeOK, [Next]_vars PROVE MonitorTypeOK'
  OBVIOUS
<1> USE MonitorAssumption DEF MonitorTypeOK, Never
<1>1. CASE AddUITaskObserver
  BY <1>1 DEF AddUITaskObserver, UnchangedByMain
<1>2. CASE WillProcessTask
  BY <1>2 DEF WillProcessTask, UnchangedByMain
<1>3. CASE DidProcessTask
  BY <1>3 DEF DidProcessTask, UnchangedByMain
<1>4. CASE RunScript
  BY <1>4 DEF RunScript, UnchangedByMain
<1>5. CASE FinishScript
  BY <1>5 DEF FinishScript, UnchangedByMain
<1>6. CASE TerminateScript
  BY <1>6 DEF TerminateScript, UnchangedByMain
<1>7. CASE Release
  <2>1. workerTasks' \in Seq({"init", "destroy"})
    <3>1. <<"destroy">> \in Seq({"init", "destroy"})
      OBVIOUS
    <3> QED
      BY <1>7, <3>1 DEF Release
  <2> QED
    BY <1>7, <2>1 DEF Release
<1>8. CASE InitilizeOnWorkerThread
  <2>1. workerTasks' \in Seq({"init", "destroy"})
    <3>1. Tail(workerTasks) \in Seq({"init", "destroy"})
      BY <1>8 DEF InitilizeOnWorkerThread
    <3>2. Append(Tail(workerTasks), "destroy") \in Seq({"init", "destroy"})
      BY <3>1
    <3> QED
      BY <1>8, <3>1, <3>2 DEF InitilizeOnWorkerThread
  <2> QED
    BY <1>8, <2>1 DEF InitilizeOnWorkerThread, WorkerReady, UnchangedByWorker, mainVars
<1>9. CASE DestroyTimer
  BY <1>9 DEF DestroyTimer, WorkerReady, UnchangedByWorker, mainVars
<1>10. CASE DoTimeout
  BY <1>10 DEF DoTimeout, WorkerReady, UnchangedByWorker, mainVars
<1>11. CASE TerminateExecution
  BY <1>11 DEF TerminateExecution, UnchangedByWorker, mainVars
<1>12. CASE Tick
  BY <1>12 DEF Tick, mainVars
<1>13. CASE UNCHANGED vars
  BY <1>13 DEF vars, mainVars
<1> QED
  BY <1>1, <1>2, <1>3, <1>4, <1>5, <1>6, <1>7, <1>8, <1>9, <1>10, <1>11, <1>12, <1>13
  DEF Next, MainLoop, Worker

\* The other parts, with the types at hand.
LEMMA WatchStep == MonitorInv /\ [Next]_vars => Watching' /\ SeemsToRun' /\ Deadline'
<1> SUFFICES ASSUME MonitorInv, [Next]_vars PROVE Watching' /\ SeemsToRun' /\ Deadline'
  OBVIOUS
<1> USE MonitorAssumption DEF MonitorInv, MonitorTypeOK, Never, Watching, SeemsToRun, Deadline
<1>1. CASE AddUITaskObserver
  BY <1>1 DEF AddUITaskObserver, UnchangedByMain
<1>2. CASE WillProcessTask
  BY <1>2 DEF WillProcessTask, UnchangedByMain
<1>3. CASE DidProcessTask
  BY <1>3 DEF DidProcessTask, UnchangedByMain
<1>4. CASE RunScript
  BY <1>4 DEF RunScript, UnchangedByMain
<1>5. CASE FinishScript
  BY <1>5 DEF FinishScript, UnchangedByMain
<1>6. CASE TerminateScript
  BY <1>6 DEF TerminateScript, UnchangedByMain
<1>7. CASE Release
  BY <1>7 DEF Release
<1>8. CASE InitilizeOnWorkerThread
  BY <1>8 DEF InitilizeOnWorkerThread, WorkerReady, UnchangedByWorker, mainVars
<1>9. CASE DestroyTimer
  BY <1>9 DEF DestroyTimer, WorkerReady, UnchangedByWorker, mainVars
<1>10. CASE DoTimeout
  BY <1>10 DEF DoTimeout, SeemsLong, WorkerReady, UnchangedByWorker, mainVars
<1>11. CASE TerminateExecution
  <2>1. Watching' /\ SeemsToRun'
    BY <1>11 DEF TerminateExecution, UnchangedByWorker, mainVars
  <2>2. main = "script" => now <= scriptSince + 2 * (Interval + Lateness)
    <3>1. ASSUME main = "script", terminating
          PROVE now <= scriptSince + 2 * (Interval + Lateness)
      BY <3>1
    <3>2. ASSUME main = "script", ~terminating
          PROVE now <= scriptSince + 2 * (Interval + Lateness)
      <4>1. now <= dueAt - Interval + Lateness /\ dueAt <= scriptSince + 3 * Interval + Lateness
        BY <1>11, <3>2 DEF TerminateExecution
      <4> QED
        BY <4>1
    <3> QED
      BY <3>1, <3>2
  <2>3. Deadline'
    <3>1. main' = "script" => monitor # "deleted" /\ main = "script"
      BY <1>11 DEF TerminateExecution, UnchangedByWorker, mainVars
    <3>2. monitor # "deleted" => terminating' = TRUE
      BY <1>11 DEF TerminateExecution
    <3>3. now' = now /\ scriptSince' = scriptSince
      BY <1>11 DEF TerminateExecution, UnchangedByWorker, mainVars
    <3> QED
      BY <2>2, <3>1, <3>2, <3>3
  <2> QED
    BY <2>1, <2>3
<1>12. CASE Tick
  <2> USE <1>12 DEF Tick, mainVars
  <2>1. Watching'
    <3> SUFFICES ASSUME main # "stopped" PROVE Watching'
      OBVIOUS
    <3>1. now \in Nat /\ now' = now + 1 /\ dueAt' = dueAt /\ worker' = worker
      OBVIOUS
    <3>2. CASE workerTasks = <<"init">>
      BY <3>1, <3>2
    <3>3. CASE workerTasks = <<>>
      BY <3>1, <3>3
    <3> QED
      BY <3>2, <3>3
  <2>2. SeemsToRun'
    OBVIOUS
  <2>3. Deadline'
    OBVIOUS
  <2> QED
    BY <2>1, <2>2, <2>3
<1>13. CASE UNCHANGED vars
  BY <1>13 DEF vars, mainVars
<1> QED
  BY <1>1, <1>2, <1>3, <1>4, <1>5, <1>6, <1>7, <1>8, <1>9, <1>10, <1>11, <1>12, <1>13
  DEF Next, MainLoop, Worker

\* The inductive invariant holds of every behaviour; fairness is not needed.
LEMMA MonitorInvHolds == Spec => []MonitorInv
<1>1. Init => MonitorInv
  <2> SUFFICES ASSUME Init PROVE MonitorInv
    OBVIOUS
  <2> USE MonitorAssumption DEF Init, Never
  <2>1. <<"init">> \in Seq({"init", "destroy"})
    OBVIOUS
  <2>2. MonitorTypeOK
    <3>1. now \in 0..MaxTime /\ {taskBegin, taskEnd, scriptSince} \subseteq 0..now
      OBVIOUS
    <3>2. {terminating, crashed} \subseteq BOOLEAN
      OBVIOUS
    <3> QED
      BY <2>1, <3>1, <3>2 DEF MonitorTypeOK
  <2>3. Watching
    BY DEF Watching
  <2>4. SeemsToRun /\ Deadline
    BY DEF SeemsToRun, Deadline
  <2> QED
    BY <2>2, <2>3, <2>4 DEF MonitorInv
<1>2. MonitorInv /\ [Next]_vars => MonitorInv'
  BY TypeStep, WatchStep DEF MonitorInv
<1> QED
  BY <1>1, <1>2, PTL DEF Spec

\* The times, the timer and the worker of BrowserTaskMonitor keep their types;
\* the timer is never more than one period away.
THEOREM MonitorTypes == Spec => []MonitorTypeOK
<1>1. MonitorInv => MonitorTypeOK
  BY DEF MonitorInv
<1> QED
  BY <1>1, MonitorInvHolds, PTL

\* doTimeout ends a script within two periods of the timer, each as late as the
\* worker may be, whatever the long task time is.
THEOREM ScriptsAreBounded == Spec => []LongScriptEnds
<1>1. MonitorInv => LongScriptEnds
  BY MonitorAssumption
  DEF MonitorInv, MonitorTypeOK, Never, Watching, Deadline, LongScriptEnds
<1> QED
  BY <1>1, MonitorInvHolds, PTL
=============================================================================
