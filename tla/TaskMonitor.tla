----------------------------- MODULE TaskMonitor -----------------------------
(***************************************************************************)
(* BrowserTaskMonitor: an observer of the main loop notes when a task       *)
(* begins and ends; a repeating timer on the worker terminates V8's         *)
(* execution when the task that is running seems to take longer than        *)
(* Interval (m_longTaskTime).  The test is made under m_updateTaskTime, the *)
(* call after the lock is released.                                         *)
(*                                                                          *)
(* Time is what base::TimeTicks::Now() returns: it stands still while many  *)
(* tasks run.  V8 is external: a termination that was requested stays       *)
(* requested until a script runs, and ends that script within a tick.       *)
(***************************************************************************)
EXTENDS Integers, Sequences

CONSTANTS Interval,   \* m_interval, in ticks
          Lateness,   \* the worker runs what is due at most so many ticks late
          MaxTime     \* bound on the clock

ASSUME MonitorAssumption ==
  /\ Interval \in Nat \ {0} /\ MaxTime \in Nat
  /\ Lateness \in 0..Interval \* the worker is never a whole period behind

VARIABLES
  now,          \* TimeTicks::Now()
  taskBegin,    \* m_taskBegin
  taskEnd,      \* m_taskEnd
  main,         \* "start", "idle", "task", "script" (a task runs one), "stopped"
  scriptSince,  \* history: when the script began
  dueAt,        \* when m_timer fires, or Never
  worker,       \* "idle", or "terminate": the test of doTimeout was positive
  workerTasks,  \* "init" and "destroy" on their way to the worker
  terminating,  \* V8 has a termination request (external)
  monitor,      \* "live", "released" (a task still holds it) or "deleted"
  crashed       \* the timer called a deleted monitor

mainVars == <<taskBegin, taskEnd, main, scriptSince>>
vars == <<now, mainVars, dueAt, worker, workerTasks, terminating, monitor, crashed>>

Never == -1

MonitorTypeOK ==
  /\ now \in 0..MaxTime
  /\ {taskBegin, taskEnd, scriptSince} \subseteq 0..now
  /\ main \in {"start", "idle", "task", "script", "stopped"}
  /\ dueAt \in {Never} \cup 0..(now + Interval)
  /\ worker \in {"idle", "terminate"}
  /\ workerTasks \in Seq({"init", "destroy"})
  /\ {terminating, crashed} \subseteq BOOLEAN
  /\ monitor \in {"live", "released", "deleted"}

\* The constructor, and start() in BrowserShell::create.
Init ==
  /\ now = 0 /\ taskBegin = 0 /\ taskEnd = 0 /\ scriptSince = 0
  /\ main = "start" /\ dueAt = Never /\ worker = "idle"
  /\ workerTasks = <<"init">>
  /\ terminating = FALSE /\ monitor = "live" /\ crashed = FALSE

-----------------------------------------------------------------------------
(* Main thread. *)

UnchangedByMain == UNCHANGED <<now, dueAt, worker, workerTasks, monitor, crashed>>

\* The task that adds the observer is itself observed when it ends.
AddUITaskObserver ==
  /\ ~crashed /\ main = "start"
  /\ main' = "idle" /\ taskEnd' = now
  /\ UnchangedByMain /\ UNCHANGED <<taskBegin, scriptSince, terminating>>

WillProcessTask ==
  /\ ~crashed /\ main = "idle"
  /\ main' = "task" /\ taskBegin' = now /\ taskEnd' = now
  /\ UnchangedByMain /\ UNCHANGED <<scriptSince, terminating>>

DidProcessTask ==
  /\ ~crashed /\ main = "task"
  /\ main' = "idle" /\ taskEnd' = now
  /\ UnchangedByMain /\ UNCHANGED <<taskBegin, scriptSince, terminating>>

RunScript ==
  /\ ~crashed /\ main = "task"
  /\ main' = "script" /\ scriptSince' = now
  /\ UnchangedByMain /\ UNCHANGED <<taskBegin, taskEnd, terminating>>

FinishScript ==
  /\ ~crashed /\ main = "script" /\ ~terminating
  /\ main' = "task"
  /\ UnchangedByMain /\ UNCHANGED <<taskBegin, taskEnd, scriptSince, terminating>>

\* V8 ends the script that runs and forgets the request.
TerminateScript ==
  /\ ~crashed /\ main = "script" /\ terminating
  /\ main' = "task" /\ terminating' = FALSE
  /\ UnchangedByMain /\ UNCHANGED <<taskBegin, taskEnd, scriptSince>>

\* ~BrowserShell removes the observer and drops its reference; the destructor
\* posts destroyTimer.  The task of start() holds a reference of its own.
ReleaseKeepsTimer == \* mutant: the destructor does not post destroyTimer
  /\ ~crashed /\ main = "task" /\ monitor = "live"
  /\ main' = "stopped"
  /\ monitor' = IF workerTasks = <<>> THEN "deleted" ELSE "released"
  /\ UNCHANGED <<now, taskBegin, taskEnd, scriptSince, dueAt, worker, workerTasks,
                 terminating, crashed>>

Release ==
  /\ ~crashed /\ main = "task" /\ monitor = "live"
  /\ main' = "stopped"
  /\ IF workerTasks = <<>>
     THEN monitor' = "deleted" /\ workerTasks' = <<"destroy">>
     ELSE monitor' = "released" /\ UNCHANGED workerTasks
  /\ UNCHANGED <<now, taskBegin, taskEnd, scriptSince, dueAt, worker, terminating, crashed>>

-----------------------------------------------------------------------------
(* Worker thread. *)

UnchangedByWorker == UNCHANGED <<now, mainVars>>
WorkerReady == ~crashed /\ worker = "idle"

InitilizeTwicePeriod == \* mutant: the first period is counted twice
  /\ WorkerReady /\ workerTasks # <<>> /\ Head(workerTasks) = "init"
  /\ dueAt' = now + 2 * Interval
  /\ workerTasks' = Tail(workerTasks)
  /\ UnchangedByWorker /\ UNCHANGED <<worker, terminating, monitor, crashed>>

InitilizeOnWorkerThread ==
  /\ WorkerReady /\ workerTasks # <<>> /\ Head(workerTasks) = "init"
  /\ dueAt' = now + Interval
  /\ IF monitor = "released"
     THEN monitor' = "deleted" /\ workerTasks' = Append(Tail(workerTasks), "destroy")
     ELSE workerTasks' = Tail(workerTasks) /\ UNCHANGED monitor
  /\ UnchangedByWorker /\ UNCHANGED <<worker, terminating, crashed>>

DestroyTimer ==
  /\ WorkerReady /\ workerTasks # <<>> /\ Head(workerTasks) = "destroy"
  /\ dueAt' = Never /\ workerTasks' = Tail(workerTasks)
  /\ UnchangedByWorker /\ UNCHANGED <<worker, terminating, monitor, crashed>>

SeemsLongStrict == taskEnd < taskBegin /\ now > Interval + taskBegin \* mutant: < for <=
SeemsLong == taskEnd <= taskBegin /\ now > Interval + taskBegin

\* The timer starts its next period and calls doTimeout, which tests under the
\* lock.  The timer does not keep its monitor alive: a call of a deleted one
\* may return at once, test what is left of it, or end the process.
DoTimeout ==
  /\ WorkerReady /\ dueAt # Never /\ now >= dueAt
  /\ dueAt' = now + Interval
  /\ IF monitor = "deleted"
     THEN worker' \in {"idle", "terminate"} /\ crashed' \in BOOLEAN
     ELSE worker' = (IF SeemsLong THEN "terminate" ELSE "idle") /\ UNCHANGED crashed
  /\ UnchangedByWorker /\ UNCHANGED <<workerTasks, terminating, monitor>>

\* The rest of doTimeout; a second request while V8 terminates changes nothing.
TerminateExecution ==
  /\ ~crashed /\ worker = "terminate"
  /\ worker' = "idle"
  /\ IF monitor = "deleted"
     THEN terminating' \in {terminating, TRUE} /\ crashed' \in BOOLEAN
     ELSE terminating' = TRUE /\ UNCHANGED crashed
  /\ UnchangedByWorker /\ UNCHANGED <<dueAt, workerTasks, monitor>>

-----------------------------------------------------------------------------
\* Time passes unless something that is due would be more than Lateness late.
Tick ==
  /\ ~crashed /\ now < MaxTime
  /\ dueAt # Never => now < dueAt + Lateness
  /\ worker = "terminate" => now < dueAt - Interval + Lateness
  /\ workerTasks # <<>> /\ Head(workerTasks) = "init" => now < Lateness
  /\ ~(main = "script" /\ terminating)
  /\ now' = now + 1
  /\ UNCHANGED <<mainVars, dueAt, worker, workerTasks, terminating, monitor, crashed>>

MainLoop == \/ AddUITaskObserver \/ WillProcessTask \/ DidProcessTask \/ RunScript
            \/ FinishScript \/ TerminateScript \/ Release
Worker == InitilizeOnWorkerThread \/ DestroyTimer \/ DoTimeout \/ TerminateExecution

Next == MainLoop \/ Worker \/ Tick

\* The worker runs.  Main may run a task, or be idle, for ever.
Spec == Init /\ [][Next]_vars /\ WF_vars(Worker)

-----------------------------------------------------------------------------
(* Properties. *)

\* A script cannot occupy the main thread for ever: whatever the phase of the
\* timer when it began, it is ended within two periods of the timer, each as late
\* as the worker may be.
LongScriptEnds == main = "script" /\ monitor = "live" =>
  now - scriptSince <= 2 * (Interval + Lateness)

\* The timer is destroyed after its monitor, also when the shell is released
\* before the worker had started it.
TimerDestroyed ==
  main = "stopped" ~> (crashed \/ (dueAt = Never /\ workerTasks = <<>>))

\* LightBrowser.cpp:152 and BrowserTaskMonitor.h:43: the long task time is the
\* limit of a task (by default 5000 ms).  A script whose task is below the limit
\* is not terminated.
OnlyLongTasksTerminated == [][TerminateScript => now - taskBegin > Interval]_vars
=============================================================================
