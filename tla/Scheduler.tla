----------------------------- MODULE Scheduler -----------------------------
(***************************************************************************)
(* CScheduler (scheduler.h, scheduler.cpp): threads that run serviceQueue  *)
(* take tasks off a queue that is ordered by time.                         *)
(*                                                                         *)
(* newTaskMutex is held except while a thread waits on newTaskScheduled,   *)
(* sleeps in RandAddSeedSleep or runs a task: an action is a stretch       *)
(* between two releases.  A thread that was notified has still to get the  *)
(* mutex, and may find that others were faster; so the notification of     *)
(* schedule and stop, which comes just after the release, is part of their *)
(* action.  Time is a counter up to MaxTime; a task that is due later      *)
(* never is.                                                               *)
(*                                                                         *)
(* The node runs one such thread and ends it with an interruption of its   *)
(* thread group; its tests run several and use stop and stop(drain).  A    *)
(* behaviour ends the scheduler in one of these ways, at any time or never. *)
(***************************************************************************)
EXTENDS Integers, FiniteSets

CONSTANTS Services,   \* threads that run serviceQueue
          Tasks,
          Every,      \* the tasks of scheduleEvery
          Delta,      \* their deltaSeconds
          MaxTime     \* bound on the clock

ASSUME SchedulerAssumption ==
    /\ IsFiniteSet(Services) /\ Every \subseteq Tasks
    /\ Delta \in Nat \ {0} /\ MaxTime \in Nat

VARIABLES taskQueue,               \* pairs of a time and a task
          now,
          spc,                     \* where each thread is
          until,                   \* the time a thread in wait_until waits for, else 0
          current,                 \* the task that a thread runs
          stopRequested, stopWhenEmpty,
          nThreadsServicingQueue,
          interrupted,             \* threads with a pending interruption
          called                   \* history: tasks that ran

vars == <<taskQueue, now, spc, until, current, stopRequested, stopWhenEmpty,
                   nThreadsServicingQueue, interrupted, called>>
flags == <<stopRequested, stopWhenEmpty>>

NoTask == "no task"

Init ==
    /\ taskQueue = {}
    /\ now = 0
    /\ spc = [t \in Services |-> "starting"]
    /\ until = [t \in Services |-> 0]
    /\ current = [t \in Services |-> NoTask]
    /\ stopRequested = FALSE /\ stopWhenEmpty = FALSE
    /\ nThreadsServicingQueue = 0
    /\ interrupted = {}
    /\ called = {}

ShouldStop == stopRequested \/ (stopWhenEmpty /\ taskQueue = {})

\* taskQueue.begin(); tasks of one time are in the order of their insertion,
\* which is left open.
IsFirst(q) == q \in taskQueue /\ \A r \in taskQueue : q[1] <= r[1]
FirstTime == CHOOSE d \in {q[1] : q \in taskQueue} : \A q \in taskQueue : d <= q[1]

\* notify_one and notify_all: a thread in either wait goes on to get the mutex.
Waiting(pcs) == {t \in Services : pcs[t] \in {"wait", "wait_until"}}
Woken(pcs, t) == [pcs EXCEPT ![t] = IF @ = "wait" THEN "woken" ELSE "woken_until"]
NotifyOne(pcs) ==
    \/ Waiting(pcs) = {} /\ spc' = pcs
    \/ \E t \in Waiting(pcs) : spc' = Woken(pcs, t)
NotifyAll == spc' = [t \in Services |-> IF t \in Waiting(spc) THEN Woken(spc, t)[t] ELSE spc[t]]

-----------------------------------------------------------------------------
(* The loop of serviceQueue, from the points where the mutex is held.      *)

\* The loop ends; n is the count of threads so far.
Exit(t, n) ==
    /\ ShouldStop
    /\ nThreadsServicingQueue' = n - 1
    /\ NotifyOne([spc EXCEPT ![t] = "ended"])
    /\ until' = [until EXCEPT ![t] = 0]

\* The queue is empty: a sleep at the head of the loop ("Use this chance to get
\* a tiny bit more entropy"), then newTaskScheduled.wait.
Pause(t, n, pause) ==
    /\ ~ShouldStop /\ taskQueue = {}
    /\ spc' = [spc EXCEPT ![t] = pause]
    /\ nThreadsServicingQueue' = n
    /\ until' = [until EXCEPT ![t] = 0]

WaitUntil(t, n) ==
    /\ ~ShouldStop /\ taskQueue # {}
    /\ spc' = [spc EXCEPT ![t] = "wait_until"]
    /\ until' = [until EXCEPT ![t] = FirstTime]
    /\ nThreadsServicingQueue' = n

LoopHead(t, n) == Exit(t, n) \/ Pause(t, n, "sleep") \/ WaitUntil(t, n)

\* A thread starts, or comes back from a task, and gets the mutex.
Enter(t) ==
    /\ spc[t] \in {"starting", "returned"}
    /\ LoopHead(t, IF spc[t] = "starting" THEN nThreadsServicingQueue + 1 ELSE nThreadsServicingQueue)
    /\ UNCHANGED <<taskQueue, now, current, flags, interrupted, called>>

\* After the sleep, or after newTaskScheduled.wait: the inner loop tests again.
AfterPause(t) ==
    /\ spc[t] \in {"sleep", "woken"}
    /\ spc[t] = "woken" => t \notin interrupted
    /\ LET n == nThreadsServicingQueue IN Exit(t, n) \/ Pause(t, n, "wait") \/ WaitUntil(t, n)
    /\ UNCHANGED <<taskQueue, now, current, flags, interrupted, called>>

\* wait_until returns because of a notification.
Notified(t) ==
    /\ spc[t] = "woken_until"
    /\ t \notin interrupted
    /\ LoopHead(t, nThreadsServicingQueue)
    /\ UNCHANGED <<taskQueue, now, current, flags, interrupted, called>>

\* wait_until times out: the thread takes what is first by now.
Timeout(t) ==
    /\ spc[t] \in {"wait_until", "woken_until"}
    /\ t \notin interrupted
    /\ until[t] <= now
    /\ \/ /\ ShouldStop \/ taskQueue = {}
          /\ LoopHead(t, nThreadsServicingQueue)
          /\ UNCHANGED <<taskQueue, current>>
       \/ /\ ~ShouldStop
          /\ \E q \in taskQueue :
                /\ IsFirst(q)
                /\ taskQueue' = taskQueue \ {q}
                /\ current' = [current EXCEPT ![t] = q[2]]
          /\ spc' = [spc EXCEPT ![t] = "run"]
          /\ until' = [until EXCEPT ![t] = 0]
          /\ UNCHANGED nThreadsServicingQueue
    /\ UNCHANGED <<now, flags, interrupted, called>>

\* The task returns; a task of scheduleEvery schedules itself again (Repeat).
Run(t) ==
    /\ spc[t] = "run"
    /\ called' = called \cup {current[t]}
    /\ current' = [current EXCEPT ![t] = NoTask]
    /\ IF current[t] \in Every
       THEN /\ taskQueue' = taskQueue \cup
                  {<<IF now + Delta > MaxTime THEN MaxTime + 1 ELSE now + Delta, current[t]>>}
            /\ NotifyOne([spc EXCEPT ![t] = "returned"])
       ELSE /\ spc' = [spc EXCEPT ![t] = "returned"]
            /\ UNCHANGED taskQueue
    /\ UNCHANGED <<now, until, flags, nThreadsServicingQueue, interrupted>>

\* A wait that finds the thread interrupted throws; the handler gives the
\* count back and the thread ends.
Interrupted(t) ==
    /\ t \in interrupted
    /\ spc[t] \in {"wait", "wait_until", "woken", "woken_until"}
    /\ spc' = [spc EXCEPT ![t] = "ended"]
    /\ until' = [until EXCEPT ![t] = 0]
    /\ nThreadsServicingQueue' = nThreadsServicingQueue - 1
    /\ UNCHANGED <<taskQueue, now, current, flags, interrupted, called>>

\* A wakeup without a notification.
Spurious(t) ==
    /\ t \in Waiting(spc)
    /\ spc' = Woken(spc, t)
    /\ UNCHANGED <<taskQueue, now, until, current, flags, nThreadsServicingQueue, interrupted, called>>

-----------------------------------------------------------------------------
(* What other threads call.                                                *)

Scheduled(x) == x \in called \/ (\E q \in taskQueue : q[2] = x) \/ (\E t \in Services : current[t] = x)

Running == ~stopRequested /\ ~stopWhenEmpty /\ interrupted = {}

\* Mutant: nobody is notified of a new task.
ScheduleQuiet(x, due) ==
    /\ Running /\ ~Scheduled(x)
    /\ taskQueue' = taskQueue \cup {<<due, x>>}
    /\ UNCHANGED <<now, spc, until, current, flags, nThreadsServicingQueue, interrupted, called>>

\* schedule; each task once, before the end.
Schedule(x, due) ==
    /\ Running /\ ~Scheduled(x)
    /\ taskQueue' = taskQueue \cup {<<due, x>>}
    /\ NotifyOne(spc)
    /\ UNCHANGED <<now, until, current, flags, nThreadsServicingQueue, interrupted, called>>

\* Mutant: the flag alone is set.
StopQuiet(drain) ==
    /\ Running
    /\ IF drain THEN stopWhenEmpty' = TRUE /\ UNCHANGED stopRequested
       ELSE stopRequested' = TRUE /\ UNCHANGED stopWhenEmpty
    /\ UNCHANGED <<taskQueue, now, spc, until, current, nThreadsServicingQueue, interrupted, called>>

\* stop.
Stop(drain) ==
    /\ Running
    /\ IF drain THEN stopWhenEmpty' = TRUE /\ UNCHANGED stopRequested
       ELSE stopRequested' = TRUE /\ UNCHANGED stopWhenEmpty
    /\ NotifyAll
    /\ UNCHANGED <<taskQueue, now, until, current, nThreadsServicingQueue, interrupted, called>>

\* threadGroup.interrupt_all.
InterruptAll ==
    /\ Running
    /\ interrupted' = Services
    /\ UNCHANGED <<taskQueue, now, spc, until, current, flags, nThreadsServicingQueue, called>>

Tick ==
    /\ now < MaxTime
    /\ now' = now + 1
    /\ UNCHANGED <<taskQueue, spc, until, current, flags, nThreadsServicingQueue, interrupted, called>>

-----------------------------------------------------------------------------
\* A step that thread t takes by itself.
ServiceStep(t) ==
    Enter(t) \/ AfterPause(t) \/ Notified(t) \/ Timeout(t) \/ Run(t) \/ Interrupted(t)

Next ==
    \/ \E t \in Services : ServiceStep(t) \/ Spurious(t)
    \/ \E x \in Tasks, due \in 0..MaxTime : Schedule(x, due)
    \/ Stop(FALSE)
    \/ Stop(TRUE)
    \/ InterruptAll
    \/ Tick

\* Threads run when they can, and a wait ends at its time although
\* notifications may keep coming.  Nothing is assumed of the callers.
Spec ==
    /\ Init
    /\ [][Next]_vars
    /\ \A t \in Services : WF_vars(ServiceStep(t)) /\ WF_vars(Timeout(t))
    /\ WF_vars(Tick)

-----------------------------------------------------------------------------
(* Every thread ends after stop, a drain or an interruption, whatever it   *)
(* was waiting for: also one that began to wait, or was running a task,    *)
(* when stop notified, and with a leaving thread that notifies only one    *)
(* other (scheduler.cpp:92).  A drain ends unless a task that keeps        *)
(* scheduling itself was scheduled before.  The count of threads is back   *)
(* at zero then, as ~CScheduler asserts.                                   *)
ThreadsEnd ==
    (~Running) ~> \/ nThreadsServicingQueue = 0 /\ \A t \in Services : spc[t] = "ended"
                  \/ stopWhenEmpty /\ \E x \in Every : Scheduled(x)

(* A task is called once its time has come, unless the scheduler stops     *)
(* without draining: no notification of a new task is lost among threads   *)
(* that sleep, wait, or wait for a later task (scheduler.cpp:107).         *)
TasksCalled ==
    \A x \in Tasks : Scheduled(x) ~> (x \in called \/ stopRequested \/ interrupted # {})

=============================================================================
