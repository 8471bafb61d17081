----------------------------- MODULE CheckQueue -----------------------------
(***************************************************************************)
(* CCheckQueue and CCheckQueueControl (checkqueue.h): the pool of script   *)
(* verification threads.  One master (the thread running ConnectBlock)     *)
(* opens a session with a CCheckQueueControl, adds batches of checks, then *)
(* joins the pool as one more worker until all of them are done and        *)
(* returns the verdict of the block.  The queue outlives the session and   *)
(* is used again for the next block.                                       *)
(*                                                                         *)
(* The mutex is held from the top of the do loop to the start of the       *)
(* "execute work" part, except inside cond.wait; each stretch between two  *)
(* releases of the mutex is one action.  The queue is a set: the source    *)
(* says that the order of its elements does not matter.                    *)
(***************************************************************************)
EXTENDS Integers, FiniteSets, FiniteSetsExt

CONSTANTS Workers,    \* the script check threads started by AppInit2
          Master,     \* the thread that runs ConnectBlock
          Checks,     \* the verifications a block can ask for
          Bad,        \* those of them whose operator() returns false
          BatchSize   \* nBatchSize, the constructor's argument

ASSUME CheckQueueAssumption ==
    /\ IsFiniteSet(Workers) /\ IsFiniteSet(Checks)
    /\ Master \notin Workers
    /\ Bad \subseteq Checks
    /\ BatchSize \in Nat \ {0}

VARIABLES queue,       \* queue: the checks nobody has taken yet
          nIdle,       \* nIdle
          nTotal,      \* nTotal
          fAllOk,      \* fAllOk
          nTodo,       \* nTodo
          pc,          \* where each thread is, see Places
          batch,       \* vChecks of each thread; its size is nNow
          fOk,         \* the local fOk of each thread
          interrupted, \* threads with a boost interruption request pending
          added,       \* history: the checks added in the current session
          verdict      \* what the last Wait() returned

vars == <<queue, nIdle, nTotal, fAllOk, nTodo, pc, batch, fOk, interrupted,
          added, verdict>>

Threads == Workers \cup {Master}

(* out: no session open (master)      adding: session open, between Adds   *)
(* enter: about to call Loop          work: holds a batch, no mutex        *)
(* done: batch executed, not merged   wait, woken: in cond.wait            *)
(* dead: the thread function ended                                         *)
Places == {"out", "adding", "enter", "work", "done", "wait", "woken", "dead"}

Init ==
    /\ queue = {}
    /\ nIdle = 0
    /\ nTotal = 0
    /\ fAllOk = TRUE
    /\ nTodo = 0
    /\ pc = [t \in Threads |-> IF t = Master THEN "out" ELSE "enter"]
    /\ batch = [t \in Threads |-> {}]
    /\ fOk = [t \in Threads |-> TRUE]
    /\ interrupted = {}
    /\ added = {}
    /\ verdict = TRUE

IsIdle == nTotal = nIdle /\ nTodo = 0 /\ fAllOk

(* nNow: at least one element, at most BatchSize, otherwise a share that   *)
(* counts the idle threads twice.                                          *)
NextBatchSize(total, idle) ==
    LET share == Cardinality(queue) \div (total + idle + 1)
        capped == IF share < BatchSize THEN share ELSE BatchSize
    IN  IF capped < 1 THEN 1 ELSE capped

-----------------------------------------------------------------------------
(* The part of Loop from "while (queue.empty())" to the release of the     *)
(* mutex, entered by thread t with the values the prologue leaves in the   *)
(* shared fields (pcs is pc after the notification the prologue sends).    *)

\* Mutant: the failure of this session is left for the next one.
ReturnWithoutReset(t, total, idle, todo, ok, pcs) ==
    /\ queue = {} /\ t = Master /\ todo = 0
    /\ nTotal' = total - 1
    /\ nIdle' = idle
    /\ nTodo' = todo
    /\ fAllOk' = ok
    /\ verdict' = ok
    /\ pc' = [pcs EXCEPT ![t] = "out"]
    /\ batch' = [batch EXCEPT ![t] = {}]
    /\ UNCHANGED <<queue, fOk, interrupted, added>>

\* The return of the master: the pool has finished the session.
Return(t, total, idle, todo, ok, pcs) ==
    /\ queue = {} /\ t = Master /\ todo = 0
    /\ nTotal' = total - 1
    /\ nIdle' = idle
    /\ nTodo' = todo
    /\ fAllOk' = TRUE
    /\ verdict' = ok
    /\ pc' = [pcs EXCEPT ![t] = "out"]
    /\ batch' = [batch EXCEPT ![t] = {}]
    /\ UNCHANGED <<queue, fOk, interrupted, added>>

\* cond.wait: nIdle is raised and the mutex released.
Block(t, total, idle, todo, ok, pcs) ==
    /\ queue = {} /\ ~(t = Master /\ todo = 0)
    /\ t \notin interrupted
    /\ nTotal' = total
    /\ nIdle' = idle + 1
    /\ nTodo' = todo
    /\ fAllOk' = ok
    /\ pc' = [pcs EXCEPT ![t] = "wait"]
    /\ batch' = [batch EXCEPT ![t] = {}]
    /\ UNCHANGED <<queue, fOk, interrupted, added, verdict>>

\* Where an exception out of cond.wait leaves a thread.  A worker's thread
\* function ends.  The master unwinds ConnectBlock, and ~CCheckQueueControl
\* calls Wait() again because fDone is still false.
Unwound(t) == IF t = Master THEN "enter" ELSE "dead"

\* cond.wait is a boost interruption point: with a request pending it throws,
\* after nIdle++ and without nIdle-- or nTotal--.
Throw(t, total, idle, todo, ok, pcs) ==
    /\ queue = {} /\ ~(t = Master /\ todo = 0)
    /\ t \in interrupted
    /\ nTotal' = total
    /\ nIdle' = idle + 1
    /\ nTodo' = todo
    /\ fAllOk' = ok
    /\ interrupted' = interrupted \ {t}
    /\ pc' = [pcs EXCEPT ![t] = Unwound(t)]
    /\ batch' = [batch EXCEPT ![t] = {}]
    /\ UNCHANGED <<queue, fOk, added, verdict>>

\* Move nNow checks from the queue to the thread's own batch.
Take(t, total, idle, todo, ok, pcs) ==
    /\ queue # {}
    /\ \E b \in kSubset(NextBatchSize(total, idle), queue) :
          /\ queue' = queue \ b
          /\ batch' = [batch EXCEPT ![t] = b]
    /\ fOk' = [fOk EXCEPT ![t] = ok]
    /\ nTotal' = total
    /\ nIdle' = idle
    /\ nTodo' = todo
    /\ fAllOk' = ok
    /\ pc' = [pcs EXCEPT ![t] = "work"]
    /\ UNCHANGED <<interrupted, added, verdict>>

LoopTop(t, total, idle, todo, ok, pcs) ==
    \/ Return(t, total, idle, todo, ok, pcs)
    \/ Block(t, total, idle, todo, ok, pcs)
    \/ Throw(t, total, idle, todo, ok, pcs)
    \/ Take(t, total, idle, todo, ok, pcs)

\* First iteration of Loop: nNow = 0, so the thread counts itself in.
EnterLoop(t) ==
    /\ pc[t] = "enter"
    /\ LoopTop(t, nTotal + 1, nIdle, nTodo, fAllOk, pc)

\* Mutant: the worker that finishes the last batch tells nobody.
NotifyNobody(t, todo) == pc

\* condMaster.notify_one after the last element.
NotifyMaster(t, todo) ==
    IF todo = 0 /\ t # Master /\ pc[Master] = "wait"
    THEN [pc EXCEPT ![Master] = "woken"]
    ELSE pc

\* Mutants: the batch's outcome replaces the session's instead of being joined
\* to it; a batch is counted as a full one.
MergeOverwriting(t) ==
    /\ pc[t] = "done"
    /\ LET todo == nTodo - Cardinality(batch[t])
       IN  LoopTop(t, nTotal, nIdle, todo, fOk[t], NotifyMaster(t, todo))
MergeFullBatch(t) ==
    /\ pc[t] = "done"
    /\ LET todo == nTodo - BatchSize
       IN  LoopTop(t, nTotal, nIdle, todo, fAllOk /\ fOk[t], NotifyMaster(t, todo))

\* The clean-up of the previous iteration and the top of the next one, in one
\* critical section.
MergeBatch(t) ==
    /\ pc[t] = "done"
    /\ LET todo == nTodo - Cardinality(batch[t])
       IN  LoopTop(t, nTotal, nIdle, todo, fAllOk /\ fOk[t], NotifyMaster(t, todo))

\* cond.wait returns with the mutex held.
WakeUp(t) ==
    /\ pc[t] = "woken" /\ t \notin interrupted
    /\ LoopTop(t, nTotal, nIdle - 1, nTodo, fAllOk, pc)

\* cond.wait throws: the thread was interrupted while it waited.
WakeUpThrow(t) ==
    /\ pc[t] = "woken" /\ t \in interrupted
    /\ interrupted' = interrupted \ {t}
    /\ pc' = [pc EXCEPT ![t] = Unwound(t)]
    /\ UNCHANGED <<queue, nIdle, nTotal, fAllOk, nTodo, batch, fOk, added, verdict>>

\* The execution of a batch outside the mutex; checks after a failed one are
\* skipped.
Execute(t) ==
    /\ pc[t] = "work"
    /\ fOk' = [fOk EXCEPT ![t] = @ /\ batch[t] \cap Bad = {}]
    /\ pc' = [pc EXCEPT ![t] = "done"]
    /\ UNCHANGED <<queue, nIdle, nTotal, fAllOk, nTodo, batch, interrupted, added, verdict>>

\* A condition variable may wake a waiter for no reason.
SpuriousWake(t) ==
    /\ pc[t] = "wait"
    /\ pc' = [pc EXCEPT ![t] = "woken"]
    /\ UNCHANGED <<queue, nIdle, nTotal, fAllOk, nTodo, batch, fOk, interrupted, added, verdict>>

-----------------------------------------------------------------------------
\* The constructor of CCheckQueueControl asserts that the queue is unused.
OpenSession ==
    /\ pc[Master] = "out"
    /\ IsIdle
    /\ pc' = [pc EXCEPT ![Master] = "adding"]
    /\ added' = {}
    /\ UNCHANGED <<queue, nIdle, nTotal, fAllOk, nTodo, batch, fOk, interrupted, verdict>>

\* The waiters condWorker.notify_one or notify_all moves to the run queue.
Notified(n) ==
    LET waiting == {w \in Workers : pc[w] = "wait"}
    IN  IF n = 0 \/ waiting = {} THEN {{}}
        ELSE IF n = 1 THEN {{w} : w \in waiting} ELSE {waiting}

\* Mutant: a batch is counted as one check.
AddCountingBatches(vChecks) ==
    /\ pc[Master] = "adding"
    /\ queue' = queue \cup vChecks
    /\ nTodo' = nTodo + 1
    /\ added' = added \cup vChecks
    /\ \E W \in Notified(Cardinality(vChecks)) :
          pc' = [t \in Threads |-> IF t \in W THEN "woken" ELSE pc[t]]
    /\ UNCHANGED <<nIdle, nTotal, fAllOk, batch, fOk, interrupted, verdict>>

Add(vChecks) ==
    /\ pc[Master] = "adding"
    /\ queue' = queue \cup vChecks
    /\ nTodo' = nTodo + Cardinality(vChecks)
    /\ added' = added \cup vChecks
    /\ \E W \in Notified(Cardinality(vChecks)) :
          pc' = [t \in Threads |-> IF t \in W THEN "woken" ELSE pc[t]]
    /\ UNCHANGED <<nIdle, nTotal, fAllOk, batch, fOk, interrupted, verdict>>

\* Wait(), called by ConnectBlock or by the destructor on an early return.
CallWait ==
    /\ pc[Master] = "adding"
    /\ pc' = [pc EXCEPT ![Master] = "enter"]
    /\ UNCHANGED <<queue, nIdle, nTotal, fAllOk, nTodo, batch, fOk, interrupted, added, verdict>>

\* threadGroup.interrupt_all() at shutdown: requests reach every thread of the
\* group, and the ones inside cond.wait are woken to take them.
InterruptAll ==
    /\ interrupted = {}
    /\ \A t \in Workers : pc[t] # "dead"
    /\ interrupted' = Threads
    /\ pc' = [t \in Threads |-> IF pc[t] = "wait" THEN "woken" ELSE pc[t]]
    /\ UNCHANGED <<queue, nIdle, nTotal, fAllOk, nTodo, batch, fOk, added, verdict>>

Next ==
    \/ \E t \in Threads : \/ EnterLoop(t) \/ MergeBatch(t)
                          \/ WakeUp(t) \/ WakeUpThrow(t)
                          \/ Execute(t) \/ SpuriousWake(t)
    \/ OpenSession
    \/ \E vChecks \in SUBSET (Checks \ added) : Add(vChecks)
    \/ CallWait
    \/ InterruptAll

(* Every thread that can run does: the scheduler of the operating system.  *)
(* Nothing is assumed of the caller of OpenSession, Add and InterruptAll,  *)
(* nor of spurious wakeups.                                                *)
Fairness ==
    \A t \in Threads :
        WF_vars(EnterLoop(t) \/ MergeBatch(t) \/ WakeUp(t) \/ WakeUpThrow(t) \/ Execute(t))

Spec == Init /\ [][Next]_vars /\ Fairness

-----------------------------------------------------------------------------
(* Types; nTodo is unsigned in the code and must not wrap below zero.      *)
TypeOK ==
    /\ queue \subseteq Checks
    /\ nIdle \in Int /\ nTotal \in Int /\ nTodo \in Nat
    /\ fAllOk \in BOOLEAN
    /\ pc \in [Threads -> Places]
    /\ batch \in [Threads -> SUBSET Checks]
    /\ fOk \in [Threads -> BOOLEAN]
    /\ interrupted \subseteq Threads
    /\ added \subseteq Checks
    /\ verdict \in BOOLEAN

(* The verdict Wait() returned (line 96-101) is exact: true when no check  *)
(* added in the session fails and false when one does, whatever thread ran *)
(* it, whether or not the session was unwound by an interruption, and      *)
(* whatever the sessions before left behind.                               *)
VerdictExact ==
    pc[Master] = "out" => (verdict <=> added \cap Bad = {})

(* The assertion of CCheckQueueControl's constructor (line 190) holds when *)
(* the next block comes: all threads counted in are counted idle, also the *)
(* ones that died in cond.wait.                                            *)
IdleBetweenSessions ==
    pc[Master] = "out" => IsIdle

(* nTodo counts the checks that are queued or in some thread's batch (the  *)
(* comment on lines 57-61), and no check is in two places.  This is what   *)
(* lets the master return: nTodo = 0 really means nobody is still running. *)
Outstanding == queue \cup UNION {batch[t] : t \in Threads}

TodoCounts ==
    /\ nTodo = Cardinality(Outstanding)
    /\ \A t \in Threads : batch[t] \cap queue = {}
    /\ \A t, u \in Threads : t # u => batch[t] \cap batch[u] = {}

(* A block's Wait() returns: no wakeup of the master is lost, also when    *)
(* the workers are interrupted or never start.                             *)
WaitReturns ==
    pc[Master] = "enter" ~> pc[Master] = "out"

=============================================================================
