----------------------------- MODULE HttpServer -----------------------------
(***************************************************************************)
(* The HTTP server's work queue and its shutdown (httpserver.cpp): the     *)
(* event thread puts requests into a queue of bounded depth, detached      *)
(* worker threads take them out, and the main thread interrupts them,      *)
(* waits for them and deletes the queue.  Workers and main thread wait on  *)
(* the same condition variable.                                            *)
(*                                                                         *)
(* An action is a stretch between two releases of the mutex cs; the test   *)
(* of running at the head of the loop in Run reads it without the mutex.   *)
(* Nothing waits for a detached worker that has not come to its            *)
(* ThreadCounter yet, nor for a request callback that is running: both may *)
(* come to a queue that is deleted.  What they do then is undefined; the   *)
(* model has the outcomes that matter to the other threads: a worker is    *)
(* never heard of again, and the event thread does not return, loses the   *)
(* request or takes the queue for full.  (A process that dies is a         *)
(* behaviour that stops there.)                                            *)
(* Left out: requests that are answered without the queue (wrong address,  *)
(* method or path) and what libevent does with an answer.                  *)
(***************************************************************************)
EXTENDS Integers, Sequences, FiniteSets, SequencesExt

CONSTANTS Workers, Requests,
          maxDepth   \* -rpcworkqueue

ASSUME MaxDepthAssumption == maxDepth \in Nat \ {0}
ASSUME ThreadsAssumption == IsFiniteSet(Workers)
ASSUME RequestsAssumption == Requests \cap {"idle", "stuck", "ended", "no item"} = {}

VARIABLES queue, running, numThreads,
          wpc,        \* where each worker is
          item,       \* the request a worker has taken
          answers,    \* how often each request was answered; -1: it has not come
          gencb,      \* the callback of the event loop
          epc,        \* the event thread: idle, with a request to enqueue, stuck or ended
          main,       \* where the main thread is
          deleted,    \* the queue was deleted
          late,       \* history: workers that came after WaitExit had returned
          lost        \* history: requests that came after the queue was deleted

vars == <<queue, running, numThreads, wpc, item, answers, gencb, epc, main, deleted, late, lost>>

NoItem == "no item"

Init ==
    /\ queue = <<>> /\ running = TRUE /\ numThreads = 0
    /\ wpc = [w \in Workers |-> "starting"]
    /\ item = [w \in Workers |-> NoItem]
    /\ answers = [r \in Requests |-> -1]
    /\ gencb = "http_request_cb" /\ epc = "idle"
    /\ main = "up" /\ deleted = FALSE
    /\ late = {} /\ lost = {}

\* cond.notify_one and cond.notify_all, which reach workers and WaitExit alike.
Sleepers == {w \in Workers : wpc[w] = "wait"}

NotifyOne ==
    \/ Sleepers = {} /\ main # "waiting" /\ UNCHANGED <<wpc, main>>
    \/ \E w \in Sleepers : wpc' = [wpc EXCEPT ![w] = "woken"] /\ UNCHANGED main
    \/ main = "waiting" /\ main' = "exit" /\ UNCHANGED wpc

NotifyAll(pcs) == [w \in Workers |-> IF pcs[w] = "wait" THEN "woken" ELSE pcs[w]]

-----------------------------------------------------------------------------
(* The workers.                                                            *)

\* The constructor of ThreadCounter.
StartWorker(w) ==
    /\ wpc[w] = "starting"
    /\ wpc' = [wpc EXCEPT ![w] = "head"]
    /\ numThreads' = numThreads + 1
    /\ late' = IF main = "delete" THEN late \cup {w} ELSE late
    /\ UNCHANGED <<queue, running, item, answers, gencb, epc, main, deleted, lost>>

\* while (running), without the mutex.
TestRunning(w) ==
    /\ wpc[w] = "head"
    /\ wpc' = [wpc EXCEPT ![w] = IF running THEN "enter" ELSE "leave"]
    /\ UNCHANGED <<queue, running, numThreads, item, answers, gencb, epc, main, deleted, late, lost>>

\* The locked part of the loop: wait, break, or take the first item.
Take(w) ==
    /\ wpc[w] \in {"enter", "woken"}
    /\ \/ /\ ~running
          /\ wpc' = [wpc EXCEPT ![w] = "leave"]
          /\ UNCHANGED <<queue, item>>
       \/ /\ running /\ queue = <<>>
          /\ wpc' = [wpc EXCEPT ![w] = "wait"]
          /\ UNCHANGED <<queue, item>>
       \/ /\ running /\ queue # <<>>
          /\ item' = [item EXCEPT ![w] = Head(queue)]
          /\ queue' = Tail(queue)
          /\ wpc' = [wpc EXCEPT ![w] = "work"]
    /\ UNCHANGED <<running, numThreads, answers, gencb, epc, main, deleted, late, lost>>

\* The handler runs and the item is deleted: one of the two answered.
Work(w) ==
    /\ wpc[w] = "work"
    /\ answers' = [answers EXCEPT ![item[w]] = @ + 1]
    /\ item' = [item EXCEPT ![w] = NoItem]
    /\ wpc' = [wpc EXCEPT ![w] = "head"]
    /\ UNCHANGED <<queue, running, numThreads, gencb, epc, main, deleted, late, lost>>

\* Mutant: the count goes down and nobody is told.
LeaveQuiet(w) ==
    /\ wpc[w] = "leave"
    /\ numThreads' = numThreads - 1
    /\ wpc' = [wpc EXCEPT ![w] = "ended"]
    /\ UNCHANGED <<queue, running, item, answers, gencb, epc, main, deleted, late, lost>>

\* The destructor of ThreadCounter, which also notifies.
Leave(w) ==
    /\ wpc[w] = "leave"
    /\ numThreads' = numThreads - 1
    /\ wpc' = NotifyAll([wpc EXCEPT ![w] = "ended"])
    /\ main' = IF main = "waiting" THEN "exit" ELSE main
    /\ UNCHANGED <<queue, running, item, answers, gencb, epc, deleted, late, lost>>

SpuriousWakeup(w) ==
    /\ wpc[w] = "wait"
    /\ wpc' = [wpc EXCEPT ![w] = "woken"]
    /\ UNCHANGED <<queue, running, numThreads, item, answers, gencb, epc, main, deleted, late, lost>>

\* A worker comes to the queue, or is still in it, after the deletion.
UseDeleted(w) ==
    /\ wpc[w] \notin {"ended", "undefined"}
    /\ wpc' = [wpc EXCEPT ![w] = "undefined"]
    /\ late' = late \cup {w}
    /\ UNCHANGED <<queue, running, numThreads, item, answers, gencb, epc, main, deleted, lost>>

WorkerStep(w) ==
    \/ ~deleted /\ (StartWorker(w) \/ TestRunning(w) \/ Take(w) \/ Work(w) \/ Leave(w))
    \/ deleted /\ UseDeleted(w)

-----------------------------------------------------------------------------
(* The event thread.                                                       *)

\* A request comes and meets the callback set at that moment.
Request(r) ==
    /\ epc = "idle" /\ answers[r] = -1
    /\ IF gencb = "http_request_cb"
       THEN epc' = r /\ answers' = [answers EXCEPT ![r] = 0]
       ELSE epc' = "idle" /\ answers' = [answers EXCEPT ![r] = 1]
    /\ UNCHANGED <<queue, running, numThreads, wpc, item, gencb, main, deleted, late, lost>>

\* Mutant: nobody is woken.
EnqueueQuiet ==
    /\ ~deleted /\ epc \in Requests
    /\ epc' = "idle"
    /\ IF Len(queue) < maxDepth
       THEN queue' = Append(queue, epc) /\ UNCHANGED <<wpc, main, answers>>
       ELSE answers' = [answers EXCEPT ![epc] = 1] /\ UNCHANGED <<queue, wpc, main>>
    /\ UNCHANGED <<running, numThreads, item, gencb, deleted, late, lost>>

\* Enqueue, which does not look at running; an answer when the queue is full.
Enqueue ==
    /\ ~deleted /\ epc \in Requests
    /\ epc' = "idle"
    /\ IF Len(queue) < maxDepth
       THEN queue' = Append(queue, epc) /\ NotifyOne /\ UNCHANGED answers
       ELSE answers' = [answers EXCEPT ![epc] = 1] /\ UNCHANGED <<queue, wpc, main>>
    /\ UNCHANGED <<running, numThreads, item, gencb, deleted, late, lost>>

\* The callback comes to a queue that was deleted.
EnqueueDeleted ==
    /\ deleted /\ epc \in Requests
    /\ lost' = lost \cup {epc}
    /\ \/ epc' = "idle" /\ answers' \in {answers, [answers EXCEPT ![epc] = 1]}
       \/ epc' = "stuck" /\ UNCHANGED answers
    /\ UNCHANGED <<queue, running, numThreads, wpc, item, gencb, main, deleted, late>>

-----------------------------------------------------------------------------
(* The main thread: Interrupt, then StopHTTPServer in PrepareShutdown.     *)

\* InterruptHTTPServer sets the other callback first.
SetRejectCallback ==
    /\ main = "up"
    /\ main' = "interrupt"
    /\ gencb' = "http_reject_request_cb"
    /\ UNCHANGED <<queue, running, numThreads, wpc, item, answers, epc, deleted, late, lost>>

\* WorkQueue::Interrupt.
Interrupt ==
    /\ main = "interrupt"
    /\ main' = "exit"
    /\ running' = FALSE
    /\ wpc' = NotifyAll(wpc)
    /\ UNCHANGED <<queue, numThreads, item, answers, gencb, epc, deleted, late, lost>>

\* Mutant: the last worker is not waited for.
WaitExitButOne ==
    /\ main = "exit"
    /\ main' = IF numThreads > 1 THEN "waiting" ELSE "delete"
    /\ UNCHANGED <<queue, running, numThreads, wpc, item, answers, gencb, epc, deleted, late, lost>>

\* WorkQueue::WaitExit: the loop's test, and a spurious wakeup of it.
WaitExit ==
    /\ main = "exit"
    /\ main' = IF numThreads > 0 THEN "waiting" ELSE "delete"
    /\ UNCHANGED <<queue, running, numThreads, wpc, item, answers, gencb, epc, deleted, late, lost>>

SpuriousExit ==
    /\ main = "waiting"
    /\ main' = "exit"
    /\ UNCHANGED <<queue, running, numThreads, wpc, item, answers, gencb, epc, deleted, late, lost>>

\* delete workQueue: what is still queued is deleted, and so answered.
DeleteQueue ==
    /\ main = "delete"
    /\ main' = "break"
    /\ deleted' = TRUE
    /\ answers' = [r \in Requests |-> answers[r] + (IF Contains(queue, r) THEN 1 ELSE 0)]
    /\ queue' = <<>>
    /\ UNCHANGED <<running, numThreads, wpc, item, gencb, epc, late, lost>>

\* The event loop ends, by itself or by event_base_loopbreak, and is joined.
EndEventLoop ==
    /\ main = "break" /\ epc = "idle"
    /\ main' = "end" /\ epc' = "ended"
    /\ UNCHANGED <<queue, running, numThreads, wpc, item, answers, gencb, deleted, late, lost>>

StopStep == Interrupt \/ WaitExit \/ DeleteQueue \/ EndEventLoop

Next ==
    \/ \E w \in Workers : WorkerStep(w) \/ SpuriousWakeup(w)
    \/ \E r \in Requests : Request(r)
    \/ Enqueue \/ EnqueueDeleted
    \/ SetRejectCallback \/ StopStep \/ SpuriousExit

\* The threads go on and handlers return; requests and the shutdown need not
\* come, and nothing wakes a thread spuriously.
Fairness ==
    /\ \A w \in Workers : WF_vars(WorkerStep(w))
    /\ WF_vars(Enqueue \/ EnqueueDeleted) /\ WF_vars(StopStep)

Spec == Init /\ [][Next]_vars /\ Fairness

-----------------------------------------------------------------------------
(* Properties.                                                             *)

\* What came to the queue in time leaves it in order.  A worker that counted
\* itself before WaitExit returned has ended when the queue is deleted ("worker
\* threads have all stopped (call WaitExit)"), and its handler with it; no
\* request is answered twice (the assertion on replySent in WriteReply); and
\* every request that was enqueued before is answered, by a worker or by the
\* deletion.  It says nothing of a worker whose thread starts later than that,
\* nor of a request whose callback is still on its way to the queue.
OrderlyStop ==
    /\ deleted => \A w \in Workers \ late : wpc[w] \in {"starting", "ended"}
    /\ \A r \in Requests : answers[r] <= 1
    /\ deleted => \A r \in Requests \ lost : answers[r] = 0 => epc = r

\* InterruptHTTPServer and StopHTTPServer return: every worker learns of the
\* interrupt and the last one to leave is noticed by WaitExit.  The join at the
\* end can only hang on an event thread that a deleted queue has swallowed.
StopReturns == main = "interrupt" ~> main = "end" \/ epc = "stuck"

\* A request that was accepted is answered, also when the node is stopped
\* meanwhile, unless its callback comes to the queue after the deletion: a
\* worker asleep learns of it although Enqueue wakes one sleeper, which may be
\* the main thread in WaitExit.
RequestsAnswered == \A r \in Requests : answers[r] = 0 ~> answers[r] = 1 \/ r \in lost

=============================================================================
