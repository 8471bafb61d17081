-------------------------- MODULE CheckQueueProofs --------------------------
(***************************************************************************)
(* For any number of workers and checks: the verdict of a session is exact *)
(* and the queue is idle between sessions.  Both follow from the inductive *)
(* invariant IInv, which relates the counters nTodo, nTotal and nIdle to   *)
(* the threads' batches and says what fAllOk and the local fOk's promise   *)
(* about the checks that were already executed.                            *)
(***************************************************************************)
EXTENDS CheckQueue, FiniteSetTheorems, TLAPS

Busy == {t \in Threads : pc[t] \in {"work", "done"}}

\* The threads that hold a batch are the busy ones, and every other thread
\* that is counted in nTotal is counted in nIdle.
CountersInv ==
    /\ \A t \in Threads : t \in Busy <=> batch[t] # {}
    /\ nTotal = nIdle + Cardinality(Busy)

\* A failure is recorded in fAllOk, still to be merged from a done thread, or
\* in a check nobody has executed; a recorded failure has a cause.
FailuresInv ==
    /\ Outstanding \subseteq added
    /\ fAllOk /\ pc[Master] # "out" => Bad \cap added \subseteq Outstanding
    /\ ~fAllOk => Bad \cap added # {}
    /\ \A t \in Busy : ~fOk[t] => Bad \cap added # {}
    /\ \A t \in Busy : pc[t] = "done" /\ fOk[t] => batch[t] \cap Bad = {}

ClosedInv ==
    pc[Master] = "out" => /\ Outstanding = {}
                          /\ fAllOk
                          /\ verdict <=> added \cap Bad = {}

IInv == TypeOK /\ TodoCounts /\ CountersInv /\ FailuresInv /\ ClosedInv

-----------------------------------------------------------------------------
\* The checks that remain when thread t has given up its batch.
Rest(t) == queue \cup UNION {batch[u] : u \in Threads \ {t}}

\* What the prologue of the critical section hands to the rest of the loop.
AtTop(t, total, idle, todo, ok, pcs) ==
    /\ total \in Int /\ idle \in Int /\ todo \in Nat /\ ok \in BOOLEAN
    /\ todo = Cardinality(Rest(t))
    /\ total = idle + 1 + Cardinality(Busy \ {t})
    /\ ok /\ pc[Master] # "out" => Bad \cap added \subseteq Rest(t)
    /\ ~ok => Bad \cap added # {}
    /\ pcs \in [Threads -> Places]
    /\ \A u \in Threads \ {t} : pcs[u] = pc[u] \/ (pc[u] = "wait" /\ pcs[u] = "woken")
    /\ pc[t] # "out"
    /\ pc[Master] = "out" => Rest(t) = {} /\ ok

LEMMA ThreadsFinite == IsFiniteSet(Threads) /\ IsFiniteSet(Checks) /\ Master \in Threads
  BY CheckQueueAssumption, FS_AddElement DEF Threads

LEMMA InitIInv == Init => IInv
  <1> SUFFICES ASSUME Init PROVE IInv
    OBVIOUS
  <1>1. TypeOK
    BY DEF Init, TypeOK, Places
  <1>2. Outstanding = {}
    BY DEF Init, Outstanding
  <1>3. Busy = {}
    BY DEF Init, Busy
  <1>4. TodoCounts
    BY <1>2, FS_EmptySet DEF Init, TodoCounts
  <1>5. CountersInv
    BY <1>3, FS_EmptySet DEF Init, CountersInv
  <1>6. FailuresInv /\ ClosedInv
    BY <1>2, <1>3 DEF Init, FailuresInv, ClosedInv
  <1> QED
    BY <1>1, <1>4, <1>5, <1>6 DEF IInv

\* Whatever the four outcomes of the loop do, they restore the invariant.
LEMMA LoopTopIInv ==
  ASSUME IInv, NEW t \in Threads,
         NEW total, NEW idle, NEW todo, NEW ok, NEW pcs,
         AtTop(t, total, idle, todo, ok, pcs),
         LoopTop(t, total, idle, todo, ok, pcs)
  PROVE  IInv'
  <1>0. Rest(t) \subseteq Outstanding /\ Outstanding \subseteq Checks /\ IsFiniteSet(Rest(t))
    <2>1. Rest(t) \subseteq Outstanding /\ Outstanding \subseteq Checks
      BY DEF Rest, Outstanding, IInv, TypeOK
    <2> QED
      BY <2>1, ThreadsFinite, FS_Subset
  <1>1. IsFiniteSet(Busy \ {t}) /\ Cardinality(Busy \ {t}) \in Nat
    BY ThreadsFinite, FS_Subset, FS_CardinalityType DEF Busy
  <1>2. todo = 0 => Rest(t) = {}
    BY <1>0, FS_EmptySet DEF AtTop
  <1>3. ASSUME batch' = [batch EXCEPT ![t] = {}], queue' = queue,
               pc' \in [Threads -> Places], pc'[t] \notin {"work", "done"},
               \A u \in Threads \ {t} : pc'[u] = pcs[u]
        PROVE  Outstanding' = Rest(t) /\ Busy' = Busy \ {t}
    <2>1. Outstanding' = Rest(t)
      BY <1>3 DEF Outstanding, Rest, IInv, TypeOK
    <2>2. Busy' = Busy \ {t}
      BY <1>3 DEF Busy, AtTop
    <2> QED
      BY <2>1, <2>2
  <1>4. CASE Return(t, total, idle, todo, ok, pcs)
    <2>1. Outstanding' = Rest(t) /\ Busy' = Busy \ {t}
      BY <1>4, <1>3 DEF Return, AtTop, Places
    <2>2. TypeOK'
      BY <1>4 DEF Return, AtTop, IInv, TypeOK, Places
    <2>3. TodoCounts'
      BY <1>4, <2>1 DEF Return, AtTop, IInv, TodoCounts, TypeOK
    <2>4. CountersInv'
      BY <1>4, <1>1, <2>1 DEF Return, AtTop, IInv, CountersInv, TypeOK
    <2>5. FailuresInv'
      BY <1>4, <1>0, <1>2, <2>1 DEF Return, AtTop, IInv, FailuresInv, TypeOK, Busy
    <2>6. ClosedInv'
      BY <1>4, <1>2, <2>1 DEF Return, AtTop, ClosedInv
    <2> QED
      BY <2>2, <2>3, <2>4, <2>5, <2>6 DEF IInv
  <1>5. CASE Block(t, total, idle, todo, ok, pcs)
    <2>1. Outstanding' = Rest(t) /\ Busy' = Busy \ {t}
      BY <1>5, <1>3 DEF Block, AtTop, Places
    <2>2. TypeOK'
      BY <1>5 DEF Block, AtTop, IInv, TypeOK, Places
    <2>3. TodoCounts'
      BY <1>5, <2>1 DEF Block, AtTop, IInv, TodoCounts, TypeOK
    <2>4. CountersInv'
      BY <1>5, <1>1, <2>1 DEF Block, AtTop, IInv, CountersInv, TypeOK
    <2>5. FailuresInv'
      BY <1>5, <1>0, <2>1, ThreadsFinite DEF Block, AtTop, IInv, FailuresInv, TypeOK, Busy
    <2>6. ClosedInv'
      BY <1>5, <2>1, ThreadsFinite DEF Block, AtTop, IInv, ClosedInv
    <2> QED
      BY <2>2, <2>3, <2>4, <2>5, <2>6 DEF IInv
  <1>6. CASE Throw(t, total, idle, todo, ok, pcs)
    <2>1. Outstanding' = Rest(t) /\ Busy' = Busy \ {t}
      BY <1>6, <1>3 DEF Throw, Unwound, AtTop, Places
    <2>2. TypeOK'
      BY <1>6 DEF Throw, Unwound, AtTop, IInv, TypeOK, Places
    <2>3. TodoCounts'
      BY <1>6, <2>1 DEF Throw, AtTop, IInv, TodoCounts, TypeOK
    <2>4. CountersInv'
      BY <1>6, <1>1, <2>1 DEF Throw, AtTop, IInv, CountersInv, TypeOK
    <2>5. FailuresInv'
      BY <1>6, <1>0, <2>1, ThreadsFinite
      DEF Throw, Unwound, AtTop, IInv, FailuresInv, TypeOK, Busy
    <2>6. ClosedInv'
      BY <1>6, <2>1, ThreadsFinite DEF Throw, Unwound, AtTop, IInv, ClosedInv
    <2> QED
      BY <2>2, <2>3, <2>4, <2>5, <2>6 DEF IInv
  <1>7. CASE Take(t, total, idle, todo, ok, pcs)
    <2>1. PICK b \in kSubset(NextBatchSize(total, idle), queue) :
             queue' = queue \ b /\ batch' = [batch EXCEPT ![t] = b]
      BY <1>7 DEF Take
    <2>2. b \subseteq queue /\ b # {}
      <3>1. NextBatchSize(total, idle) # 0
        BY DEF NextBatchSize
      <3>2. b \in SUBSET queue /\ Cardinality(b) # 0
        BY <2>1, <3>1 DEF kSubset
      <3> QED
        BY <3>2, FS_EmptySet
    <2>3. Outstanding' = Rest(t)
      BY <2>1, <2>2 DEF Outstanding, Rest, IInv, TypeOK
    <2>4. Busy' = (Busy \ {t}) \cup {t}
      BY <1>7 DEF Take, Busy, AtTop
    <2>5. TypeOK'
      BY <1>7, <2>1, <2>2 DEF Take, AtTop, IInv, TypeOK, Places
    <2>6. TodoCounts'
      <3>1. batch'[t] = b /\ \A u \in Threads \ {t} : batch'[u] = batch[u]
        BY <2>1 DEF IInv, TypeOK
      <3>2. (nTodo = Cardinality(Outstanding))'
        BY <1>7, <2>3 DEF Take, AtTop
      <3> QED
        BY <2>1, <2>2, <3>1, <3>2 DEF IInv, TodoCounts
    <2>7. CountersInv'
      <3>1. Cardinality(Busy') = Cardinality(Busy \ {t}) + 1
        BY <1>1, <2>4, FS_AddElement
      <3>2. nTotal' = nIdle' + Cardinality(Busy')
        BY <1>7, <1>1, <3>1 DEF Take, AtTop
      <3> QED
        BY <1>7, <2>1, <2>2, <2>4, <3>2 DEF IInv, CountersInv, TypeOK
    <2>8. pc[Master] # "out"
      BY <2>2 DEF AtTop, Rest
    <2>9. FailuresInv'
      BY <1>7, <1>0, <2>1, <2>3, <2>4, <2>8
      DEF Take, AtTop, IInv, FailuresInv, TypeOK, Busy
    <2>10. ClosedInv'
      BY <1>7, <2>8, ThreadsFinite DEF Take, AtTop, ClosedInv
    <2> QED
      BY <2>5, <2>6, <2>7, <2>9, <2>10 DEF IInv
  <1> QED
    BY <1>4, <1>5, <1>6, <1>7 DEF LoopTop

\* A thread that is not busy gives up nothing at the top of the loop.
LEMMA NotBusyRest ==
  ASSUME IInv, NEW t \in Threads, t \notin Busy
  PROVE  Rest(t) = Outstanding /\ Busy \ {t} = Busy
  BY DEF Rest, Outstanding, IInv, CountersInv

LEMMA StepIInv == IInv /\ [Next]_vars => IInv'
  <1> SUFFICES ASSUME IInv, [Next]_vars PROVE IInv'
    OBVIOUS
  <1>0. /\ Cardinality(Busy) \in Nat /\ IsFiniteSet(Busy)
        /\ IsFiniteSet(Outstanding) /\ Cardinality(Outstanding) \in Nat
    <2>1. Busy \subseteq Threads /\ Outstanding \subseteq Checks
      BY DEF Busy, Outstanding, IInv, TypeOK
    <2> QED
      BY <2>1, ThreadsFinite, FS_Subset, FS_CardinalityType
  <1>1. ASSUME NEW t \in Threads, EnterLoop(t) PROVE IInv'
    <2>1. t \notin Busy /\ Rest(t) = Outstanding /\ Busy \ {t} = Busy
      BY <1>1, NotBusyRest DEF EnterLoop, Busy
    <2>2. AtTop(t, nTotal + 1, nIdle, nTodo, fAllOk, pc)
      <3>1. nTotal + 1 = nIdle + 1 + Cardinality(Busy \ {t}) /\ nTotal + 1 \in Int /\ nIdle \in Int
        <4> DEFINE n == Cardinality(Busy)
        <4>1. n \in Nat /\ nTotal \in Int /\ nIdle \in Int /\ nTotal = nIdle + n
          BY <1>0 DEF IInv, TypeOK, CountersInv
        <4>2. Cardinality(Busy \ {t}) = n
          BY <2>1
        <4> HIDE DEF n
        <4> QED
          BY <4>1, <4>2
      <3>2. nTodo = Cardinality(Rest(t)) /\ nTodo \in Nat
        BY <2>1 DEF IInv, TypeOK, TodoCounts
      <3>3. /\ fAllOk \in BOOLEAN /\ pc \in [Threads -> Places]
            /\ fAllOk /\ pc[Master] # "out" => Bad \cap added \subseteq Rest(t)
            /\ ~fAllOk => Bad \cap added # {}
            /\ pc[Master] = "out" => Rest(t) = {} /\ fAllOk
        BY <2>1 DEF IInv, TypeOK, FailuresInv, ClosedInv
      <3> QED
        BY <1>1, <3>1, <3>2, <3>3 DEF AtTop, EnterLoop
    <2> QED
      BY <1>1, <2>2, LoopTopIInv DEF EnterLoop
  <1>2. ASSUME NEW t \in Threads, MergeBatch(t) PROVE IInv'
    <2> DEFINE todo == nTodo - Cardinality(batch[t])
               pcs == NotifyMaster(t, todo)
    <2>1. t \in Busy /\ pc[t] = "done" /\ batch[t] \subseteq Outstanding /\ batch[t] # {}
      BY <1>2 DEF MergeBatch, Busy, Outstanding, IInv, CountersInv
    <2>2. Rest(t) = Outstanding \ batch[t]
      BY DEF Rest, Outstanding, IInv, TodoCounts
    <2>3. todo = Cardinality(Rest(t)) /\ todo \in Nat
      <3>1. Outstanding \cap batch[t] = batch[t]
        BY <2>1
      <3>2. IsFiniteSet(batch[t]) /\ Cardinality(batch[t]) \in Nat
        BY <1>0, <2>1, FS_Subset, FS_CardinalityType
      <3>3. Cardinality(Outstanding \ batch[t]) = Cardinality(Outstanding) - Cardinality(batch[t])
        BY <1>0, <3>1, FS_Difference
      <3>4. Cardinality(Rest(t)) \in Nat
        BY <1>0, <2>2, FS_Subset, FS_CardinalityType
      <3> QED
        BY <1>0, <2>2, <3>2, <3>3, <3>4 DEF IInv, TodoCounts
    <2>4. nTotal = nIdle + 1 + Cardinality(Busy \ {t})
      <3>1. Cardinality(Busy \ {t}) = Cardinality(Busy) - 1
        BY <1>0, <2>1, FS_RemoveElement
      <3> QED
        BY <1>0, <3>1 DEF IInv, TypeOK, CountersInv
    <2>5. pc[Master] # "out"
      BY <2>1 DEF IInv, ClosedInv
    <2>6. (fAllOk /\ fOk[t]) => Bad \cap added \subseteq Rest(t)
      BY <2>1, <2>2, <2>5 DEF IInv, FailuresInv
    <2>7. ~(fAllOk /\ fOk[t]) => Bad \cap added # {}
      BY <2>1 DEF IInv, FailuresInv
    <2>8. /\ pcs \in [Threads -> Places]
          /\ \A u \in Threads \ {t} : pcs[u] = pc[u] \/ (pc[u] = "wait" /\ pcs[u] = "woken")
      BY DEF NotifyMaster, IInv, TypeOK, Places
    <2>9. AtTop(t, nTotal, nIdle, todo, fAllOk /\ fOk[t], pcs)
      <3> HIDE DEF todo, pcs
      <3> QED
        BY <2>1, <2>3, <2>4, <2>5, <2>6, <2>7, <2>8 DEF AtTop, IInv, TypeOK
    <2>10. LoopTop(t, nTotal, nIdle, todo, fAllOk /\ fOk[t], pcs)
      BY <1>2 DEF MergeBatch
    <2> QED
      <3> HIDE DEF todo, pcs
      <3> QED
        BY <2>9, <2>10, LoopTopIInv
  <1>3. ASSUME NEW t \in Threads, WakeUp(t) PROVE IInv'
    <2>1. t \notin Busy /\ Rest(t) = Outstanding /\ Busy \ {t} = Busy
      BY <1>3, NotBusyRest DEF WakeUp, Busy
    <2>2. AtTop(t, nTotal, nIdle - 1, nTodo, fAllOk, pc)
      <3>1. nTotal = (nIdle - 1) + 1 + Cardinality(Busy \ {t}) /\ nTotal \in Int /\ nIdle - 1 \in Int
        <4> DEFINE n == Cardinality(Busy)
        <4>1. n \in Nat /\ nTotal \in Int /\ nIdle \in Int /\ nTotal = nIdle + n
          BY <1>0 DEF IInv, TypeOK, CountersInv
        <4>2. Cardinality(Busy \ {t}) = n
          BY <2>1
        <4> HIDE DEF n
        <4> QED
          BY <4>1, <4>2
      <3>2. nTodo = Cardinality(Rest(t)) /\ nTodo \in Nat
        BY <2>1 DEF IInv, TypeOK, TodoCounts
      <3>3. /\ fAllOk \in BOOLEAN /\ pc \in [Threads -> Places]
            /\ fAllOk /\ pc[Master] # "out" => Bad \cap added \subseteq Rest(t)
            /\ ~fAllOk => Bad \cap added # {}
            /\ pc[Master] = "out" => Rest(t) = {} /\ fAllOk
        BY <2>1 DEF IInv, TypeOK, FailuresInv, ClosedInv
      <3> QED
        BY <1>3, <3>1, <3>2, <3>3 DEF AtTop, WakeUp
    <2> QED
      BY <1>3, <2>2, LoopTopIInv DEF WakeUp
  <1>4. ASSUME queue' = queue, batch' = batch, nIdle' = nIdle, nTotal' = nTotal,
               nTodo' = nTodo, fAllOk' = fAllOk, added' = added, verdict' = verdict,
               fOk' = fOk, interrupted' \subseteq Threads, pc' \in [Threads -> Places],
               Busy' = Busy, \A t \in Busy : pc'[t] = pc[t],
               pc'[Master] = "out" <=> pc[Master] = "out"
        PROVE  IInv'
    <2>1. Outstanding' = Outstanding
      BY <1>4 DEF Outstanding
    <2> QED
      BY <1>4, <2>1
      DEF IInv, TypeOK, TodoCounts, CountersInv, FailuresInv, ClosedInv
  <1>5. ASSUME NEW t \in Threads, WakeUpThrow(t) PROVE IInv'
    BY <1>4, <1>5 DEF WakeUpThrow, Unwound, Busy, Places, IInv, TypeOK
  <1>6. ASSUME NEW t \in Threads, SpuriousWake(t) PROVE IInv'
    BY <1>4, <1>6 DEF SpuriousWake, Busy, Places, IInv, TypeOK
  <1>7. ASSUME NEW t \in Threads, Execute(t) PROVE IInv'
    <2>1. Outstanding' = Outstanding /\ Busy' = Busy
      BY <1>7 DEF Execute, Outstanding, Busy, IInv, TypeOK
    <2>2. TypeOK' /\ TodoCounts' /\ CountersInv' /\ ClosedInv'
      BY <1>7, <2>1
      DEF Execute, Places, IInv, TypeOK, TodoCounts, CountersInv, ClosedInv
    <2>3. t \in Busy /\ batch[t] \subseteq added /\ Bad \subseteq Checks
      BY <1>7, CheckQueueAssumption DEF Execute, Busy, Outstanding, IInv, FailuresInv
    <2>4. FailuresInv'
      <3>1. \A u \in Busy : u # t => fOk'[u] = fOk[u] /\ pc'[u] = pc[u]
        BY <1>7 DEF Execute, Busy, IInv, TypeOK
      <3>2. fOk'[t] = (fOk[t] /\ batch[t] \cap Bad = {})
        BY <1>7 DEF Execute, IInv, TypeOK
      <3>3. \A u \in Busy : ~fOk'[u] => Bad \cap added # {}
        BY <2>3, <3>1, <3>2 DEF IInv, FailuresInv
      <3>4. \A u \in Busy : pc'[u] = "done" /\ fOk'[u] => batch[u] \cap Bad = {}
        BY <3>1, <3>2 DEF IInv, FailuresInv
      <3>5. pc'[Master] = "out" <=> pc[Master] = "out"
        BY <1>7, ThreadsFinite DEF Execute, IInv, TypeOK
      <3> QED
        BY <1>7, <2>1, <3>3, <3>4, <3>5 DEF Execute, IInv, FailuresInv
    <2> QED
      BY <2>2, <2>4 DEF IInv
  <1>8. ASSUME OpenSession PROVE IInv'
    <2>1. Outstanding' = Outstanding /\ Outstanding = {}
      BY <1>8 DEF OpenSession, Outstanding, IInv, ClosedInv
    <2>2. Busy' = Busy /\ Busy = {}
      <3>1. Busy = {}
        BY <2>1 DEF Outstanding, Busy, IInv, CountersInv
      <3>2. Busy' = Busy
        BY <1>8 DEF OpenSession, Busy, IInv, TypeOK
      <3> QED
        BY <3>1, <3>2
    <2> QED
      BY <1>8, <2>1, <2>2, ThreadsFinite
      DEF OpenSession, IsIdle, Places, IInv, TypeOK, TodoCounts, CountersInv,
          FailuresInv, ClosedInv
  <1>9. ASSUME NEW vChecks \in SUBSET (Checks \ added), Add(vChecks) PROVE IInv'
    <2>1. Outstanding' = Outstanding \cup vChecks
      BY <1>9 DEF Add, Outstanding
    <2>2. PICK W \in Notified(Cardinality(vChecks)) :
             pc' = [t \in Threads |-> IF t \in W THEN "woken" ELSE pc[t]]
      BY <1>9 DEF Add
    <2>3. \A t \in W : t \in Workers /\ pc[t] = "wait"
      BY <2>2 DEF Notified
    <2>4. Busy' = Busy /\ pc'[Master] = pc[Master] /\ \A t \in Busy : pc'[t] = pc[t]
      BY <2>2, <2>3, CheckQueueAssumption, ThreadsFinite DEF Busy
    <2>5. Outstanding \cap vChecks = {}
      BY DEF IInv, FailuresInv
    <2>6. nTodo' = Cardinality(Outstanding')
      <3>1. IsFiniteSet(vChecks) /\ Cardinality(vChecks) \in Nat
        BY ThreadsFinite, FS_Subset, FS_CardinalityType
      <3>2. Cardinality(Outstanding \cup vChecks)
              = Cardinality(Outstanding) + Cardinality(vChecks) - Cardinality({})
        BY <1>0, <2>5, <3>1, FS_Union
      <3> QED
        BY <1>0, <1>9, <2>1, <3>1, <3>2, FS_EmptySet DEF Add, IInv, TodoCounts
    <2>7. TypeOK'
      <3>1. nTodo' \in Nat
        BY <1>9, ThreadsFinite, FS_Subset, FS_CardinalityType DEF Add, IInv, TypeOK
      <3> QED
        BY <1>9, <2>2, <3>1 DEF Add, Places, IInv, TypeOK
    <2>8. TodoCounts'
      BY <1>9, <2>5, <2>6 DEF Add, Outstanding, IInv, TodoCounts
    <2>9. CountersInv' /\ FailuresInv' /\ ClosedInv'
      BY <1>9, <2>1, <2>4 DEF Add, IInv, CountersInv, FailuresInv, ClosedInv
    <2> QED
      BY <2>7, <2>8, <2>9 DEF IInv
  <1>10. ASSUME CallWait PROVE IInv'
    BY <1>4, <1>10, ThreadsFinite DEF CallWait, Busy, Places, IInv, TypeOK
  <1>11. ASSUME InterruptAll PROVE IInv'
    BY <1>4, <1>11, ThreadsFinite DEF InterruptAll, Busy, Places, IInv, TypeOK
  <1>12. ASSUME UNCHANGED vars PROVE IInv'
    BY <1>4, <1>12 DEF vars, Busy, IInv, TypeOK
  <1> QED
    BY <1>1, <1>2, <1>3, <1>5, <1>6, <1>7, <1>8, <1>9, <1>10, <1>11, <1>12 DEF Next

-----------------------------------------------------------------------------
(* The inductive invariant holds in every reachable state.                 *)
THEOREM Invariance == Spec => []IInv
  BY InitIInv, StepIInv, PTL DEF Spec

(* Type correctness of the check queue.                                    *)
THEOREM TypeCorrect == Spec => []TypeOK
  BY Invariance, PTL DEF IInv

(* For every number of workers, checks and every batch size, what Wait()   *)
(* returned is true exactly when none of the session's checks fails.       *)
THEOREM VerdictIsExact == Spec => []VerdictExact
  <1>1. IInv => VerdictExact
    BY DEF IInv, ClosedInv, VerdictExact
  <1> QED
    BY Invariance, <1>1, PTL

(* The assertion in CCheckQueueControl's constructor never fails.          *)
THEOREM ConstructorAssertion == Spec => []IdleBetweenSessions
  <1>1. IInv => IdleBetweenSessions
    <2> SUFFICES ASSUME IInv, pc[Master] = "out" PROVE IsIdle
      BY DEF IdleBetweenSessions
    <2>1. Outstanding = {} /\ fAllOk
      BY DEF IInv, ClosedInv
    <2>2. Busy = {}
      BY <2>1 DEF Outstanding, Busy, IInv, CountersInv
    <2> QED
      BY <2>1, <2>2, FS_EmptySet DEF IsIdle, IInv, TypeOK, TodoCounts, CountersInv
  <1> QED
    BY Invariance, <1>1, PTL

(* nTodo counts exactly the checks that are queued or being executed.      *)
THEOREM TodoIsExact == Spec => []TodoCounts
  BY Invariance, PTL DEF IInv

=============================================================================
