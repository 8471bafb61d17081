-------------------------- MODULE HttpServerProofs --------------------------
(* Proof that what came to the HTTP server's queue in time leaves it in    *)
(* order, for any number of workers and requests and any depth.            *)
EXTENDS HttpServer, FiniteSetTheorems, TLAPS

(* The threads that ThreadCounter counts.                                  *)
Counted == {w \in Workers : wpc[w] \notin {"starting", "ended"}}

InQueue(r) == \E i \in 1 .. Len(queue) : queue[i] = r

TypeInv ==
    /\ queue \in Seq(Requests)
    /\ numThreads \in Int
    /\ wpc \in [Workers -> {"starting", "head", "enter", "woken", "wait", "work", "leave", "ended", "undefined"}]
    /\ item \in [Workers -> Requests \cup {NoItem}]
    /\ answers \in [Requests -> {-1, 0, 1}]
    /\ epc \in Requests \cup {"idle", "stuck", "ended"}
    /\ main \in {"up", "interrupt", "exit", "waiting", "delete", "break", "end"}
    /\ late \subseteq Workers /\ lost \subseteq Requests

(* numThreads is exact while there is a queue: WaitExit may rely on it.    *)
CountExact == ~deleted => numThreads = Cardinality(Counted)

(* WaitExit has returned.                                                  *)
Exited == main \in {"delete", "break", "end"}

(* How far the shutdown is, as the other variables show it.                *)
Stages ==
    /\ gencb = "http_request_cb" <=> main = "up"
    /\ running => main \in {"up", "interrupt"}
    /\ Exited => /\ \A w \in Workers \ late : wpc[w] \in {"starting", "ended"}
                 /\ \A w \in late : wpc[w] \in {"head", "leave", "ended", "undefined"}
    /\ late # {} => Exited
    /\ deleted <=> main \in {"break", "end"}
    /\ deleted => queue = <<>>

(* A request that has come and is not answered is in exactly one place:    *)
(* with the event thread, in the queue or with one worker.  This is what   *)
(* keeps two answers apart, and what shows that the deletion leaves only   *)
(* the request in the event thread's hands unanswered.                     *)
OneOwner ==
    /\ \A w \in Workers : wpc[w] = "work" <=> item[w] \in Requests
    /\ \A r \in Requests : answers[r] = 0 /\ r \notin lost <=>
          epc = r \/ InQueue(r) \/ \E w \in Workers : item[w] = r
    /\ \A r \in lost : answers[r] # -1
    /\ \A i, j \in 1 .. Len(queue) : queue[i] = queue[j] => i = j
    /\ \A w, v \in Workers : item[w] \in Requests /\ item[w] = item[v] => w = v
    /\ \A w \in Workers : item[w] \in Requests => ~InQueue(item[w]) /\ epc # item[w]
    /\ epc \in Requests => ~InQueue(epc)

Inv == TypeInv /\ CountExact /\ Stages /\ OneOwner

LEMMA CountedFinite == IsFiniteSet(Counted)
  BY ThreadsAssumption, FS_Subset DEF Counted

LEMMA InitInv == Init => Inv
<1> SUFFICES ASSUME Init PROVE Inv
  OBVIOUS
<1>1. Counted = {}
  BY DEF Init, Counted
<1>2. Len(queue) = 0 /\ queue \in Seq(Requests)
  BY DEF Init
<1>3. TypeInv
  BY <1>2 DEF Init, TypeInv
<1>4. CountExact
  BY <1>1, FS_EmptySet DEF Init, CountExact
<1>5. Stages
  BY DEF Init, Stages, Exited
<1>6. OneOwner
  <2>1. NoItem \notin Requests /\ epc \notin Requests
    BY RequestsAssumption DEF Init, NoItem
  <2>2. \A r : ~InQueue(r)
    BY <1>2 DEF InQueue
  <2>3. /\ \A w \in Workers : wpc[w] # "work" /\ item[w] = NoItem
        /\ (\A r \in Requests : answers[r] # 0) /\ lost = {}
    BY DEF Init
  <2>4. \A i \in 1 .. Len(queue) : FALSE
    BY <1>2
  <2>5. QED
    BY <2>1, <2>2, <2>3, <2>4 DEF OneOwner
<1>7. QED
  BY <1>3, <1>4, <1>5, <1>6 DEF Inv

(* The count follows a thread that starts or ends, and no other step       *)
(* touches it.                                                             *)
LEMMA CountKept ==
    ASSUME CountExact, Counted' = Counted, numThreads' = numThreads, deleted' = deleted
    PROVE  CountExact'
  BY DEF CountExact

LEMMA StartCounted ==
    ASSUME Inv, NEW w \in Workers, StartWorker(w), ~deleted
    PROVE  CountExact'
<1>1. Counted' = Counted \cup {w} /\ w \notin Counted
  BY DEF Inv, TypeInv, StartWorker, Counted
<1>2. Cardinality(Counted') = Cardinality(Counted) + 1
  BY <1>1, CountedFinite, FS_AddElement
<1>3. QED
  BY <1>2 DEF Inv, CountExact, StartWorker

LEMMA LeaveCounted ==
    ASSUME Inv, NEW w \in Workers, Leave(w), ~deleted
    PROVE  CountExact'
<1>1. Counted' = Counted \ {w} /\ w \in Counted
  BY DEF Inv, TypeInv, Leave, Counted, NotifyAll
<1>2. Cardinality(Counted') = Cardinality(Counted) - 1
  BY <1>1, CountedFinite, FS_RemoveElement
<1>3. QED
  BY <1>2 DEF Inv, CountExact, Leave

(* Nothing that changes program counters alone moves a request.            *)
LEMMA OwnersKept ==
    ASSUME OneOwner, UNCHANGED <<queue, item, answers, epc, lost>>,
           \A w \in Workers : wpc'[w] = "work" <=> wpc[w] = "work"
    PROVE  OneOwner'
  BY DEF OneOwner, InQueue

LEMMA StartInv ==
    ASSUME Inv, NEW w \in Workers, StartWorker(w), ~deleted
    PROVE  Inv'
<1>1. TypeInv'
  BY DEF Inv, TypeInv, StartWorker
<1>2. Stages'
  BY DEF Inv, TypeInv, Stages, Exited, StartWorker
<1>3. OneOwner'
  BY OwnersKept DEF Inv, TypeInv, StartWorker
<1>4. QED
  BY <1>1, <1>2, <1>3, StartCounted DEF Inv

LEMMA LeaveInv ==
    ASSUME Inv, NEW w \in Workers, Leave(w), ~deleted
    PROVE  Inv'
<1>1. TypeInv'
  BY DEF Inv, TypeInv, Leave, NotifyAll
<1>2. Stages'
  BY DEF Inv, TypeInv, Stages, Exited, Leave, NotifyAll
<1>3. OneOwner'
  BY OwnersKept DEF Inv, TypeInv, Leave, NotifyAll
<1>4. QED
  BY <1>1, <1>2, <1>3, LeaveCounted DEF Inv

(* A worker that goes on, sleeps or is woken.                              *)
LEMMA MoveInv ==
    ASSUME Inv, NEW w \in Workers, NEW pc \in {"head", "enter", "woken", "wait", "leave"},
           wpc[w] \in {"head", "enter", "woken", "wait"},
           running \/ pc = "leave" \/ wpc[w] = "wait",
           wpc' = [wpc EXCEPT ![w] = pc],
           UNCHANGED <<queue, running, numThreads, item, answers, gencb, epc, main, deleted, late, lost>>
    PROVE  Inv'
<1>1. TypeInv'
  BY DEF Inv, TypeInv
<1>2. CountExact'
  <2>1. Counted' = Counted
    BY DEF Inv, TypeInv, Counted
  <2>2. QED
    BY <2>1, CountKept DEF Inv
<1>3. Stages'
  BY DEF Inv, TypeInv, Stages, Exited
<1>4. OneOwner'
  BY OwnersKept DEF Inv, TypeInv
<1>5. QED
  BY <1>1, <1>2, <1>3, <1>4 DEF Inv

(* The first of a queue without duplicates leaves it.                      *)
LEMMA TailFacts ==
    ASSUME queue \in Seq(Requests), queue # <<>>, queue' = Tail(queue),
           \A i, j \in 1 .. Len(queue) : queue[i] = queue[j] => i = j
    PROVE  /\ queue' \in Seq(Requests) /\ Head(queue) \in Requests
           /\ \A i, j \in 1 .. Len(queue') : queue'[i] = queue'[j] => i = j
           /\ \A r : InQueue(r)' <=> InQueue(r) /\ r # Head(queue)
           /\ InQueue(Head(queue))
<1>1. /\ Len(queue) \in Nat /\ Len(queue) > 0 /\ Len(queue') = Len(queue) - 1
      /\ \A i \in 1 .. Len(queue') : queue'[i] = queue[i + 1]
      /\ queue' \in Seq(Requests) /\ Head(queue) = queue[1] /\ Head(queue) \in Requests
  OBVIOUS
<1>2. \A i, j \in 1 .. Len(queue') : queue'[i] = queue'[j] => i = j
  BY <1>1
<1>3. ASSUME NEW r PROVE InQueue(r)' <=> InQueue(r) /\ r # Head(queue)
  <2>1. ASSUME InQueue(r)' PROVE InQueue(r) /\ r # Head(queue)
    BY <1>1, <2>1 DEF InQueue
  <2>2. ASSUME InQueue(r), r # Head(queue) PROVE InQueue(r)'
    <3>1. PICK i \in 1 .. Len(queue) : queue[i] = r
      BY <2>2 DEF InQueue
    <3>2. i - 1 \in 1 .. Len(queue') /\ queue'[i - 1] = r
      BY <1>1, <2>2, <3>1
    <3>3. QED
      BY <3>2 DEF InQueue
  <2>3. QED
    BY <2>1, <2>2
<1>4. InQueue(Head(queue))
  BY <1>1 DEF InQueue
<1>5. QED
  BY <1>1, <1>2, <1>3, <1>4

LEMMA TakeInv ==
    ASSUME Inv, NEW w \in Workers, Take(w)
    PROVE  Inv'
<1>1. CASE ~running \/ queue = <<>>
  <2>1. PICK pc \in {"leave", "wait"} :
           /\ wpc' = [wpc EXCEPT ![w] = pc]
           /\ wpc[w] \in {"enter", "woken"} /\ (running \/ pc = "leave")
           /\ UNCHANGED <<queue, running, numThreads, item, answers, gencb, epc, main, deleted, late, lost>>
    BY <1>1 DEF Take
  <2>2. QED
    BY <2>1, MoveInv
<1>2. CASE running /\ queue # <<>>
  <2>1. /\ wpc[w] \in {"enter", "woken"} /\ wpc' = [wpc EXCEPT ![w] = "work"]
        /\ item' = [item EXCEPT ![w] = Head(queue)] /\ queue' = Tail(queue)
        /\ UNCHANGED <<running, numThreads, answers, gencb, epc, main, deleted, late, lost>>
    BY <1>2 DEF Take
  <2>2. /\ queue' \in Seq(Requests) /\ Head(queue) \in Requests
        /\ \A i, j \in 1 .. Len(queue') : queue'[i] = queue'[j] => i = j
        /\ \A r : InQueue(r)' <=> InQueue(r) /\ r # Head(queue)
        /\ InQueue(Head(queue))
    BY <1>2, <2>1, TailFacts DEF Inv, TypeInv, OneOwner
  <2>3. TypeInv'
    BY <2>1, <2>2 DEF Inv, TypeInv
  <2>4. CountExact'
    <3>1. Counted' = Counted
      BY <2>1 DEF Inv, TypeInv, Counted
    <3>2. QED
      BY <2>1, <3>1, CountKept DEF Inv
  <2>5. Stages'
    BY <1>2, <2>1 DEF Inv, TypeInv, Stages, Exited
  <2>6. OneOwner'
    <3>1. item[w] \notin Requests
      BY <2>1 DEF Inv, OneOwner
    <3>2. /\ item'[w] = Head(queue) /\ \A v \in Workers : v # w => item'[v] = item[v]
          /\ wpc'[w] = "work" /\ \A v \in Workers : v # w => wpc'[v] = wpc[v]
      BY <2>1 DEF Inv, TypeInv
    <3>3. \A v \in Workers : wpc'[v] = "work" <=> item'[v] \in Requests
      BY <2>2, <3>2 DEF Inv, OneOwner
    <3>4. \A r \in Requests : answers'[r] = 0 /\ r \notin lost' <=>
             epc' = r \/ InQueue(r)' \/ \E v \in Workers : item'[v] = r
      BY <2>1, <2>2, <3>1, <3>2 DEF Inv, OneOwner
    <3>5. \A v, x \in Workers : item'[v] \in Requests /\ item'[v] = item'[x] => v = x
      BY <2>2, <3>2 DEF Inv, OneOwner
    <3>6. \A v \in Workers : item'[v] \in Requests => ~InQueue(item[v])' /\ epc' # item'[v]
      BY <2>1, <2>2, <3>2 DEF Inv, OneOwner
    <3>7. epc' \in Requests => ~InQueue(epc)'
      BY <2>1, <2>2 DEF Inv, OneOwner
    <3>8. \A r \in lost' : answers'[r] # -1
      BY <2>1 DEF Inv, OneOwner
    <3>9. QED
      BY <2>2, <3>3, <3>4, <3>5, <3>6, <3>7, <3>8 DEF OneOwner
  <2>7. QED
    BY <2>3, <2>4, <2>5, <2>6 DEF Inv
<1>3. QED
  BY <1>1, <1>2

(* The handler answers the request its worker took, once.                  *)
LEMMA WorkInv ==
    ASSUME Inv, NEW w \in Workers, Work(w)
    PROVE  Inv'
<1> DEFINE r == item[w]
<1>1. /\ wpc[w] = "work" /\ wpc' = [wpc EXCEPT ![w] = "head"]
      /\ answers' = [answers EXCEPT ![r] = answers[r] + 1]
      /\ item' = [item EXCEPT ![w] = NoItem]
      /\ UNCHANGED <<queue, running, numThreads, gencb, epc, main, deleted, late, lost>>
  BY DEF Work
<1>2. r \in Requests /\ answers[r] = 0 /\ r \notin lost
  BY <1>1 DEF Inv, OneOwner
<1>3. answers' = [answers EXCEPT ![r] = 1]
  BY <1>1, <1>2
<1> HIDE DEF r
<1>4. TypeInv'
  BY <1>1, <1>2, <1>3 DEF Inv, TypeInv
<1>5. CountExact'
  <2>1. Counted' = Counted
    BY <1>1 DEF Inv, TypeInv, Counted
  <2>2. QED
    BY <1>1, <2>1, CountKept DEF Inv
<1>6. Stages'
  BY <1>1 DEF Inv, TypeInv, Stages, Exited
<1>7. OneOwner'
  <2>1. NoItem \notin Requests
    BY RequestsAssumption DEF NoItem
  <2>2. /\ item'[w] = NoItem /\ \A v \in Workers : v # w => item'[v] = item[v]
        /\ wpc'[w] = "head" /\ \A v \in Workers : v # w => wpc'[v] = wpc[v]
    BY <1>1 DEF Inv, TypeInv
  <2>3. /\ answers'[r] = 1 /\ \A x \in Requests : x # r => answers'[x] = answers[x]
        /\ \A v \in Workers : v # w => item[v] # r
        /\ ~InQueue(r) /\ epc # r /\ item[w] = r
    BY <1>2, <1>3 DEF Inv, TypeInv, OneOwner, r
  <2>4. \A x : InQueue(x)' <=> InQueue(x)
    BY <1>1 DEF InQueue
  <2>5. \A v \in Workers : wpc'[v] = "work" <=> item'[v] \in Requests
    BY <2>1, <2>2 DEF Inv, OneOwner
  <2>6. \A x \in Requests : answers'[x] = 0 /\ x \notin lost' <=>
           epc' = x \/ InQueue(x)' \/ \E v \in Workers : item'[v] = x
    BY <1>1, <2>1, <2>2, <2>3, <2>4 DEF Inv, OneOwner
  <2>7. \A v, x \in Workers : item'[v] \in Requests /\ item'[v] = item'[x] => v = x
    BY <2>1, <2>2 DEF Inv, OneOwner
  <2>8. \A v \in Workers : item'[v] \in Requests => ~InQueue(item[v])' /\ epc' # item'[v]
    BY <1>1, <2>1, <2>2, <2>4 DEF Inv, OneOwner
  <2>9. \A x \in lost' : answers'[x] # -1
    BY <1>1, <1>2, <2>3 DEF Inv, TypeInv, OneOwner
  <2>10. QED
    BY <1>1, <2>4, <2>5, <2>6, <2>7, <2>8, <2>9 DEF Inv, OneOwner
<1>8. QED
  BY <1>4, <1>5, <1>6, <1>7 DEF Inv

-----------------------------------------------------------------------------
(* The event thread.                                                       *)

LEMMA RequestInv ==
    ASSUME Inv, NEW r \in Requests, Request(r)
    PROVE  Inv'
<1>1. /\ epc = "idle" /\ answers[r] = -1
      /\ \/ epc' = r /\ answers' = [answers EXCEPT ![r] = 0] /\ main = "up"
         \/ epc' = "idle" /\ answers' = [answers EXCEPT ![r] = 1]
      /\ UNCHANGED <<queue, running, numThreads, wpc, item, gencb, main, deleted, late, lost>>
  BY DEF Request, Inv, Stages
<1>2. TypeInv'
  BY <1>1 DEF Inv, TypeInv
<1>3. CountExact'
  <2>1. Counted' = Counted
    BY <1>1 DEF Counted
  <2>2. QED
    BY <1>1, <2>1, CountKept DEF Inv
<1>4. "idle" \notin Requests
  BY RequestsAssumption
<1>5. Stages'
  BY <1>1, <1>4 DEF Inv, Stages, Exited
<1>6. OneOwner'
  <2>1. /\ ~InQueue(r) /\ r \notin lost /\ \A w \in Workers : item[w] # r
        /\ \A x \in Requests : x # r => answers'[x] = answers[x]
    BY <1>1 DEF Inv, TypeInv, OneOwner
  <2>2. \A x : InQueue(x)' <=> InQueue(x)
    BY <1>1 DEF InQueue
  <2>3. answers'[r] = 0 <=> epc' = r
    BY <1>1, <1>4 DEF Inv, TypeInv
  <2>4. \A x \in Requests : answers'[x] = 0 /\ x \notin lost' <=>
           epc' = x \/ InQueue(x)' \/ \E v \in Workers : item'[v] = x
    BY <1>1, <1>4, <2>1, <2>2, <2>3 DEF Inv, OneOwner
  <2>5. \A v \in Workers : item'[v] \in Requests => ~InQueue(item[v])' /\ epc' # item'[v]
    BY <1>1, <1>4, <2>1, <2>2 DEF Inv, OneOwner
  <2>6. epc' \in Requests => ~InQueue(epc)'
    BY <1>1, <1>4, <2>1, <2>2
  <2>7. \A x \in lost' : answers'[x] # -1
    BY <1>1, <2>1 DEF Inv, TypeInv, OneOwner
  <2>8. QED
    BY <1>1, <2>4, <2>5, <2>6, <2>7 DEF Inv, OneOwner
<1>7. QED
  BY <1>2, <1>3, <1>5, <1>6 DEF Inv

(* notify_one wakes a worker or the main thread, which only look again.    *)
LEMMA NotifyFacts ==
    ASSUME Inv, NotifyOne
    PROVE  /\ wpc' \in [Workers -> {"starting", "head", "enter", "woken", "wait", "work", "leave", "ended", "undefined"}]
           /\ \A w \in Workers : wpc'[w] = wpc[w] \/ (wpc[w] = "wait" /\ wpc'[w] = "woken")
           /\ main' = main \/ (main = "waiting" /\ main' = "exit")
  BY DEF Inv, TypeInv, NotifyOne, Sleepers

LEMMA EnqueueInv ==
    ASSUME Inv, Enqueue
    PROVE  Inv'
<1>1. /\ ~deleted /\ epc \in Requests /\ epc' = "idle"
      /\ UNCHANGED <<running, numThreads, item, gencb, deleted, late, lost>>
  BY DEF Enqueue
<1>2. "idle" \notin Requests
  BY RequestsAssumption
<1>3. CASE Len(queue) < maxDepth
  <2>1. queue' = Append(queue, epc) /\ NotifyOne /\ answers' = answers
    BY <1>3 DEF Enqueue
  <2>2. /\ wpc' \in [Workers -> {"starting", "head", "enter", "woken", "wait", "work", "leave", "ended", "undefined"}]
        /\ \A w \in Workers : wpc'[w] = wpc[w] \/ (wpc[w] = "wait" /\ wpc'[w] = "woken")
        /\ main' = main \/ (main = "waiting" /\ main' = "exit")
    BY <2>1, NotifyFacts
  <2>3. /\ queue' \in Seq(Requests) /\ Len(queue) \in Nat /\ Len(queue') = Len(queue) + 1
        /\ \A i \in 1 .. Len(queue) : queue'[i] = queue[i]
        /\ queue'[Len(queue) + 1] = epc
    BY <1>1, <2>1 DEF Inv, TypeInv
  <2>4. TypeInv'
    BY <1>1, <2>1, <2>2, <2>3 DEF Inv, TypeInv
  <2>5. CountExact'
    <3>1. Counted' = Counted
      BY <2>2 DEF Counted
    <3>2. QED
      BY <1>1, <3>1, CountKept DEF Inv
  <2>6. Stages'
    BY <1>1, <2>2 DEF Inv, TypeInv, Stages, Exited
  <2>7. OneOwner'
    <3>1. \A x : InQueue(x)' <=> InQueue(x) \/ x = epc
      <4>1. ASSUME NEW x, InQueue(x)' PROVE InQueue(x) \/ x = epc
        BY <2>3, <4>1 DEF InQueue
      <4>2. ASSUME NEW x, InQueue(x) \/ x = epc PROVE InQueue(x)'
        <5>1. CASE InQueue(x)
          BY <2>3, <5>1 DEF InQueue
        <5>2. CASE x = epc
          <6>1. Len(queue) + 1 \in 1 .. Len(queue')
            BY <2>3
          <6>2. QED
            BY <2>3, <5>2, <6>1 DEF InQueue
        <5>3. QED
          BY <4>2, <5>1, <5>2
      <4>3. QED
        BY <4>1, <4>2
    <3>2. ~InQueue(epc)
      BY <1>1 DEF Inv, OneOwner
    <3>3. \A i, j \in 1 .. Len(queue') : queue'[i] = queue'[j] => i = j
      <4>1. \A i \in 1 .. Len(queue) : queue[i] # epc
        BY <3>2 DEF InQueue
      <4>2. \A i \in 1 .. Len(queue') : i \in 1 .. Len(queue) \/ i = Len(queue) + 1
        BY <2>3
      <4>3. QED
        BY <2>3, <4>1, <4>2 DEF Inv, OneOwner
    <3>4. \A x \in Requests : answers'[x] = 0 /\ x \notin lost' <=>
             epc' = x \/ InQueue(x)' \/ \E v \in Workers : item'[v] = x
      BY <1>1, <1>2, <2>1, <3>1 DEF Inv, OneOwner
    <3>5. \A v \in Workers : item'[v] \in Requests => ~InQueue(item[v])' /\ epc' # item'[v]
      BY <1>1, <1>2, <3>1 DEF Inv, OneOwner
    <3>6. \A v \in Workers : wpc'[v] = "work" <=> item'[v] \in Requests
      BY <1>1, <2>2 DEF Inv, OneOwner
    <3>7. QED
      BY <1>1, <1>2, <2>1, <3>3, <3>4, <3>5, <3>6 DEF Inv, OneOwner
  <2>8. QED
    BY <2>4, <2>5, <2>6, <2>7 DEF Inv
<1>4. CASE ~(Len(queue) < maxDepth)
  <2>1. answers' = [answers EXCEPT ![epc] = 1] /\ UNCHANGED <<queue, wpc, main>>
    BY <1>4 DEF Enqueue
  <2>2. TypeInv'
    BY <1>1, <2>1 DEF Inv, TypeInv
  <2>3. CountExact'
    <3>1. Counted' = Counted
      BY <2>1 DEF Counted
    <3>2. QED
      BY <1>1, <3>1, CountKept DEF Inv
  <2>4. Stages'
    BY <1>1, <1>2, <2>1 DEF Inv, Stages, Exited
  <2>5. OneOwner'
    <3>1. /\ answers'[epc] = 1 /\ \A x \in Requests : x # epc => answers'[x] = answers[x]
          /\ ~InQueue(epc) /\ \A v \in Workers : item[v] # epc
      BY <1>1, <2>1 DEF Inv, TypeInv, OneOwner
    <3>2. \A x : InQueue(x)' <=> InQueue(x)
      BY <2>1 DEF InQueue
    <3>3. \A x \in Requests : answers'[x] = 0 /\ x \notin lost' <=>
             epc' = x \/ InQueue(x)' \/ \E v \in Workers : item'[v] = x
      BY <1>1, <1>2, <3>1, <3>2 DEF Inv, OneOwner
    <3>4. \A v \in Workers : item'[v] \in Requests => ~InQueue(item[v])' /\ epc' # item'[v]
      BY <1>1, <1>2, <3>2 DEF Inv, OneOwner
    <3>5. \A x \in lost' : answers'[x] # -1
      BY <1>1, <3>1 DEF Inv, TypeInv, OneOwner
    <3>6. QED
      BY <1>1, <1>2, <2>1, <3>3, <3>4, <3>5 DEF Inv, OneOwner
  <2>6. QED
    BY <2>2, <2>3, <2>4, <2>5 DEF Inv
<1>5. QED
  BY <1>3, <1>4

(* After the deletion: the request is lost, answered or not, and nobody    *)
(* else had it.                                                            *)
LEMMA EnqueueDeletedInv ==
    ASSUME Inv, EnqueueDeleted
    PROVE  Inv'
<1>1. /\ deleted /\ epc \in Requests /\ epc' \in {"idle", "stuck"}
      /\ lost' = lost \cup {epc}
      /\ answers' = answers \/ answers' = [answers EXCEPT ![epc] = 1]
      /\ UNCHANGED <<queue, running, numThreads, wpc, item, gencb, main, deleted, late>>
  BY DEF EnqueueDeleted
<1>2. "idle" \notin Requests /\ "stuck" \notin Requests
  BY RequestsAssumption
<1>3. TypeInv'
  BY <1>1 DEF Inv, TypeInv
<1>4. CountExact'
  BY <1>1 DEF CountExact
<1>5. Stages'
  BY <1>1 DEF Inv, Stages, Exited
<1>6. OneOwner'
  <2>1. /\ answers[epc] = 0 /\ answers'[epc] \in {0, 1}
        /\ \A x \in Requests : x # epc => answers'[x] = answers[x]
        /\ ~InQueue(epc) /\ \A v \in Workers : item[v] # epc
    BY <1>1 DEF Inv, TypeInv, OneOwner
  <2>2. \A x : InQueue(x)' <=> InQueue(x)
    BY <1>1 DEF InQueue
  <2>3. \A x \in Requests : answers'[x] = 0 /\ x \notin lost' <=>
           epc' = x \/ InQueue(x)' \/ \E v \in Workers : item'[v] = x
    BY <1>1, <1>2, <2>1, <2>2 DEF Inv, OneOwner
  <2>4. \A v \in Workers : item'[v] \in Requests => ~InQueue(item[v])' /\ epc' # item'[v]
    BY <1>1, <1>2, <2>2 DEF Inv, OneOwner
  <2>5. \A x \in lost' : answers'[x] # -1
    BY <1>1, <2>1 DEF Inv, TypeInv, OneOwner
  <2>6. QED
    BY <1>1, <1>2, <2>3, <2>4, <2>5 DEF Inv, OneOwner
<1>7. QED
  BY <1>3, <1>4, <1>5, <1>6 DEF Inv

(* A worker that comes to a deleted queue has no request.                  *)
LEMMA UseDeletedInv ==
    ASSUME Inv, NEW w \in Workers, deleted, UseDeleted(w)
    PROVE  Inv'
<1>1. /\ wpc' = [wpc EXCEPT ![w] = "undefined"] /\ late' = late \cup {w}
      /\ UNCHANGED <<queue, running, numThreads, item, answers, gencb, epc, main, deleted, lost>>
  BY DEF UseDeleted
<1>2. TypeInv'
  BY <1>1 DEF Inv, TypeInv
<1>3. CountExact'
  BY <1>1 DEF CountExact
<1>4. Stages'
  BY <1>1 DEF Inv, TypeInv, Stages, Exited
<1>5. wpc[w] # "work"
  BY DEF Inv, Stages, Exited
<1>6. OneOwner'
  BY <1>1, <1>5, OwnersKept DEF Inv, TypeInv
<1>7. QED
  BY <1>2, <1>3, <1>4, <1>6 DEF Inv

-----------------------------------------------------------------------------
(* The main thread.                                                        *)

(* WaitExit goes on when the count is zero, and then every worker ended or *)
(* has not come yet.                                                       *)
LEMMA AllEnded ==
    ASSUME Inv, ~deleted, ~(numThreads > 0)
    PROVE  \A w \in Workers : wpc[w] \in {"starting", "ended"}
<1>1. Cardinality(Counted) = 0
  BY CountedFinite, FS_CardinalityType DEF Inv, CountExact
<1>2. Counted = {}
  BY <1>1, CountedFinite, FS_EmptySet
<1>3. QED
  BY <1>2 DEF Counted

LEMMA MainInv ==
    ASSUME Inv, SetRejectCallback \/ Interrupt \/ WaitExit \/ SpuriousExit
    PROVE  Inv'
<1>1. UNCHANGED <<queue, numThreads, item, answers, epc, deleted, late, lost>>
  BY DEF SetRejectCallback, Interrupt, WaitExit, SpuriousExit
<1>2. /\ wpc' \in [Workers -> {"starting", "head", "enter", "woken", "wait", "work", "leave", "ended", "undefined"}]
      /\ \A w \in Workers : wpc'[w] = wpc[w] \/ (wpc[w] = "wait" /\ wpc'[w] = "woken")
  BY DEF SetRejectCallback, Interrupt, WaitExit, SpuriousExit, NotifyAll, Inv, TypeInv
<1>3. TypeInv'
  BY <1>1, <1>2 DEF Inv, TypeInv, SetRejectCallback, Interrupt, WaitExit, SpuriousExit
<1>4. CountExact'
  <2>1. Counted' = Counted
    BY <1>2 DEF Counted
  <2>2. QED
    BY <1>1, <2>1, CountKept DEF Inv
<1>5. Stages'
  <2>1. CASE SetRejectCallback
    BY <2>1 DEF SetRejectCallback, Inv, Stages, Exited
  <2>2. CASE Interrupt
    BY <1>2, <2>2 DEF Interrupt, Inv, Stages, Exited
  <2>3. CASE WaitExit
    BY <2>3, AllEnded DEF WaitExit, Inv, Stages, Exited
  <2>4. CASE SpuriousExit
    BY <2>4 DEF SpuriousExit, Inv, Stages, Exited
  <2>5. QED
    BY <2>1, <2>2, <2>3, <2>4
<1>6. OneOwner'
  BY <1>1, <1>2, OwnersKept DEF Inv
<1>7. QED
  BY <1>3, <1>4, <1>5, <1>6 DEF Inv

(* Deleting the queue answers what is left in it; no worker holds a        *)
(* request then, and the event thread may.                                 *)
LEMMA DeleteInv ==
    ASSUME Inv, DeleteQueue
    PROVE  Inv'
<1>1. /\ main = "delete" /\ main' = "break" /\ deleted' = TRUE
      /\ answers' = [r \in Requests |-> answers[r] + (IF InQueue(r) THEN 1 ELSE 0)]
      /\ queue' = <<>>
      /\ UNCHANGED <<running, numThreads, wpc, item, gencb, epc, late, lost>>
  BY DEF DeleteQueue, Contains, InQueue
<1>2. \A w \in Workers : wpc[w] # "work" /\ item[w] \notin Requests
  BY <1>1 DEF Inv, Stages, Exited, OneOwner
<1>3. \A r \in Requests : InQueue(r) => answers[r] = 0 /\ epc # r
  BY DEF Inv, OneOwner
<1>4. \A r \in Requests : /\ answers[r] \in {-1, 0, 1}
                          /\ answers[r] = 0 /\ r \notin lost <=> epc = r \/ InQueue(r)
  BY <1>2 DEF Inv, TypeInv, OneOwner
<1>5. \A r \in Requests : answers'[r] = IF InQueue(r) THEN 1 ELSE answers[r]
  BY <1>1, <1>3, <1>4
<1>6. TypeInv'
  <2>1. <<>> \in Seq(Requests)
    OBVIOUS
  <2>2. answers' \in [Requests -> {-1, 0, 1}]
    BY <1>1, <1>4, <1>5
  <2>3. QED
    BY <1>1, <2>1, <2>2 DEF Inv, TypeInv
<1>7. CountExact'
  BY <1>1 DEF CountExact
<1>8. Stages'
  BY <1>1 DEF Inv, Stages, Exited
<1>9. OneOwner'
  <2>1. Len(queue') = 0
    BY <1>1
  <2>2. \A r : ~InQueue(r)'
    BY <2>1 DEF InQueue
  <2>3. \A i \in 1 .. Len(queue') : FALSE
    BY <2>1
  <2>4. \A r \in Requests : answers'[r] = 0 /\ r \notin lost' <=> epc = r
    BY <1>1, <1>3, <1>4, <1>5
  <2>5. \A r \in lost' : answers'[r] # -1
    BY <1>1, <1>5 DEF Inv, TypeInv, OneOwner
  <2>6. QED
    BY <1>1, <1>2, <2>2, <2>3, <2>4, <2>5 DEF OneOwner
<1>10. QED
  BY <1>6, <1>7, <1>8, <1>9 DEF Inv

LEMMA EndInv ==
    ASSUME Inv, EndEventLoop
    PROVE  Inv'
<1>1. /\ main = "break" /\ epc = "idle" /\ main' = "end" /\ epc' = "ended"
      /\ UNCHANGED <<queue, running, numThreads, wpc, item, answers, gencb, deleted, late, lost>>
  BY DEF EndEventLoop
<1>2. "idle" \notin Requests /\ "ended" \notin Requests
  BY RequestsAssumption
<1>3. TypeInv'
  BY <1>1 DEF Inv, TypeInv
<1>4. CountExact'
  <2>1. Counted' = Counted
    BY <1>1 DEF Counted
  <2>2. QED
    BY <1>1, <2>1, CountKept DEF Inv
<1>5. Stages'
  BY <1>1, <1>2 DEF Inv, Stages, Exited
<1>6. OneOwner'
  <2>1. \A x : InQueue(x)' <=> InQueue(x)
    BY <1>1 DEF InQueue
  <2>2. QED
    BY <1>1, <1>2, <2>1 DEF Inv, OneOwner
<1>7. QED
  BY <1>3, <1>4, <1>5, <1>6 DEF Inv

-----------------------------------------------------------------------------
LEMMA NextInv == Inv /\ [Next]_vars => Inv'
<1> SUFFICES ASSUME Inv, [Next]_vars PROVE Inv'
  OBVIOUS
<1>1. ASSUME NEW w \in Workers, TestRunning(w) \/ SpuriousWakeup(w) PROVE Inv'
  BY <1>1, MoveInv DEF TestRunning, SpuriousWakeup
<1>2. ASSUME NEW w \in Workers, WorkerStep(w) PROVE Inv'
  BY <1>1, <1>2, StartInv, TakeInv, WorkInv, LeaveInv, UseDeletedInv DEF WorkerStep
<1>3. CASE StopStep
  BY <1>3, MainInv, DeleteInv, EndInv DEF StopStep
<1>4. CASE UNCHANGED vars
  <2>1. UNCHANGED <<queue, running, numThreads, wpc, item, answers, gencb, epc, main, deleted, late, lost>>
    BY <1>4 DEF vars
  <2>2. QED
    BY <2>1 DEF Inv, TypeInv, CountExact, Counted, Stages, Exited, OneOwner, InQueue
<1>5. QED
  BY <1>1, <1>2, <1>3, <1>4, RequestInv, EnqueueInv, EnqueueDeletedInv, MainInv DEF Next

(* The server stops in order: when WorkQueue's destructor runs, every      *)
(* worker that counted itself before WaitExit returned has left Run, no    *)
(* request is ever answered twice, and after the destructor the only       *)
(* requests without an answer are the one whose callback is on its way to  *)
(* the queue and those that came to it too late.                           *)
THEOREM StopsInOrder == Spec => []OrderlyStop
<1>1. Inv => OrderlyStop
  <2> SUFFICES ASSUME Inv PROVE OrderlyStop
    OBVIOUS
  <2>1. deleted => \A w \in Workers \ late : wpc[w] \in {"starting", "ended"}
    BY DEF Inv, Stages, Exited
  <2>2. \A r \in Requests : answers[r] <= 1
    <3>1. \A r \in Requests : answers[r] \in {-1, 0, 1}
      BY DEF Inv, TypeInv
    <3>2. QED
      BY <3>1
  <2>3. ASSUME deleted, NEW r \in Requests \ lost, answers[r] = 0 PROVE epc = r
    <3>1. queue = <<>> /\ \A w \in Workers : item[w] # r
      BY <2>3 DEF Inv, Stages, Exited, OneOwner
    <3>2. ~InQueue(r)
      <4>1. Len(queue) = 0
        BY <3>1
      <4>2. QED
        BY <4>1 DEF InQueue
    <3>3. QED
      BY <2>3, <3>1, <3>2 DEF Inv, OneOwner
  <2>4. QED
    BY <2>1, <2>2, <2>3 DEF OrderlyStop
<1>2. QED
  BY <1>1, InitInv, NextInv, PTL DEF Spec

=============================================================================
