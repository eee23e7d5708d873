--------------------------- MODULE ThreadPoolProofs ---------------------------
(***************************************************************************)
(* ThreadPool and executeAsyncTask on top of it, for any number of         *)
(* workers, submitters and tasks.  The pool: type correctness, no task     *)
(* lost or run twice, the queue drained when the destructor returns, and   *)
(* the refinement of TaskExecution.  The calls: a worker never touches the *)
(* frame of a call that has returned.                                      *)
(***************************************************************************)
EXTENDS ExecuteAsync, FiniteSetTheorems, TLAPS

\* A worker's thread function returns only when stop is set and the queue is
\* empty, and then the queue stays empty: enqueueTask may not run any more.
ExitedAfterDraining ==
  /\ \A w \in Workers : wpc[w] = "done" => stop /\ tasks = <<>>
  /\ dtor = "joined" => \A w \in Workers : wpc[w] = "done"

IInv == TypeOK /\ NoTaskLostOrRunTwice /\ ExitedAfterDraining

-----------------------------------------------------------------------------
(* The queue.                                                              *)

\* pop() removes the front and nothing else (std::queue::pop).
LEMMA PopFacts ==
  ASSUME NEW S, NEW q \in Seq(S), q # <<>>
  PROVE  /\ Head(q) \in S
         /\ Pop(q) \in Seq(S)
         /\ Range(q) = {Head(q)} \cup Range(Pop(q))
         /\ DOMAIN Pop(q) = 1 .. Len(q) - 1
         /\ \A i \in DOMAIN Pop(q) : Pop(q)[i] = q[i + 1]
<1>1. Len(q) \in Nat /\ Len(q) > 0 /\ DOMAIN q = 1 .. Len(q) /\ Head(q) = q[1]
  OBVIOUS
<1>2. /\ Pop(q) \in Seq(S)
      /\ DOMAIN Pop(q) = 1 .. Len(q) - 1
      /\ \A i \in DOMAIN Pop(q) : Pop(q)[i] = q[i + 1]
  BY DEF Pop
<1>3. Range(q) = {Head(q)} \cup Range(Pop(q))
  <2>1. ASSUME NEW i \in DOMAIN q
        PROVE  q[i] \in {Head(q)} \cup Range(Pop(q))
    <3>1. CASE i = 1  BY <3>1, <1>1
    <3>2. CASE i # 1
      <4>1. i - 1 \in DOMAIN Pop(q) /\ (i - 1) + 1 = i
        BY <3>2, <1>1, <1>2
      <4>2. Pop(q)[i - 1] = q[i]
        BY <4>1, <1>2
      <4> QED  BY <4>1, <4>2 DEF Range
    <3> QED  BY <3>1, <3>2
  <2>2. Head(q) \in Range(q)  BY <1>1 DEF Range
  <2>3. ASSUME NEW i \in DOMAIN Pop(q)
        PROVE  Pop(q)[i] \in Range(q)
    <3>1. i + 1 \in DOMAIN q  BY <1>1, <1>2
    <3> QED  BY <3>1, <1>2 DEF Range
  <2> QED  BY <2>1, <2>2, <2>3 DEF Range
<1> QED  BY <1>1, <1>2, <1>3

\* emplace adds the task at the back (std::queue::emplace).
LEMMA AppendFacts ==
  ASSUME NEW S, NEW q \in Seq(S), NEW e \in S
  PROVE  /\ Append(q, e) \in Seq(S)
         /\ Range(Append(q, e)) = Range(q) \cup {e}
         /\ DOMAIN Append(q, e) = 1 .. Len(q) + 1
         /\ \A i \in DOMAIN q : Append(q, e)[i] = q[i]
         /\ Append(q, e)[Len(q) + 1] = e
<1>1. /\ Append(q, e) \in Seq(S)
      /\ DOMAIN q = 1 .. Len(q) /\ Len(q) \in Nat
      /\ DOMAIN Append(q, e) = 1 .. Len(q) + 1
      /\ \A i \in DOMAIN q : Append(q, e)[i] = q[i]
      /\ Append(q, e)[Len(q) + 1] = e
  OBVIOUS
<1>2. ASSUME NEW i \in DOMAIN Append(q, e)
      PROVE  Append(q, e)[i] \in Range(q) \cup {e}
  <2>1. CASE i = Len(q) + 1  BY <2>1, <1>1
  <2>2. CASE i # Len(q) + 1
    <3>1. i \in DOMAIN q  BY <2>2, <1>1
    <3> QED  BY <3>1, <1>1 DEF Range
  <2> QED  BY <2>1, <2>2
<1>3. ASSUME NEW i \in DOMAIN q PROVE q[i] \in Range(Append(q, e))
  <2>1. i \in DOMAIN Append(q, e)  BY <1>1
  <2> QED  BY <2>1, <1>1 DEF Range
<1>4. e \in Range(Append(q, e))
  <2>1. Len(q) + 1 \in DOMAIN Append(q, e)  BY <1>1
  <2> QED  BY <2>1, <1>1 DEF Range
<1> QED  BY <1>1, <1>2, <1>3, <1>4 DEF Range

-----------------------------------------------------------------------------
(* Type correctness.                                                       *)

LEMMA InitTypeOK == Init => TypeOK
<1> SUFFICES ASSUME Init PROVE TypeOK
  OBVIOUS
<1> USE DEF Init, WorkerStates, DtorStates
<1>1. stop \in BOOLEAN /\ terminated \in BOOLEAN /\ (stop <=> dtor # "live")
  BY Zenon
<1>2. /\ tasks \in Seq(Tasks)
      /\ queueMutex \in Workers \cup {NoThread}
      /\ wpc \in [Workers -> WorkerStates]
      /\ running \in [Workers -> Tasks \cup {NoTask}]
      /\ spc \in [Submitters -> {"idle", "notify"}]
      /\ dtor \in DtorStates
      /\ submitted \subseteq Tasks /\ finished \subseteq Tasks
  OBVIOUS
<1>3. /\ \A w \in Workers : wpc[w] \in {"test", "block"} <=> queueMutex = w
      /\ \A w \in Workers : running[w] # NoTask <=> wpc[w] = "run"
  BY PoolAssumption
<1> QED  BY <1>1, <1>2, <1>3, Zenon DEF TypeOK

LEMMA NextTypeOK == TypeOK /\ [Next]_vars => TypeOK'
<1> SUFFICES ASSUME TypeOK, [Next]_vars PROVE TypeOK'
  OBVIOUS
<1> USE PoolAssumption DEF TypeOK, WorkerStates, DtorStates
<1>1. ASSUME NEW s \in Submitters, NEW t \in Tasks, EnqueueTask(s, t)
      PROVE  TypeOK'
  BY <1>1, AppendFacts DEF EnqueueTask
<1>2. ASSUME NEW s \in Submitters, NotifyOne(s) PROVE TypeOK'
  <2>1. CASE UNCHANGED wpc  BY <1>2, <2>1 DEF NotifyOne
  <2>2. ASSUME NEW w \in Waiting, wpc' = [wpc EXCEPT ![w] = "lock"]
        PROVE  TypeOK'
    BY <1>2, <2>2 DEF NotifyOne, Waiting
  <2> QED  BY <1>2, <2>1, <2>2 DEF NotifyOne, WakeOne
<1>3. ASSUME NEW w \in Workers, Lock(w) PROVE TypeOK'
  BY <1>3 DEF Lock
<1>4. ASSUME NEW w \in Workers, TakeTask(w) PROVE TypeOK'
  <2>1. Head(tasks) \in Tasks /\ tasks' \in Seq(Tasks)
    BY <1>4, PopFacts DEF TakeTask
  <2> QED  BY <1>4, <2>1 DEF TakeTask
<1>5. ASSUME NEW w \in Workers, ExitWorker(w) PROVE TypeOK'
  BY <1>5 DEF ExitWorker
<1>6. ASSUME NEW w \in Workers, FindNothing(w) PROVE TypeOK'
  BY <1>6 DEF FindNothing
<1>7. ASSUME NEW w \in Workers, Block(w) PROVE TypeOK'
  BY <1>7 DEF Block
<1>8. ASSUME NEW w \in Workers, SpuriousWake(w) PROVE TypeOK'
  BY <1>8 DEF SpuriousWake
<1>9. ASSUME NEW w \in Workers, FinishTask(w) PROVE TypeOK'
  BY <1>9 DEF FinishTask, DropTask
<1>10. ASSUME NEW w \in Workers, TaskThrows(w) PROVE TypeOK'
  BY <1>10 DEF TaskThrows
<1>11. CASE SetStop  BY <1>11 DEF SetStop
<1>12. CASE NotifyAll  BY <1>12 DEF NotifyAll
<1>13. CASE JoinWorkers  BY <1>13 DEF JoinWorkers
<1>14. CASE UNCHANGED vars  BY <1>14 DEF vars
<1> QED
  BY <1>1, <1>2, <1>3, <1>4, <1>5, <1>6, <1>7, <1>8, <1>9, <1>10, <1>11,
     <1>12, <1>13, <1>14 DEF Next, WorkerStep, Destructor

\* The types hold in every reachable state, and with them that queueMutex is
\* held exactly by the worker between the wait predicate and the sleep.
THEOREM TypeCorrect == Spec => []TypeOK
BY InitTypeOK, NextTypeOK, PTL DEF Spec

-----------------------------------------------------------------------------
(* Conservation of tasks.                                                  *)

\* What the three steps that move a task do to the place it comes from and
\* the place it goes to: submission, start, end.
LEMMA EnqueueMoves ==
  ASSUME TypeOK, NoTaskLostOrRunTwice,
         NEW s \in Submitters, NEW t \in Tasks, EnqueueTask(s, t)
  PROVE  /\ Range(tasks)' = Range(tasks) \cup {t}
         /\ Active' = Active /\ finished' = finished
         /\ t \notin Range(tasks) \cup Active \cup finished
BY AppendFacts DEF EnqueueTask, Active, NoTaskLostOrRunTwice, TypeOK

LEMMA TakeMoves ==
  ASSUME TypeOK, NoTaskLostOrRunTwice, NEW w \in Workers, TakeTask(w)
  PROVE  /\ Head(tasks) \in Tasks /\ Head(tasks) \in Range(tasks)
         /\ Active' = Active \cup {Head(tasks)}
         /\ Range(tasks)' = Range(tasks) \ {Head(tasks)}
         /\ finished' = finished
<1> USE PoolAssumption
<1>1. tasks \in Seq(Tasks) /\ tasks # <<>> /\ tasks' = Pop(tasks)
  BY DEF TakeTask, TypeOK
<1>2. Head(tasks) \in Tasks /\ Head(tasks) # NoTask
  BY <1>1, PopFacts
<1>3. Head(tasks) \in Range(tasks)
  BY <1>1, PopFacts
<1>4. Head(tasks) \notin Range(tasks')
  <2> SUFFICES ASSUME NEW i \in DOMAIN Pop(tasks),
                      Pop(tasks)[i] = Head(tasks)
               PROVE  FALSE
    BY <1>1 DEF Range
  <2>1. /\ tasks[i + 1] = tasks[1] /\ i \in 1 .. Len(tasks) - 1
        /\ Len(tasks) \in Nat /\ DOMAIN tasks = 1 .. Len(tasks)
    BY <1>1, PopFacts
  <2>2. i + 1 \in DOMAIN tasks /\ 1 \in DOMAIN tasks /\ i + 1 # 1
    BY <2>1
  <2> QED  BY <2>1, <2>2 DEF NoTaskLostOrRunTwice
<1>5. Range(tasks)' = Range(tasks) \ {Head(tasks)}
  BY <1>1, <1>4, PopFacts
<1>6. Active' = Active \cup {Head(tasks)}
  <2>1. running[w] = NoTask /\ running \in [Workers -> Tasks \cup {NoTask}]
    BY DEF TakeTask, TypeOK
  <2>2. running' = [running EXCEPT ![w] = Head(tasks)]
    BY DEF TakeTask
  <2>3. \A v \in Workers : running'[v] = IF v = w THEN Head(tasks)
                                                  ELSE running[v]
    BY <2>1, <2>2
  <2> QED  BY <2>1, <2>3, <1>2 DEF Active
<1> QED  BY <1>2, <1>3, <1>5, <1>6 DEF TakeTask

LEMMA FinishMoves ==
  ASSUME TypeOK, NoTaskLostOrRunTwice, NEW w \in Workers, FinishTask(w)
  PROVE  /\ running[w] \in Active /\ running[w] \in Tasks
         /\ Active' = Active \ {running[w]}
         /\ finished' = finished \cup {running[w]}
         /\ tasks' = tasks
<1>1. /\ running[w] # NoTask
      /\ running \in [Workers -> Tasks \cup {NoTask}]
  BY DEF FinishTask, TypeOK
<1>2. running' = [running EXCEPT ![w] = NoTask]
  BY DEF FinishTask, DropTask
<1>3. \A v \in Workers : running'[v] = IF v = w THEN NoTask ELSE running[v]
  BY <1>1, <1>2
<1>4. \A v \in Workers : running[v] = running[w] => v = w
  BY <1>1 DEF NoTaskLostOrRunTwice
<1>5. Active' = Active \ {running[w]}
  BY <1>1, <1>3, <1>4 DEF Active
<1> QED  BY <1>1, <1>5 DEF FinishTask, Active

LEMMA NextNoTaskLost ==
  ASSUME TypeOK, NoTaskLostOrRunTwice, [Next]_vars
  PROVE  NoTaskLostOrRunTwice'
<1> USE PoolAssumption
<1>1. ASSUME NEW s \in Submitters, NEW t \in Tasks, EnqueueTask(s, t)
      PROVE  NoTaskLostOrRunTwice'
  <2>1. /\ Range(tasks)' = Range(tasks) \cup {t}
        /\ Active' = Active /\ finished' = finished
        /\ t \notin Range(tasks) \cup Active \cup finished
    BY <1>1, EnqueueMoves
  <2>2. submitted' = submitted \cup {t} /\ running' = running
    BY <1>1 DEF EnqueueTask
  <2>3. ASSUME NEW i \in DOMAIN tasks', NEW j \in DOMAIN tasks',
               tasks'[i] = tasks'[j]
        PROVE  i = j
    <3>1. /\ tasks \in Seq(Tasks) /\ tasks' = Append(tasks, t)
      BY <1>1 DEF EnqueueTask, TypeOK
    <3>2. /\ Len(tasks) \in Nat /\ DOMAIN tasks = 1 .. Len(tasks)
          /\ DOMAIN tasks' = 1 .. Len(tasks) + 1
          /\ \A k \in DOMAIN tasks : tasks'[k] = tasks[k] /\ tasks'[k] # t
          /\ tasks'[Len(tasks) + 1] = t
      BY <2>1, <3>1, AppendFacts DEF Range
    <3>3. (i \in DOMAIN tasks \/ i = Len(tasks) + 1)
          /\ (j \in DOMAIN tasks \/ j = Len(tasks) + 1)
      BY <3>2
    <3>4. \A k, l \in DOMAIN tasks : tasks[k] = tasks[l] => k = l
      BY DEF NoTaskLostOrRunTwice
    <3> QED  BY <2>3, <3>2, <3>3, <3>4
  <2> QED  BY <2>1, <2>2, <2>3 DEF NoTaskLostOrRunTwice
<1>2. ASSUME NEW w \in Workers, TakeTask(w) PROVE NoTaskLostOrRunTwice'
  <2>1. /\ Head(tasks) \in Tasks /\ Head(tasks) \in Range(tasks)
        /\ Active' = Active \cup {Head(tasks)}
        /\ Range(tasks)' = Range(tasks) \ {Head(tasks)}
        /\ finished' = finished
    BY <1>2, TakeMoves
  <2>2. submitted' = submitted
    BY <1>2 DEF TakeTask
  <2>3. \A i, j \in DOMAIN tasks' : tasks'[i] = tasks'[j] => i = j
    <3>1. tasks \in Seq(Tasks) /\ tasks # <<>> /\ tasks' = Pop(tasks)
      BY <1>2 DEF TakeTask, TypeOK
    <3>2. /\ Len(tasks) \in Nat /\ DOMAIN tasks = 1 .. Len(tasks)
          /\ DOMAIN tasks' = 1 .. Len(tasks) - 1
          /\ \A i \in DOMAIN tasks' : tasks'[i] = tasks[i + 1]
      BY <3>1, PopFacts
    <3>3. \A i, j \in DOMAIN tasks : tasks[i] = tasks[j] => i = j
      BY DEF NoTaskLostOrRunTwice
    <3> QED  BY <3>2, <3>3
  <2>4. ASSUME NEW u \in Workers, NEW v \in Workers,
               running'[u] = running'[v], running'[u] # NoTask
        PROVE  u = v
    <3>1. \A x \in Workers : running'[x] = IF x = w THEN Head(tasks)
                                                    ELSE running[x]
      BY <1>2 DEF TakeTask, TypeOK
    <3>2. \A x \in Workers : running[x] # Head(tasks)
      BY <2>1 DEF NoTaskLostOrRunTwice, Active
    <3>3. \A x, y \in Workers :
            running[x] = running[y] /\ running[x] # NoTask => x = y
      BY DEF NoTaskLostOrRunTwice
    <3> QED  BY <2>4, <3>1, <3>2, <3>3
  <2> QED  BY <2>1, <2>2, <2>3, <2>4 DEF NoTaskLostOrRunTwice
<1>3. ASSUME NEW w \in Workers, FinishTask(w) PROVE NoTaskLostOrRunTwice'
  <2>1. /\ running[w] \in Active
        /\ Active' = Active \ {running[w]}
        /\ finished' = finished \cup {running[w]}
        /\ tasks' = tasks /\ submitted' = submitted
    BY <1>3, FinishMoves DEF FinishTask
  <2>2. \A x \in Workers : running'[x] = IF x = w THEN NoTask
                                                  ELSE running[x]
    BY <1>3 DEF FinishTask, DropTask, TypeOK
  <2> QED  BY <2>1, <2>2 DEF NoTaskLostOrRunTwice
<1>4. CASE UNCHANGED <<tasks, running, submitted, finished>>
  BY <1>4 DEF NoTaskLostOrRunTwice, Active
<1>5. \/ \E s \in Submitters, t \in Tasks : EnqueueTask(s, t)
      \/ \E w \in Workers : TakeTask(w) \/ FinishTask(w)
      \/ UNCHANGED <<tasks, running, submitted, finished>>
  BY DEF Next, vars, WorkerStep, Destructor, NotifyOne, Lock, ExitWorker,
         FindNothing, Block, SpuriousWake, TaskThrows, SetStop, NotifyAll,
         JoinWorkers
<1> QED  BY <1>1, <1>2, <1>3, <1>4, <1>5

LEMMA InitNoTaskLost == Init => NoTaskLostOrRunTwice
BY DEF Init, NoTaskLostOrRunTwice, Range, Active

\* Between enqueueTask and the end of its body, a task is in the queue once
\* or in the hands of one worker: the front()/pop() under queueMutex neither
\* loses nor duplicates any.
THEOREM TasksConserved == Spec => []NoTaskLostOrRunTwice
<1>1. TypeOK /\ NoTaskLostOrRunTwice /\ [Next]_vars => NoTaskLostOrRunTwice'
  BY NextNoTaskLost
<1> QED  BY <1>1, InitNoTaskLost, TypeCorrect, PTL DEF Spec

-----------------------------------------------------------------------------
(* The destructor.                                                         *)

LEMMA NextExitedAfterDraining ==
  ASSUME TypeOK, ExitedAfterDraining, [Next]_vars
  PROVE  ExitedAfterDraining'
<1> USE DEF TypeOK, WorkerStates
<1>1. ASSUME NEW s \in Submitters, NEW t \in Tasks, EnqueueTask(s, t)
      PROVE  ExitedAfterDraining'
  <2>1. ~stop /\ dtor' = dtor /\ dtor = "live" /\ wpc' = wpc
    BY <1>1 DEF EnqueueTask
  <2>2. \A w \in Workers : wpc[w] # "done"
    BY <2>1 DEF ExitedAfterDraining
  <2> QED  BY <2>1, <2>2 DEF ExitedAfterDraining
<1>2. ASSUME NEW w \in Workers, TakeTask(w) PROVE ExitedAfterDraining'
  <2>1. wpc[w] # "done" /\ tasks # <<>> /\ dtor' = dtor
    BY <1>2 DEF TakeTask
  <2>2. \A v \in Workers : wpc[v] # "done"
    BY <2>1 DEF ExitedAfterDraining
  <2>3. \A v \in Workers : wpc'[v] # "done"
    BY <1>2, <2>2 DEF TakeTask
  <2>4. dtor # "joined"
    BY <2>1 DEF ExitedAfterDraining
  <2> QED  BY <2>1, <2>3, <2>4 DEF ExitedAfterDraining
<1>3. ASSUME NEW w \in Workers, ExitWorker(w) PROVE ExitedAfterDraining'
  <2>1. /\ stop' /\ tasks' = <<>> /\ dtor' = dtor
        /\ \A v \in Workers : wpc[v] = "done" => wpc'[v] = "done"
    BY <1>3 DEF ExitWorker, MayExit
  <2> QED  BY <2>1 DEF ExitedAfterDraining
<1>4. ASSUME /\ tasks' = tasks /\ stop' = stop /\ dtor' = dtor
             /\ \A w \in Workers : wpc'[w] = "done" <=> wpc[w] = "done"
      PROVE  ExitedAfterDraining'
  BY <1>4 DEF ExitedAfterDraining
<1>5. ASSUME NEW s \in Submitters, NotifyOne(s) PROVE ExitedAfterDraining'
  BY <1>4, <1>5 DEF NotifyOne, WakeOne, Waiting
<1>6. ASSUME NEW w \in Workers,
             \/ Lock(w) \/ FindNothing(w) \/ Block(w) \/ SpuriousWake(w)
             \/ FinishTask(w) \/ TaskThrows(w)
      PROVE  ExitedAfterDraining'
  BY <1>4, <1>6 DEF Lock, FindNothing, Block, SpuriousWake, FinishTask,
                    TaskThrows
<1>7. CASE SetStop
  <2>1. stop' /\ tasks' = tasks /\ wpc' = wpc /\ dtor' = "notify"
    BY <1>7 DEF SetStop
  <2> QED  BY <2>1 DEF ExitedAfterDraining
<1>8. CASE NotifyAll
  <2>1. /\ stop' = stop /\ tasks' = tasks /\ dtor' = "join"
        /\ \A w \in Workers : wpc'[w] = "done" <=> wpc[w] = "done"
    BY <1>8 DEF NotifyAll
  <2> QED  BY <2>1 DEF ExitedAfterDraining
<1>9. CASE JoinWorkers
  BY <1>9 DEF JoinWorkers, JoinedAll, ExitedAfterDraining
<1>10. CASE UNCHANGED vars
  BY <1>10 DEF vars, ExitedAfterDraining
<1> QED
  BY <1>1, <1>2, <1>3, <1>5, <1>6, <1>7, <1>8, <1>9, <1>10
     DEF Next, WorkerStep, Destructor

LEMMA Invariance == Spec => []IInv
<1>1. Init => ExitedAfterDraining
  BY DEF Init, ExitedAfterDraining
<1>2. TypeOK /\ ExitedAfterDraining /\ [Next]_vars => ExitedAfterDraining'
  BY NextExitedAfterDraining
<1> QED  BY <1>1, <1>2, TypeCorrect, TasksConserved, PTL DEF Spec, IInv

\* When no worker is left to run it, a queue that some worker has exited
\* from holds nothing and nothing is active.
LEMMA AllExitedDrained ==
  ASSUME IInv, Workers # {}, JoinedAll
  PROVE  tasks = <<>> /\ Active = {} /\ finished = submitted
<1>1. tasks = <<>>
  BY DEF IInv, ExitedAfterDraining, JoinedAll
<1>2. Active = {}
  BY DEF IInv, TypeOK, JoinedAll, Active
<1>3. Range(tasks) = {}
  BY <1>1 DEF Range
<1> QED  BY <1>1, <1>2, <1>3 DEF IInv, NoTaskLostOrRunTwice

\* Setting stop discards no task (the queue is drained before a worker
\* returns, utils.cpp:75): after the joins everything submitted has run.  The
\* pool needs a worker for that; hardware_concurrency() may return 0.
THEOREM DestructorDrains ==
  ASSUME Workers # {}
  PROVE  Spec => []DrainedWhenJoined
<1>1. IInv => DrainedWhenJoined
  <2> SUFFICES ASSUME IInv, dtor = "joined"
               PROVE  tasks = <<>> /\ Active = {} /\ finished = submitted
    BY DEF DrainedWhenJoined
  <2>1. JoinedAll  BY DEF IInv, ExitedAfterDraining, JoinedAll
  <2> QED  BY <2>1, AllExitedDrained
<1> QED  BY <1>1, Invariance, PTL

-----------------------------------------------------------------------------
(* Wakeups: a task is matched by a worker that comes to the predicate or   *)
(* by a notification that is still to be sent.                             *)

\* Between the predicate and the sleep nobody enqueues: the mutex is held.
BlockedOnEmpty == \A w \in Workers : wpc[w] = "block" => tasks = <<>>

LEMMA NextBlockedOnEmpty ==
  ASSUME TypeOK, BlockedOnEmpty, [Next]_vars
  PROVE  BlockedOnEmpty'
<1> USE DEF BlockedOnEmpty
<1>1. ASSUME NEW s \in Submitters, NEW t \in Tasks, EnqueueTask(s, t)
      PROVE  BlockedOnEmpty'
  <2>1. \A w \in Workers : wpc[w] # "block"
    BY <1>1, PoolAssumption DEF EnqueueTask, TypeOK
  <2> QED  BY <1>1, <2>1 DEF EnqueueTask
<1>2. ASSUME NEW w \in Workers, TakeTask(w) PROVE BlockedOnEmpty'
  <2>1. \A v \in Workers : v # w => wpc[v] # "block"
    BY <1>2 DEF TakeTask, TypeOK
  <2>2. wpc' = [wpc EXCEPT ![w] = "run"]  BY <1>2 DEF TakeTask
  <2> QED  BY <2>1, <2>2 DEF TypeOK
<1>3. ASSUME NEW w \in Workers,
             Lock(w) \/ ExitWorker(w) \/ FindNothing(w) \/ Block(w)
               \/ SpuriousWake(w) \/ FinishTask(w)
      PROVE  BlockedOnEmpty'
  BY <1>3 DEF Lock, ExitWorker, FindNothing, Block, SpuriousWake, FinishTask, TypeOK
<1>4. ASSUME NEW s \in Submitters, NotifyOne(s) PROVE BlockedOnEmpty'
  BY <1>4 DEF NotifyOne, WakeOne, Waiting, TypeOK
<1>5. ASSUME NEW w \in Workers, TaskThrows(w) PROVE BlockedOnEmpty'
  BY <1>5 DEF TaskThrows
<1>6. CASE Destructor
  BY <1>6 DEF Destructor, SetStop, NotifyAll, JoinWorkers
<1>7. CASE UNCHANGED vars  BY <1>7 DEF vars
<1> QED
  BY <1>1, <1>2, <1>3, <1>4, <1>5, <1>6, <1>7 DEF Next, WorkerStep

\* How the two sets grow and shrink by one.
LEMMA CountsFinite ==
  /\ IsFiniteSet(Awake) /\ Cardinality(Awake) \in Nat
  /\ IsFiniteSet(Notifying) /\ Cardinality(Notifying) \in Nat
<1>1. Awake \subseteq Workers /\ Notifying \subseteq Submitters
  BY DEF Awake, Notifying
<1> QED  BY <1>1, PoolAssumption, FS_Subset, FS_CardinalityType

LEMMA NextNoLostWakeup ==
  ASSUME TypeOK, BlockedOnEmpty, NoLostWakeup, [Next]_vars
  PROVE  NoLostWakeup'
<1> DEFINE a == Cardinality(Awake)
           n == Cardinality(Notifying)
<1>0. Len(tasks) \in Nat /\ a \in Nat /\ n \in Nat
  BY CountsFinite DEF TypeOK
<1>1. ASSUME NEW s \in Submitters, NEW t \in Tasks, EnqueueTask(s, t)
      PROVE  NoLostWakeup'
  <2>1. Notifying' = Notifying \cup {s} /\ s \notin Notifying
    BY <1>1 DEF EnqueueTask, Notifying, TypeOK
  <2>2. n' = n + 1  BY <2>1, CountsFinite, FS_AddElement
  <2>3. Awake' = Awake /\ Waiting' = Waiting
    BY <1>1 DEF EnqueueTask, Awake, Waiting
  <2>4. Len(tasks') = Len(tasks) + 1  BY <1>1 DEF EnqueueTask, TypeOK
  <2> QED  BY <1>0, <2>2, <2>3, <2>4 DEF NoLostWakeup
<1>2. ASSUME NEW s \in Submitters, NotifyOne(s) PROVE NoLostWakeup'
  <2>1. Notifying' = Notifying \ {s} /\ s \in Notifying
    BY <1>2 DEF NotifyOne, Notifying, TypeOK
  <2>2. n' = n - 1  BY <2>1, CountsFinite, FS_RemoveElement
  <2>3. tasks' = tasks  BY <1>2 DEF NotifyOne
  <2>4. ASSUME NEW w \in Waiting, wpc' = [wpc EXCEPT ![w] = "lock"]
        PROVE  NoLostWakeup'
    <3>1. Awake' = Awake \cup {w} /\ w \notin Awake
      BY <2>4 DEF Awake, Waiting, TypeOK
    <3>2. a' = a + 1  BY <3>1, CountsFinite, FS_AddElement
    <3> QED  BY <1>0, <2>2, <2>3, <2>4, <3>2 DEF NoLostWakeup
  <2>5. CASE Waiting = {} /\ UNCHANGED wpc
    BY <2>5 DEF NoLostWakeup, Waiting
  <2> QED  BY <1>2, <2>4, <2>5 DEF NotifyOne, WakeOne
<1>3. ASSUME NEW w \in Workers, Lock(w) PROVE NoLostWakeup'
  <2>1. Awake' = Awake /\ Waiting' = Waiting
    BY <1>3 DEF Lock, Awake, Waiting, TypeOK
  <2> QED  BY <1>3, <2>1 DEF Lock, NoLostWakeup, Notifying
<1>4. ASSUME NEW w \in Workers, TakeTask(w) PROVE NoLostWakeup'
  <2>1. Awake' = Awake \ {w} /\ w \in Awake /\ Waiting' = Waiting
    BY <1>4 DEF TakeTask, Awake, Waiting, TypeOK
  <2>2. a' = a - 1  BY <2>1, CountsFinite, FS_RemoveElement
  <2>3. Len(tasks') = Len(tasks) - 1  BY <1>4 DEF TakeTask, Pop, TypeOK
  <2>4. Notifying' = Notifying  BY <1>4 DEF TakeTask, Notifying
  <2> QED  BY <1>0, <2>1, <2>2, <2>3, <2>4 DEF NoLostWakeup
<1>5. ASSUME NEW w \in Workers, ExitWorker(w) \/ FindNothing(w) \/ Block(w)
      PROVE  NoLostWakeup'
  <2>1. tasks' = <<>>
    BY <1>5 DEF ExitWorker, MayExit, FindNothing, Block, BlockedOnEmpty
  <2>2. a' \in Nat /\ n' \in Nat
    <3>1. Awake' \subseteq Workers /\ Notifying' \subseteq Submitters
      BY DEF Awake, Notifying
    <3> QED  BY <3>1, PoolAssumption, FS_Subset, FS_CardinalityType
  <2> QED  BY <2>1, <2>2 DEF NoLostWakeup
<1>6. ASSUME NEW w \in Workers, SpuriousWake(w) \/ FinishTask(w)
      PROVE  NoLostWakeup'
  <2>1. Awake' = Awake \cup {w} /\ w \notin Awake
    BY <1>6 DEF SpuriousWake, FinishTask, Awake, TypeOK
  <2>2. a' = a + 1  BY <2>1, CountsFinite, FS_AddElement
  <2>3. Waiting' \subseteq Waiting /\ tasks' = tasks /\ Notifying' = Notifying
    BY <1>6 DEF SpuriousWake, FinishTask, Waiting, Notifying, TypeOK
  <2> QED  BY <1>0, <2>2, <2>3 DEF NoLostWakeup
<1>7. CASE NotifyAll
  <2>1. Waiting' = {}  BY <1>7 DEF NotifyAll, Waiting
  <2> QED  BY <2>1 DEF NoLostWakeup
<1>8. ASSUME UNCHANGED <<tasks, wpc, spc>> PROVE NoLostWakeup'
  BY <1>8 DEF NoLostWakeup, Awake, Waiting, Notifying
<1>9. ASSUME NEW w \in Workers, TaskThrows(w) PROVE NoLostWakeup'
  BY <1>8, <1>9 DEF TaskThrows
<1>10. CASE SetStop  BY <1>8, <1>10 DEF SetStop
<1>11. CASE JoinWorkers  BY <1>8, <1>11 DEF JoinWorkers
<1>12. CASE UNCHANGED vars  BY <1>8, <1>12 DEF vars
<1> QED
  BY <1>1, <1>2, <1>3, <1>4, <1>5, <1>6, <1>7, <1>9, <1>10, <1>11, <1>12
     DEF Next, WorkerStep, Destructor

\* enqueueTask notifies after the unlock (utils.cpp:62-66), and still no task
\* stays in the queue with every worker asleep and no notification to come.
THEOREM NoWakeupIsLost == Spec => []NoLostWakeup
<1>1. Init => BlockedOnEmpty /\ NoLostWakeup
  BY DEF Init, BlockedOnEmpty, NoLostWakeup, Waiting
<1>2. TypeOK /\ BlockedOnEmpty /\ NoLostWakeup /\ [Next]_vars
        => BlockedOnEmpty' /\ NoLostWakeup'
  BY NextBlockedOnEmpty, NextNoLostWakeup
<1> QED  BY <1>1, <1>2, TypeCorrect, PTL DEF Spec

-----------------------------------------------------------------------------
(* Refinement of TaskExecution.                                            *)

\* Every step of the pool is a step of the abstract executor, or none: the
\* only steps it sees are the enqueue, the pop, the return of a task's body
\* and the end of the destructor.
LEMMA NextRefines ==
  ASSUME Workers # {}, IInv, [Next]_vars
  PROVE  [Executor!Next]_(Executor!vars)
<1> USE DEF Executor!Next, Executor!vars
<1>1. ASSUME NEW s \in Submitters, NEW t \in Tasks, EnqueueTask(s, t)
      PROVE  Executor!Submit(t)
  <2>1. Active' = Active /\ finished' = finished
    BY <1>1, EnqueueMoves DEF IInv
  <2> QED  BY <1>1, <2>1 DEF EnqueueTask, Executor!Submit
<1>2. ASSUME NEW w \in Workers, TakeTask(w)
      PROVE  Executor!Start
  <2>1. /\ Head(tasks) \in Range(tasks)
        /\ Active' = Active \cup {Head(tasks)}
        /\ finished' = finished
    BY <1>2, TakeMoves DEF IInv
  <2>2. Head(tasks) \notin Active \cup finished
    BY <2>1 DEF IInv, NoTaskLostOrRunTwice
  <2> QED  BY <1>2, <2>1, <2>2 DEF TakeTask, Pop, Executor!Start
<1>3. ASSUME NEW w \in Workers, FinishTask(w)
      PROVE  \E t \in Tasks : Executor!End(t)
  <2>1. /\ running[w] \in Active /\ running[w] \in Tasks
        /\ Active' = Active \ {running[w]}
        /\ finished' = finished \cup {running[w]}
        /\ tasks' = tasks /\ dtor' = dtor
    BY <1>3, FinishMoves DEF IInv, FinishTask
  <2>2. Executor!End(running[w])
    BY <2>1 DEF Executor!End
  <2> QED  BY <2>1, <2>2
<1>4. CASE JoinWorkers
  <2>1. tasks = <<>> /\ Active = {}
    BY <1>4, AllExitedDrained DEF JoinWorkers
  <2>2. Active' = Active /\ tasks' = tasks /\ finished' = finished
    BY <1>4 DEF JoinWorkers, Active
  <2>3. Executor!Close
    BY <1>4, <2>1, <2>2 DEF JoinWorkers, Executor!Close
  <2> QED  BY <2>3
<1>5. ASSUME UNCHANGED <<tasks, running, finished>>,
             (dtor = "joined") = (dtor' = "joined")
      PROVE  UNCHANGED Executor!vars
  BY <1>5 DEF Active
<1>6. ASSUME NEW s \in Submitters, NotifyOne(s) PROVE UNCHANGED Executor!vars
  BY <1>5, <1>6 DEF NotifyOne
<1>7. ASSUME NEW w \in Workers,
             \/ Lock(w) \/ ExitWorker(w) \/ FindNothing(w) \/ Block(w)
             \/ SpuriousWake(w) \/ TaskThrows(w)
      PROVE  UNCHANGED Executor!vars
  BY <1>5, <1>7 DEF Lock, ExitWorker, FindNothing, Block, SpuriousWake,
                    TaskThrows
<1>8. CASE SetStop \/ NotifyAll
  BY <1>5, <1>8 DEF SetStop, NotifyAll
<1>9. CASE UNCHANGED vars
  BY <1>5, <1>9 DEF vars
<1> QED
  BY <1>1, <1>2, <1>3, <1>4, <1>6, <1>7, <1>8, <1>9
     DEF Next, WorkerStep, Destructor

\* The pool is a first-in first-out executor that starts each task once and
\* closes only after all have ended.
THEOREM PoolImplementsExecutor ==
  ASSUME Workers # {}
  PROVE  Spec => ImplementsExecutor
<1>1. Init => Executor!Init
  BY DEF Init, Executor!Init, Active
<1>2. IInv /\ [Next]_vars => [Executor!Next]_(Executor!vars)
  BY NextRefines
<1> QED  BY <1>1, <1>2, Invariance, PTL
            DEF Spec, ImplementsExecutor, Executor!Spec

-----------------------------------------------------------------------------
(* executeAsyncTask.                                                       *)

\* Only a closure that has been taken from the queue can have its value.
FulfilledTaken == fulfilled \subseteq Active \cup finished

XInv ==
  /\ TypeOK /\ NoTaskLostOrRunTwice
  /\ awaiting \in [Submitters -> Tasks \cup {NoTask}]
  /\ FulfilledTaken /\ FrameAlive /\ NothingToDrain

LEMMA NextXIsPoolStep == [NextX]_allVars => [Next]_vars
BY DEF NextX, Next, Call, SetValue, EndCall, CallThrows, GetResult,
       BeginDestruction, PoolStep, Notify, FinishDestruction, Destructor,
       WorkerStep, allVars, vars

LEMMA InitXInv == InitX => XInv
<1> SUFFICES ASSUME InitX PROVE XInv
  OBVIOUS
<1>1. TypeOK /\ NoTaskLostOrRunTwice
  BY InitTypeOK, InitNoTaskLost DEF InitX
<1>2. Range(tasks) = {} /\ Active = {} /\ ~stop
  BY DEF InitX, Init, Range, Active
<1> QED
  BY <1>1, <1>2 DEF InitX, XInv, FulfilledTaken, FrameAlive, NothingToDrain

LEMMA NextXInv ==
  ASSUME XInv, [NextX]_allVars
  PROVE  XInv'
<1> USE PoolAssumption
<1>1. TypeOK' /\ NoTaskLostOrRunTwice'
  BY NextXIsPoolStep, NextTypeOK, NextNoTaskLost DEF XInv
<1>2. /\ awaiting \in [Submitters -> Tasks \cup {NoTask}]
      /\ TypeOK /\ NoTaskLostOrRunTwice
  BY DEF XInv
<1> DEFINE Rest == /\ awaiting' \in [Submitters -> Tasks \cup {NoTask}]
                   /\ FulfilledTaken' /\ FrameAlive' /\ NothingToDrain'
<1>3. ASSUME NEW s \in Submitters, NEW t \in Tasks, Call(s, t)
      PROVE  Rest
  <2>1. /\ Range(tasks)' = Range(tasks) \cup {t}
        /\ Active' = Active /\ finished' = finished
    BY <1>2, <1>3, EnqueueMoves DEF Call
  <2>2. /\ awaiting' = [awaiting EXCEPT ![s] = t] /\ awaiting[s] = NoTask
        /\ fulfilled' = fulfilled
    BY <1>3 DEF Call
  <2>3. /\ awaiting' \in [Submitters -> Tasks \cup {NoTask}]
        /\ awaiting'[s] = t
        /\ \A r \in Submitters : r # s => awaiting'[r] = awaiting[r]
    BY <1>2, <2>2
  <2>4. Awaited \ {NoTask} \subseteq Awaited' /\ t \in Awaited'
    BY <2>2, <2>3 DEF Awaited
  <2>5. NoTask \notin Range(tasks) /\ NoTask \notin Active
    <3>1. NoTask \notin Range(tasks)
      BY <1>2 DEF TypeOK, Range
    <3> QED  BY <3>1 DEF Active
  <2>6. FrameAlive'
    BY <2>1, <2>2, <2>4, <2>5 DEF XInv, FrameAlive
  <2>7. ~stop'
    BY <1>2, <1>3 DEF Call, EnqueueTask, TypeOK
  <2> QED
    BY <2>1, <2>2, <2>3, <2>6, <2>7 DEF XInv, FulfilledTaken, NothingToDrain
<1>4. ASSUME NEW w \in Workers, TakeTask(w), UNCHANGED xvars PROVE Rest
  <2>1. /\ Head(tasks) \in Range(tasks)
        /\ Active' = Active \cup {Head(tasks)}
        /\ Range(tasks)' = Range(tasks) \ {Head(tasks)}
        /\ finished' = finished
    BY <1>2, <1>4, TakeMoves
  <2>2. ~stop'
    BY <1>4 DEF TakeTask, XInv, NothingToDrain
  <2> QED
    BY <1>2, <1>4, <2>1, <2>2
       DEF xvars, XInv, FulfilledTaken, FrameAlive, NothingToDrain, Awaited
<1>5. ASSUME NEW w \in Workers, SetValue(w) PROVE Rest
  <2>1. /\ fulfilled' = fulfilled \cup {running[w]}
        /\ awaiting' = awaiting /\ UNCHANGED vars
    BY <1>5 DEF SetValue
  <2>2. running[w] \in Active
    BY <1>2, <1>5 DEF SetValue, TypeOK, Active
  <2> QED
    BY <1>2, <2>1, <2>2
       DEF vars, XInv, FulfilledTaken, FrameAlive, NothingToDrain, Awaited,
           Active
<1>6. ASSUME NEW w \in Workers, EndCall(w) PROVE Rest
  <2>1. /\ Active' = Active \ {running[w]}
        /\ finished' = finished \cup {running[w]}
        /\ tasks' = tasks
    BY <1>2, <1>6, FinishMoves DEF EndCall
  <2>2. UNCHANGED xvars /\ stop' = stop
    BY <1>6 DEF EndCall, FinishTask
  <2> QED
    BY <1>2, <2>1, <2>2
       DEF xvars, XInv, FulfilledTaken, FrameAlive, NothingToDrain, Awaited
<1>7. ASSUME NEW s \in Submitters, GetResult(s) PROVE Rest
  <2>1. /\ awaiting' = [awaiting EXCEPT ![s] = NoTask]
        /\ awaiting[s] \in fulfilled
        /\ fulfilled' = fulfilled /\ UNCHANGED vars
    BY <1>7 DEF GetResult, Ready
  <2>2. Awaited \ {awaiting[s]} \subseteq Awaited'
    BY <1>2, <2>1 DEF Awaited
  <2>3. awaiting[s] \notin Range(tasks)
    BY <1>2, <2>1 DEF XInv, FulfilledTaken, NoTaskLostOrRunTwice
  <2>4. Range(tasks)' = Range(tasks) /\ Active' = Active
    BY <2>1 DEF vars, Active
  <2>5. FrameAlive'
    BY <2>1, <2>2, <2>3, <2>4 DEF XInv, FrameAlive
  <2> QED
    BY <1>2, <2>1, <2>4, <2>5
       DEF vars, XInv, FulfilledTaken, NothingToDrain
<1>8. ASSUME BeginDestruction PROVE Rest
  <2>1. /\ Awaited \subseteq {NoTask} /\ tasks' = tasks /\ running' = running
        /\ finished' = finished /\ UNCHANGED xvars
    BY <1>8 DEF BeginDestruction, NoCallRuns, SetStop, Awaited
  <2>2. NoTask \notin Range(tasks) /\ NoTask \notin Active
    <3>1. NoTask \notin Range(tasks)
      BY <1>2 DEF TypeOK, Range
    <3> QED  BY <3>1 DEF Active
  <2>3. Range(tasks) = {} /\ Active \subseteq fulfilled
    BY <2>1, <2>2 DEF XInv, FrameAlive
  <2>4. tasks = <<>>
    <3>1. tasks \in Seq(Tasks)  BY <1>2 DEF TypeOK
    <3>2. DOMAIN tasks = {}  BY <2>3 DEF Range
    <3> QED  BY <3>1, <3>2
  <2> QED
    BY <1>2, <2>1, <2>3, <2>4
       DEF xvars, XInv, FulfilledTaken, FrameAlive, NothingToDrain, Awaited,
           Active
<1>9. ASSUME UNCHANGED <<tasks, stop, running, finished, xvars>>
      PROVE  Rest
  BY <1>2, <1>9
     DEF xvars, XInv, FulfilledTaken, FrameAlive, NothingToDrain, Awaited,
         Active
<1>10. \/ \E s \in Submitters, t \in Tasks : Call(s, t)
       \/ \E w \in Workers : TakeTask(w) /\ UNCHANGED xvars
       \/ \E w \in Workers : SetValue(w) \/ EndCall(w)
       \/ \E s \in Submitters : GetResult(s)
       \/ BeginDestruction
       \/ UNCHANGED <<tasks, stop, running, finished, xvars>>
  BY DEF NextX, Notify, PoolStep, CallThrows, FinishDestruction, WorkerStep,
         NotifyOne, Lock, ExitWorker, FindNothing, Block, SpuriousWake,
         TaskThrows, NotifyAll, JoinWorkers, allVars, vars, xvars
<1>11. Rest
  BY <1>3, <1>4, <1>5, <1>6, <1>7, <1>8, <1>9, <1>10
<1> QED  BY <1>1, <1>11 DEF XInv

LEMMA XInvariance == SpecX => []XInv
BY InitXInv, NextXInv, PTL DEF SpecX

\* The closure of executeAsyncTask holds references into its caller's frame;
\* nobody can use them after future.get() has returned.
THEOREM FramesStayAlive == SpecX => []FrameAlive
BY XInvariance, PTL DEF XInv

\* The pool is never destroyed with a closure still to be run.
THEOREM NothingIsDrained == SpecX => []NothingToDrain
BY XInvariance, PTL DEF XInv
=============================================================================
