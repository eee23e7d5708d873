------------------------------ MODULE ThreadPool ------------------------------
(***************************************************************************)
(* The class ThreadPool (utils.h:39-54, utils.cpp:45-81): worker threads   *)
(* that take tasks from a queue guarded by queueMutex and sleep on a       *)
(* condition variable, enqueueTask called from any thread, and the         *)
(* destructor.                                                             *)
(*                                                                         *)
(* A worker keeps queueMutex from the evaluation of the wait predicate to  *)
(* the moment it blocks; those are separate steps ("test", "block"),       *)
(* because the destructor writes the atomic stop without the mutex and can *)
(* run between them.  The critical section of enqueueTask is one emplace   *)
(* and is one step; its notify_one comes after the unlock and is another.  *)
(***************************************************************************)
EXTENDS Naturals, Sequences, FiniteSets, Functions

CONSTANTS
  Workers,      \* the threads the constructor starts (numThreads of them)
  Submitters,   \* the threads that call enqueueTask
  Tasks,        \* the function objects ever enqueued; bounds the runs
  NoTask,       \* a worker runs nothing
  NoThread      \* queueMutex is free

ASSUME PoolAssumption ==
  /\ IsFiniteSet(Workers)
  /\ IsFiniteSet(Submitters)
  /\ NoTask \notin Tasks
  /\ NoThread \notin Workers

VARIABLES
  tasks,        \* std::queue of pending tasks
  queueMutex,   \* the worker that holds it, or NoThread
  stop,         \* std::atomic<bool>
  wpc,          \* where each worker is in workerThread
  running,      \* the task each worker executes
  spc,          \* where each submitter is in enqueueTask
  dtor,         \* progress of ~ThreadPool
  terminated,   \* std::terminate was called: the process is gone
  submitted,    \* history: tasks handed to enqueueTask
  finished      \* history: tasks whose body returned

vars == <<tasks, queueMutex, stop, wpc, running, spc, dtor, terminated,
          submitted, finished>>

WorkerStates == {"lock", "test", "block", "waiting", "run", "done"}
DtorStates == {"live", "notify", "join", "joined"}

Init ==
  /\ tasks = <<>>
  /\ queueMutex = NoThread
  /\ stop = FALSE
  /\ wpc = [w \in Workers |-> "lock"]
  /\ running = [w \in Workers |-> NoTask]
  /\ spc = [s \in Submitters |-> "idle"]
  /\ dtor = "live"
  /\ terminated = FALSE
  /\ submitted = {}
  /\ finished = {}

-----------------------------------------------------------------------------
(* enqueueTask: emplace under the mutex, then notify_one without it.       *)

Waiting == {w \in Workers : wpc[w] = "waiting"}

\* notify_one wakes one sleeper, whichever, or nobody when nobody sleeps.
WakeNobody == UNCHANGED wpc  \* mutant: the notification is forgotten
WakeOne ==
  \/ \E w \in Waiting : wpc' = [wpc EXCEPT ![w] = "lock"]
  \/ Waiting = {} /\ UNCHANGED wpc

\* An object may not be used during its destruction (dtor = "live").
EnqueueTask(s, t) ==
  /\ spc[s] = "idle" /\ dtor = "live"
  /\ queueMutex = NoThread
  /\ t \notin submitted
  /\ tasks' = Append(tasks, t)
  /\ submitted' = submitted \cup {t}
  /\ spc' = [spc EXCEPT ![s] = "notify"]
  /\ UNCHANGED <<queueMutex, stop, wpc, running, dtor, terminated, finished>>

NotifyOne(s) ==
  /\ spc[s] = "notify"
  /\ spc' = [spc EXCEPT ![s] = "idle"]
  /\ WakeOne
  /\ UNCHANGED <<tasks, queueMutex, stop, running, dtor, terminated,
                 submitted, finished>>

-----------------------------------------------------------------------------
(* workerThread.  A thread that wakes takes the mutex again and evaluates  *)
(* the predicate again, exactly as at the top of the loop: state "lock".   *)

Lock(w) ==
  /\ wpc[w] = "lock" /\ queueMutex = NoThread
  /\ queueMutex' = w
  /\ wpc' = [wpc EXCEPT ![w] = "test"]
  /\ UNCHANGED <<tasks, stop, running, spc, dtor, terminated, submitted,
                 finished>>

\* What is left of the queue after pop().
KeepFront(q) == q            \* mutant: front() without pop()
Pop(q) == Tail(q)

TakeTask(w) ==
  /\ wpc[w] = "test" /\ tasks # <<>>
  /\ running' = [running EXCEPT ![w] = Head(tasks)]
  /\ tasks' = Pop(tasks)
  /\ queueMutex' = NoThread
  /\ wpc' = [wpc EXCEPT ![w] = "run"]
  /\ UNCHANGED <<stop, spc, dtor, terminated, submitted, finished>>

\* if (stop && tasks.empty()) return;
MayExitAnyTime == stop       \* mutant: the queue is not drained
MayExit == stop /\ tasks = <<>>

ExitWorker(w) ==
  /\ wpc[w] = "test" /\ MayExit
  /\ queueMutex' = NoThread
  /\ wpc' = [wpc EXCEPT ![w] = "done"]
  /\ UNCHANGED <<tasks, stop, running, spc, dtor, terminated, submitted,
                 finished>>

\* The predicate is false; the thread is about to block, mutex still held.
FindNothing(w) ==
  /\ wpc[w] = "test" /\ ~stop /\ tasks = <<>>
  /\ wpc' = [wpc EXCEPT ![w] = "block"]
  /\ UNCHANGED <<tasks, queueMutex, stop, running, spc, dtor, terminated,
                 submitted, finished>>

\* condition.wait releases the mutex and blocks in one step.
Block(w) ==
  /\ wpc[w] = "block"
  /\ queueMutex' = NoThread
  /\ wpc' = [wpc EXCEPT ![w] = "waiting"]
  /\ UNCHANGED <<tasks, stop, running, spc, dtor, terminated, submitted,
                 finished>>

\* A condition variable may wake without a notification.
SpuriousWake(w) ==
  /\ wpc[w] = "waiting"
  /\ wpc' = [wpc EXCEPT ![w] = "lock"]
  /\ UNCHANGED <<tasks, queueMutex, stop, running, spc, dtor, terminated,
                 submitted, finished>>

\* The function object dies at the end of the iteration.
KeepTask(w) == UNCHANGED running  \* mutant: task outlives the iteration
DropTask(w) == running' = [running EXCEPT ![w] = NoTask]

FinishTask(w) ==
  /\ wpc[w] = "run"
  /\ finished' = finished \cup {running[w]}
  /\ DropTask(w)
  /\ wpc' = [wpc EXCEPT ![w] = "lock"]
  /\ UNCHANGED <<tasks, queueMutex, stop, spc, dtor, terminated, submitted>>

\* Nothing in workerThread catches: an exception that leaves a task leaves
\* the thread, and the process ends in std::terminate.
TaskThrows(w) ==
  /\ wpc[w] = "run"
  /\ terminated' = TRUE
  /\ UNCHANGED <<tasks, queueMutex, stop, wpc, running, spc, dtor, submitted,
                 finished>>

-----------------------------------------------------------------------------
(* ~ThreadPool: stop = true (no mutex), notify_all, join every worker.     *)

SetStop ==
  /\ dtor = "live" /\ \A s \in Submitters : spc[s] = "idle"
  /\ stop' = TRUE
  /\ dtor' = "notify"
  /\ UNCHANGED <<tasks, queueMutex, wpc, running, spc, terminated, submitted,
                 finished>>

NotifyAll ==
  /\ dtor = "notify"
  /\ dtor' = "join"
  /\ wpc' = [w \in Workers |-> IF wpc[w] = "waiting" THEN "lock" ELSE wpc[w]]
  /\ UNCHANGED <<tasks, queueMutex, stop, running, spc, terminated, submitted,
                 finished>>

\* join() returns for a worker when its thread function has returned.
JoinedSome == \E w \in Workers : wpc[w] = "done"  \* mutant: joins one worker
JoinedAll == \A w \in Workers : wpc[w] = "done"

JoinWorkers ==
  /\ dtor = "join" /\ JoinedAll
  /\ dtor' = "joined"
  /\ UNCHANGED <<tasks, queueMutex, stop, wpc, running, spc, terminated,
                 submitted, finished>>

-----------------------------------------------------------------------------
WorkerStep(w) ==
  Lock(w) \/ TakeTask(w) \/ ExitWorker(w) \/ FindNothing(w) \/ Block(w)

Destructor == SetStop \/ NotifyAll \/ JoinWorkers

Next ==
  /\ ~terminated
  /\ \/ \E s \in Submitters, t \in Tasks : EnqueueTask(s, t)
     \/ \E s \in Submitters : NotifyOne(s)
     \/ \E w \in Workers : WorkerStep(w)
     \/ \E w \in Workers : SpuriousWake(w)
     \/ \E w \in Workers : FinishTask(w)
     \/ \E w \in Workers : TaskThrows(w)
     \/ Destructor

Spec == Init /\ [][Next]_vars

\* The scheduler runs every thread that can run, a task that runs ends (by
\* returning or by throwing), and a destructor once begun goes on.  Nothing
\* obliges anyone to enqueue, to destroy, or a sleeper to wake by itself.
Fairness ==
  /\ \A s \in Submitters : WF_vars(~terminated /\ NotifyOne(s))
  /\ \A w \in Workers : WF_vars(~terminated /\ WorkerStep(w))
  /\ \A w \in Workers :
       WF_vars(~terminated /\ (FinishTask(w) \/ TaskThrows(w)))
  /\ WF_vars(~terminated /\ (NotifyAll \/ JoinWorkers))

FairSpec == Spec /\ Fairness

-----------------------------------------------------------------------------
Active == {running[w] : w \in Workers} \ {NoTask}
Awake == {w \in Workers : wpc[w] \in {"lock", "test"}}
Notifying == {s \in Submitters : spc[s] = "notify"}

\* Every variable has its type; the mutex is held exactly by the worker that
\* tests the predicate or is about to block; a worker holds a task exactly
\* while it runs one; stop is set exactly when the destructor has begun.
TypeOK ==
  /\ tasks \in Seq(Tasks)
  /\ queueMutex \in Workers \cup {NoThread}
  /\ stop \in BOOLEAN
  /\ wpc \in [Workers -> WorkerStates]
  /\ running \in [Workers -> Tasks \cup {NoTask}]
  /\ spc \in [Submitters -> {"idle", "notify"}]
  /\ dtor \in DtorStates
  /\ terminated \in BOOLEAN
  /\ submitted \subseteq Tasks
  /\ finished \subseteq Tasks
  /\ \A w \in Workers : wpc[w] \in {"test", "block"} <=> queueMutex = w
  /\ \A w \in Workers : running[w] # NoTask <=> wpc[w] = "run"
  /\ stop <=> dtor # "live"

\* A task given to enqueueTask is at one place: once in the queue, or in the
\* hands of one worker, or finished.  None is lost between the queue and a
\* worker and none runs twice (workerThread's front/pop under queueMutex).
NoTaskLostOrRunTwice ==
  /\ submitted = Range(tasks) \cup Active \cup finished
  /\ \A i, j \in DOMAIN tasks : tasks[i] = tasks[j] => i = j
  /\ \A v, w \in Workers :
       running[v] = running[w] /\ running[v] # NoTask => v = w
  /\ Range(tasks) \cap (Active \cup finished) = {}
  /\ Active \cap finished = {}

\* While some worker sleeps, there are at most as many queued tasks as
\* workers on their way to the predicate and notifications still to be sent:
\* notify_one after the unlock (utils.cpp:62-66) never leaves a task in the
\* queue with everybody asleep.
NoLostWakeup ==
  Waiting # {} => Len(tasks) <= Cardinality(Awake) + Cardinality(Notifying)

\* When the destructor returns, every task ever enqueued has been executed:
\* stop does not discard the queue (utils.cpp:75).
DrainedWhenJoined ==
  dtor = "joined" =>
    tasks = <<>> /\ Active = {} /\ finished = submitted

\* Every enqueued task is executed, unless a task's exception has ended the
\* process, for every schedule of workers, submitters and the destructor.
EveryTaskRuns ==
  \A t \in Tasks : t \in submitted ~> (t \in finished \/ terminated)

\* ~ThreadPool returns: what the readme's version of it, which sets stop
\* with queueMutex held, guarantees.  The code's version (utils.cpp:52) does
\* not: see the run pool_destructor.
DestructorReturns == (dtor = "notify") ~> (dtor = "joined" \/ terminated)

\* The pool implements the abstract contract of an executor.
Executor == INSTANCE TaskExecution
  WITH pending <- tasks, active <- Active, done <- finished,
       closed <- (dtor = "joined")

\* Tasks are started in the order they were enqueued, each once, and the pool
\* closes only when nothing is pending or active (TaskExecution).
ImplementsExecutor == Executor!Spec
=============================================================================
