----------------------------- MODULE ExecuteAsync -----------------------------
(***************************************************************************)
(* executeAsyncTask (utils.h:60-70) over the global ThreadPool.  The       *)
(* caller keeps the promise and the task on its own stack, hands the pool  *)
(* a closure that refers to them, and blocks in future.get().  A call is   *)
(* named by the closure it enqueues, a member of Tasks.                    *)
(*                                                                         *)
(* getOrderBook, cancelOrder and modifyOrder (order_management.cpp:283,    *)
(* 334, 340) are calls of it; their bodies enqueue nothing themselves.     *)
(***************************************************************************)
EXTENDS ThreadPool

VARIABLES
  awaiting,     \* the call each thread is inside, or NoTask
  fulfilled     \* the calls whose promise has its value

xvars == <<awaiting, fulfilled>>
allVars == <<vars, xvars>>

InitX ==
  /\ Init
  /\ awaiting = [s \in Submitters |-> NoTask]
  /\ fulfilled = {}

-----------------------------------------------------------------------------
Call(s, t) ==
  /\ awaiting[s] = NoTask
  /\ EnqueueTask(s, t)
  /\ awaiting' = [awaiting EXCEPT ![s] = t]
  /\ UNCHANGED fulfilled

\* promise.set_value(task()): task's body has returned its value.
SetValue(w) ==
  /\ wpc[w] = "run" /\ running[w] \notin fulfilled
  /\ fulfilled' = fulfilled \cup {running[w]}
  /\ UNCHANGED <<vars, awaiting>>

\* The closure returns after set_value.
EndCall(w) ==
  /\ running[w] \in fulfilled
  /\ FinishTask(w)
  /\ UNCHANGED xvars

\* task() throws: the promise gets neither value nor exception.
CallThrows(w) ==
  /\ running[w] \notin fulfilled
  /\ TaskThrows(w)
  /\ UNCHANGED xvars

\* future.get() returns, and the frame with promise and task is gone.
ReadyAtOnce(s) == TRUE        \* mutant: get() does not wait
Ready(s) == awaiting[s] \in fulfilled

GetResult(s) ==
  /\ spc[s] = "idle" /\ awaiting[s] # NoTask /\ Ready(s)
  /\ awaiting' = [awaiting EXCEPT ![s] = NoTask]
  /\ UNCHANGED <<vars, fulfilled>>

\* The global pool is destroyed after main has returned from its last call.
DestroyEarly == TRUE          \* mutant: destroyed under a running call
NoCallRuns == \A s \in Submitters : awaiting[s] = NoTask

BeginDestruction == NoCallRuns /\ SetStop /\ UNCHANGED xvars

-----------------------------------------------------------------------------
PoolStep(w) == WorkerStep(w) /\ UNCHANGED xvars
Notify(s) == NotifyOne(s) /\ UNCHANGED xvars
FinishDestruction == (NotifyAll \/ JoinWorkers) /\ UNCHANGED xvars

NextX ==
  /\ ~terminated
  /\ \/ \E s \in Submitters, t \in Tasks : Call(s, t)
     \/ \E s \in Submitters : Notify(s) \/ GetResult(s)
     \/ \E w \in Workers :
          \/ PoolStep(w) \/ SetValue(w) \/ EndCall(w) \/ CallThrows(w)
          \/ SpuriousWake(w) /\ UNCHANGED xvars
     \/ BeginDestruction
     \/ FinishDestruction

SpecX == InitX /\ [][NextX]_allVars

\* As in ThreadPool: threads that can run do, a task's body ends.
FairnessX ==
  /\ \A s \in Submitters :
       WF_allVars(~terminated /\ (Notify(s) \/ GetResult(s)))
  /\ \A w \in Workers : WF_allVars(~terminated /\ PoolStep(w))
  /\ \A w \in Workers :
       WF_allVars(~terminated /\ (SetValue(w) \/ EndCall(w) \/ CallThrows(w)))

FairSpecX == SpecX /\ FairnessX

-----------------------------------------------------------------------------
Awaited == {awaiting[s] : s \in Submitters}

\* The closure refers to its caller's promise and task.  As long as a worker
\* may still use them, because the closure is queued or is running and has
\* not stored its value, the caller is inside future.get() and the frame
\* exists (utils.h:65-69).
FrameAlive ==
  /\ Range(tasks) \subseteq Awaited
  /\ Active \ fulfilled \subseteq Awaited

\* When the destruction of the pool begins no closure is left to be run: the
\* drain of workerThread (utils.cpp:75) only ever finds bodies that are past
\* set_value.
NothingToDrain == stop => tasks = <<>> /\ Active \subseteq fulfilled

\* Every call of executeAsyncTask returns, unless an exception has ended the
\* process: no lost wakeup while the pool lives, and no caller waits for a
\* promise nobody will set.
CallsReturn ==
  \A s \in Submitters, t \in Tasks :
    awaiting[s] = t ~> (awaiting[s] # t \/ terminated)

=============================================================================
