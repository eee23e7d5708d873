---------------------------- MODULE TaskExecution ----------------------------
(***************************************************************************)
(* What a user of ThreadPool may rely on, with no threads, mutex or        *)
(* condition variable in it: tasks start in the order of submission, each  *)
(* once, several may be active at a time, and the executor closes only     *)
(* after all of them have ended.                                           *)
(***************************************************************************)
EXTENDS Sequences

CONSTANT Tasks

VARIABLES
  pending,   \* submitted and not started, oldest first
  active,    \* started and not ended
  done,      \* ended
  closed     \* the executor has been destroyed

vars == <<pending, active, done, closed>>

Init == pending = <<>> /\ active = {} /\ done = {} /\ closed = FALSE

\* enqueueTask
Submit(t) ==
  /\ ~closed
  /\ pending' = Append(pending, t)
  /\ UNCHANGED <<active, done, closed>>

\* a worker takes the oldest task
Start ==
  /\ pending # <<>>
  /\ Head(pending) \notin active \cup done
  /\ active' = active \cup {Head(pending)}
  /\ pending' = Tail(pending)
  /\ UNCHANGED <<done, closed>>

\* a task's body returns
End(t) ==
  /\ t \in active
  /\ active' = active \ {t}
  /\ done' = done \cup {t}
  /\ UNCHANGED <<pending, closed>>

\* the destructor returns
Close ==
  /\ pending = <<>> /\ active = {}
  /\ closed' = TRUE
  /\ UNCHANGED <<pending, active, done>>

Next == Start \/ Close \/ \E t \in Tasks : Submit(t) \/ End(t)

Spec == Init /\ [][Next]_vars
=============================================================================
