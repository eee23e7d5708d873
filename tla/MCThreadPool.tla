----------------------------- MODULE MCThreadPool -----------------------------
(* Instances of ThreadPool for TLC: two workers, two submitters, three     *)
(* tasks.                                                                  *)
EXTENDS ThreadPool

CONSTANTS w1, w2, s1, s2, t1, t2, t3

MCWorkers == {w1, w2}
MCSubmitters == {s1, s2}
MCTasks == {t1, t2, t3}
=============================================================================
