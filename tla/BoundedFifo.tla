------------------------------ MODULE BoundedFifo ------------------------------
(***************************************************************************)
(* What both queues of the repository promise: items come out in the order *)
(* in which they went in, each once, and at most Size of them are inside.  *)
(* A refused call changes nothing and is a stutter here.                   *)
(***************************************************************************)
EXTENDS Naturals, Sequences, SequencesExt

CONSTANTS
  Items,   \* one per call of enqueue that succeeds
  Size     \* how many fit

VARIABLES
  queue,   \* the items inside
  taken    \* the items handed out, in order

Init == queue = <<>> /\ taken = <<>>

Put(i) ==
  /\ Len(queue) < Size
  /\ i \notin Range(queue) \cup Range(taken)
  /\ queue' = Append(queue, i)
  /\ UNCHANGED taken

Get ==
  /\ queue # <<>>
  /\ queue' = Tail(queue)
  /\ taken' = Append(taken, Head(queue))

Next == Get \/ \E i \in Items : Put(i)

Spec == Init /\ [][Next]_<<queue, taken>>
=============================================================================
