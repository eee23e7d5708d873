----------------------------- MODULE LockFreeQueue -----------------------------
(***************************************************************************)
(* LockFreeQueue (lock_free_queue.h): a linked list with a dummy first     *)
(* node and a tail that may lag behind.                                    *)
(*                                                                         *)
(* Two things in it are undefined.  The copies of head, tail and next are  *)
(* plain while other threads exchange them: a copy that meets an exchange  *)
(* of the same pointer leaves wrong reference counts, and what follows is  *)
(* not modelled (status "race").  And the tail of dequeue is a local that  *)
(* is initialised with itself (line 58): it may hold null or the remains   *)
(* of any node, or the copy of its counter may crash.                      *)
(*                                                                         *)
(* The copies of one round, with the second look that makes them one       *)
(* snapshot (lines 40, 61), are one step; the thread is in the midst of    *)
(* them at "copy".                                                         *)
(***************************************************************************)
EXTENDS Naturals, Sequences, SequencesExt, FiniteSets

CONSTANTS
  Producers,  \* the threads that call enqueue, each for an item at a time
  Consumers,  \* the threads that call dequeue
  Items,      \* one per call of enqueue, and its node
  Dummy,      \* the node of the constructor
  Null

ASSUME LockFreeAssumption ==
  /\ Producers \cap Consumers = {}
  /\ IsFiniteSet(Items) /\ Dummy \notin Items /\ Null \notin Items \cup {Dummy}

VARIABLES
  next, head, tail,
  pc,         \* where each thread is
  new_node,   \* the node each producer adds
  old,        \* old_tail, old_head
  seen,       \* tail_next, head_next
  status,     \* "running", or what ended the defined behaviour
  taken       \* history: what dequeue returned, by the exchange of head

links == <<next, head, tail>>
vars == <<links, pc, new_node, old, seen, status, taken>>

Threads == Producers \cup Consumers
Nodes == Items \cup {Dummy}

Init ==
  /\ next = [n \in Nodes |-> Null] /\ head = Dummy /\ tail = Dummy
  /\ pc = [t \in Threads |-> "idle"]
  /\ new_node = [p \in Producers |-> Null]
  /\ old = [t \in Threads |-> Null] /\ seen = [t \in Threads |-> Null]
  /\ status = "running"
  /\ taken = <<>>

Goto(t, l) == pc' = [pc EXCEPT ![t] = l]

Enqueue(p, i) ==
  /\ pc[p] = "idle" /\ \A q \in Producers : new_node[q] # i
  /\ i \notin Range(next) \cup Range(taken)
  /\ new_node' = [new_node EXCEPT ![p] = i]
  /\ Goto(p, "copy")
  /\ UNCHANGED <<links, old, seen, status, taken>>

Dequeue(c) ==
  /\ pc[c] = "idle"
  /\ Goto(c, "copy")
  /\ UNCHANGED <<links, new_node, old, seen, status, taken>>

\* An exchange failed: from the top of the loop, with fresh copies.
StaleTail(t) == Goto(t, "link")  \* mutant: old_tail is read before the loop
Again(t) == Goto(t, "again")

Retry(t) ==
  /\ pc[t] = "again"
  /\ Goto(t, "copy")
  /\ UNCHANGED <<links, new_node, old, seen, status, taken>>

-----------------------------------------------------------------------------
(* Copies and exchanges.                                                   *)

Snapshot(t, first) ==
  /\ pc[t] = "copy"
  /\ old' = [old EXCEPT ![t] = first]
  /\ seen' = [seen EXCEPT ![t] = next[first]]
  /\ UNCHANGED <<links, new_node, taken>>

\* The shared pointers that the copies of t read.
Copied(t) ==
  IF pc[t] # "copy" THEN {}
  ELSE IF t \in Producers THEN {"tail", tail} ELSE {"head", head}

\* An exchange of the pointer whose name, or whose node, is at.
Exchange(at) ==
  status' = IF \E t \in Threads : at \in Copied(t) THEN "race" ELSE status

-----------------------------------------------------------------------------
(* enqueue.                                                                *)

ReadTail(p) ==
  /\ Snapshot(p, tail)
  /\ Goto(p, IF next[tail] = Null THEN "link" ELSE "help")
  /\ UNCHANGED status

StoreNext(n) == TRUE  \* mutant: a store instead of the exchange
StillLast(n) == next[n] = Null

Link(p) ==
  /\ pc[p] = "link"
  /\ IF StillLast(old[p])
     THEN /\ next' = [next EXCEPT ![old[p]] = new_node[p]]
          /\ Exchange(old[p]) /\ Goto(p, "swing")
     ELSE Again(p) /\ UNCHANGED <<next, status>>
  /\ UNCHANGED <<head, tail, new_node, old, seen, taken>>

MoveTail(t, to) ==
  /\ IF tail = old[t] THEN tail' = to /\ Exchange("tail")
                      ELSE UNCHANGED <<tail, status>>
  /\ UNCHANGED <<next, head, old, seen, taken>>

Help(p) ==
  /\ pc[p] = "help"
  /\ MoveTail(p, seen[p]) /\ Again(p) /\ UNCHANGED new_node

Swing(p) ==
  /\ pc[p] = "swing"
  /\ MoveTail(p, new_node[p])
  /\ new_node' = [new_node EXCEPT ![p] = Null]
  /\ Goto(p, "idle")

-----------------------------------------------------------------------------
(* dequeue.  Where the local equals old_head the exchange moves the local, *)
(* and the loop begins again; where it does not, the list is taken to have *)
(* a first item, and null is dereferenced if it has none (line 68).        *)

Compared == Nodes \cup {Null}

ReadHead(c) ==
  /\ Snapshot(c, head)
  /\ \/ /\ \E local \in Compared :
             \/ local = head /\ next[head] = Null /\ Goto(c, "idle")
             \/ local = head /\ next[head] # Null /\ Again(c)
             \/ local # head /\ next[head] # Null /\ Goto(c, "take")
        /\ UNCHANGED status
     \/ next[head] = Null /\ status' = "null" /\ UNCHANGED pc
     \/ status' = "counter" /\ UNCHANGED pc

TakeAnyway(c) == TRUE  \* mutant: a store instead of the exchange
StillFirst(c) == head = old[c]

Take(c) ==
  /\ pc[c] = "take"
  /\ IF StillFirst(c)
     THEN /\ head' = seen[c] /\ taken' = Append(taken, seen[c])
          /\ Exchange("head") /\ Goto(c, "idle")
     ELSE Again(c) /\ UNCHANGED <<head, taken, status>>
  /\ UNCHANGED <<next, tail, new_node, old, seen>>

-----------------------------------------------------------------------------
ProducerStep(p) == Retry(p) \/ ReadTail(p) \/ Link(p) \/ Help(p) \/ Swing(p)
ConsumerStep(c) == Retry(c) \/ ReadHead(c) \/ Take(c)

Next ==
  /\ status = "running"
  /\ \/ \E p \in Producers : ProducerStep(p) \/ \E i \in Items : Enqueue(p, i)
     \/ \E c \in Consumers : Dequeue(c) \/ ConsumerStep(c)

Spec == Init /\ [][Next]_vars

-----------------------------------------------------------------------------
\* The items behind a node, in order.
Behind[n \in Nodes] ==
  IF next[n] = Null THEN <<>> ELSE <<next[n]>> \o Behind[next[n]]
queue == Behind[head]

\* The list is a FIFO for whatever the threads interleave, whatever line 58
\* leaves in the local tail, and up to the first race.
Fifo == INSTANCE BoundedFifo WITH Size <- Cardinality(Items)
ImplementsFifo == Fifo!Spec

\* dequeue does not help the tail along, so head can overtake it; even then
\* an enqueue that starts from tail finds the end of the list.
TailLeadsToEnd == Last(<<tail>> \o Behind[tail]) = Last(<<head>> \o queue)

\* The enqueue of a producer that goes on returns, wherever other threads stop
\* for good: what makes it try again is another exchange, and there is one item
\* less to come for each of those.
GoesOn(p) == WF_vars(status = "running" /\ ProducerStep(p))
EnqueuesReturn ==
  \A p \in Producers :
    GoesOn(p) =>
      (new_node[p] # Null ~> new_node[p] = Null \/ status # "running")
=============================================================================
