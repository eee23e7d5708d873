----------------------------- MODULE WaitFreeQueue -----------------------------
(***************************************************************************)
(* WaitFreeQueue (wait_free_queue.h): a ring of Capacity slots between one *)
(* thread that calls enqueue and one that calls dequeue.  Each side owns   *)
(* one index and reads the other's with memory_order_acquire: it may read  *)
(* an old value, but never an older one than before.  headSeen and         *)
(* tailSeen are what such a read returns.                                  *)
(***************************************************************************)
EXTENDS Naturals, Sequences, SequencesExt

CONSTANTS
  Items,      \* one per call of enqueue
  Capacity,
  NoItem      \* T(), what resize puts into buffer_; no item in a register

\* With capacity 0 the code divides by zero.
ASSUME WaitFreeAssumption == Capacity \in Nat \ {0} /\ NoItem \notin Items

VARIABLES
  buffer_, head_, tail_,
  headSeen,   \* the producer's view of head_
  tailSeen,   \* the consumer's view of tail_
  writing,    \* the producer is between the test and the release: its item
  stored,     \* ... and has copied it into the slot
  reading,    \* the consumer is between the test and the release
  item,       \* ... and has copied this from the slot
  taken       \* history: what dequeue returned, in order

producer == <<tail_, writing, stored>>
consumer == <<head_, reading, item, taken>>
vars == <<buffer_, headSeen, tailSeen, producer, consumer>>

Slots == 0 .. Capacity - 1

Init ==
  /\ buffer_ = [s \in Slots |-> NoItem]
  /\ head_ = 0 /\ tail_ = 0 /\ headSeen = 0 /\ tailSeen = 0
  /\ writing = NoItem /\ stored = FALSE
  /\ reading = FALSE /\ item = NoItem
  /\ taken = <<>>

NoWrap(index) == index + 1  \* mutant: no modulus
Following(index) == (index + 1) % Capacity

-----------------------------------------------------------------------------
(* enqueue.  One that finds the queue full returns false and changes       *)
(* nothing.                                                                *)

NeverFull == FALSE  \* mutant: no test
Full == Following(tail_) = headSeen

Inside(i) == i = writing \/ i \in Range(buffer_) \cup Range(taken)

Admit(i) ==
  /\ writing = NoItem /\ ~Inside(i)
  /\ ~Full
  /\ writing' = i
  /\ UNCHANGED <<buffer_, headSeen, tailSeen, tail_, stored, consumer>>

Ahead(i) == [buffer_ EXCEPT ![Following(tail_)] = i]  \* mutant: buffer_[next_tail]
InSlot(i) == [buffer_ EXCEPT ![tail_] = i]

Store ==
  /\ writing # NoItem /\ ~stored
  /\ buffer_' = InSlot(writing)
  /\ stored' = TRUE
  /\ UNCHANGED <<headSeen, tailSeen, tail_, writing, consumer>>

Publish ==
  /\ stored
  /\ tail_' = Following(tail_)
  /\ writing' = NoItem /\ stored' = FALSE
  /\ UNCHANGED <<buffer_, headSeen, tailSeen, consumer>>

-----------------------------------------------------------------------------
(* dequeue.  One that finds the queue empty returns false.                 *)

KeepLast == tailSeen \in {head_, Following(head_)}  \* mutant: one too few
Empty == head_ = tailSeen

Begin ==
  /\ ~reading
  /\ ~Empty
  /\ reading' = TRUE
  /\ UNCHANGED <<buffer_, headSeen, tailSeen, producer, head_, item, taken>>

Load ==
  /\ reading /\ item = NoItem
  /\ item' = buffer_[head_]
  /\ UNCHANGED <<buffer_, headSeen, tailSeen, producer, head_, reading, taken>>

Release ==
  /\ item # NoItem
  /\ head_' = Following(head_)
  /\ taken' = Append(taken, item)
  /\ reading' = FALSE /\ item' = NoItem
  /\ UNCHANGED <<buffer_, headSeen, tailSeen, producer>>

-----------------------------------------------------------------------------
(* The memory: stores become visible one after the other.                  *)

HeadArrives ==
  /\ headSeen # head_
  /\ headSeen' = Following(headSeen)
  /\ UNCHANGED <<buffer_, tailSeen, producer, consumer>>

TailArrives ==
  /\ tailSeen # tail_
  /\ tailSeen' = Following(tailSeen)
  /\ UNCHANGED <<buffer_, headSeen, producer, consumer>>

-----------------------------------------------------------------------------
Dequeue == Begin \/ Load \/ Release

Next ==
  \/ \E i \in Items : Admit(i)
  \/ Store \/ Publish \/ Dequeue \/ HeadArrives \/ TailArrives

Spec == Init /\ [][Next]_vars

\* The consumer calls dequeue again and again, an enqueue that has begun ends,
\* and a store becomes visible in finite time.
FairSpec ==
  Spec /\ WF_vars(Dequeue) /\ WF_vars(Store \/ Publish) /\ WF_vars(TailArrives)

-----------------------------------------------------------------------------
Held(first, end) == (end + Capacity - first) % Capacity

\* The items in the ring, oldest first.
queue == [k \in 1 .. Held(head_, tail_) |-> buffer_[(head_ + k - 1) % Capacity]]

\* Every variable has its type, and an index is seen at most one round late:
\* what the producer takes for full ends where it stands, and the consumer
\* never sees a tail_ that its head_ has passed.
ViewsLate ==
  /\ buffer_ \in [Slots -> Items \cup {NoItem}]
  /\ {head_, tail_, headSeen, tailSeen} \subseteq Slots
  /\ writing \in Items \cup {NoItem} /\ stored \in BOOLEAN
  /\ reading \in BOOLEAN /\ item \in Items \cup {NoItem}
  /\ taken \in Seq(Items)
  /\ Held(headSeen, head_) + Held(head_, tail_) = Held(headSeen, tail_)
  /\ Held(head_, tailSeen) + Held(tailSeen, tail_) = Held(head_, tail_)

\* The slot that the producer writes is never the one that the consumer reads,
\* however late each side learns of the other's index: the plain accesses to
\* buffer_ do not race.
SlotsApart == writing # NoItem /\ reading => tail_ # head_

\* The ring implements a FIFO for Capacity - 1 items; one slot stays free to
\* tell full from empty.
Fifo == INSTANCE BoundedFifo WITH Size <- Capacity - 1
ImplementsFifo == Fifo!Spec

\* An item that was accepted is handed out in the end.
EveryItemArrives == \A i \in Items : writing = i ~> i \in Range(taken)
=============================================================================
