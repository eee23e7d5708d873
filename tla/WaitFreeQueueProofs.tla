-------------------------- MODULE WaitFreeQueueProofs --------------------------
(***************************************************************************)
(* Proofs about WaitFreeQueue, for any capacity and any items: the two     *)
(* sides never use one slot at a time, however late they learn of each     *)
(* other's index, and the ring implements BoundedFifo.                     *)
(***************************************************************************)
EXTENDS WaitFreeQueue, Integers, SequenceTheorems, TLAPS

-----------------------------------------------------------------------------
(* Indices.                                                                *)

LEMMA SmallModulo ==
  \A a \in 0 .. 2 * Capacity - 1 :
    /\ a < Capacity => a % Capacity = a
    /\ ~ (a < Capacity) => a % Capacity = a - Capacity
<1> SUFFICES ASSUME NEW n \in Nat \ {0}, NEW a \in 0 .. 2 * n - 1
             PROVE  /\ a < n => a % n = a
                    /\ ~ (a < n) => a % n = a - n
  BY WaitFreeAssumption, Zenon
<1>1. CASE a \in 0 .. n - 1  BY <1>1
<1>2. CASE a \in n .. 2 * n - 1  BY <1>2
<1> QED  BY <1>1, <1>2

LEMMA FollowingFacts ==
  ASSUME NEW s \in Slots
  PROVE  /\ Following(s) = IF s + 1 = Capacity THEN 0 ELSE s + 1
         /\ Following(s) \in Slots
<1>1. Capacity \in Nat \ {0} /\ s \in Nat /\ s < Capacity
  BY WaitFreeAssumption DEF Slots
<1>2. s + 1 \in 0 .. 2 * Capacity - 1  BY <1>1
<1>3. Following(s) = IF s + 1 < Capacity THEN s + 1 ELSE s + 1 - Capacity
  <2> DEFINE a == s + 1
  <2>1. a \in 0 .. 2 * Capacity - 1  BY <1>2
  <2>2. Following(s) = a % Capacity  BY DEF Following
  <2> HIDE DEF a
  <2>3. Following(s) = IF a < Capacity THEN a ELSE a - Capacity
    BY <2>1, <2>2, SmallModulo, Zenon
  <2> QED  BY <1>1, <1>2, <2>3 DEF a
<1>4. Following(s) = IF s + 1 = Capacity THEN 0 ELSE s + 1  BY <1>1, <1>3
<1> QED  BY <1>1, <1>4 DEF Slots

LEMMA HeldFacts ==
  ASSUME NEW s \in Slots, NEW e \in Slots
  PROVE  /\ Held(s, e) = IF s <= e THEN e - s ELSE e + Capacity - s
         /\ Held(s, e) \in 0 .. Capacity - 1
         /\ Held(s, e) = 0 <=> s = e
<1>1. /\ Capacity \in Nat \ {0}
      /\ s \in Nat /\ s < Capacity /\ e \in Nat /\ e < Capacity
  BY WaitFreeAssumption DEF Slots
<1>2. e + Capacity - s \in 0 .. 2 * Capacity - 1  BY <1>1
<1>3. Held(s, e) = IF e + Capacity - s < Capacity THEN e + Capacity - s
                   ELSE e + Capacity - s - Capacity
  <2> DEFINE a == e + Capacity - s
  <2>1. a \in 0 .. 2 * Capacity - 1  BY <1>2
  <2>2. Held(s, e) = a % Capacity  BY DEF Held
  <2> HIDE DEF a
  <2>3. Held(s, e) = IF a < Capacity THEN a ELSE a - Capacity
    BY <2>1, <2>2, SmallModulo, Zenon
  <2> QED  BY <1>1, <1>2, <2>3 DEF a
<1> QED  BY <1>1, <1>3

\* Going on makes one end one more, the other one less.
LEMMA HeldFollowing ==
  ASSUME NEW s \in Slots, NEW e \in Slots
  PROVE  /\ Held(s, e) + 1 < Capacity => Held(s, Following(e)) = Held(s, e) + 1
         /\ s # e => Held(Following(s), e) = Held(s, e) - 1
         /\ Following(e) # s => Held(s, e) + 1 < Capacity
<1>1. /\ Capacity \in Nat \ {0}
      /\ s \in Nat /\ s < Capacity /\ e \in Nat /\ e < Capacity
  BY WaitFreeAssumption DEF Slots
<1>2. Held(s, e) = IF s <= e THEN e - s ELSE e + Capacity - s
  BY HeldFacts
<1>3. /\ Following(e) = IF e + 1 = Capacity THEN 0 ELSE e + 1
      /\ Following(s) = IF s + 1 = Capacity THEN 0 ELSE s + 1
      /\ Following(e) \in Slots /\ Following(s) \in Slots
  BY FollowingFacts
<1>4. Held(s, Following(e)) = IF s <= Following(e) THEN Following(e) - s
                              ELSE Following(e) + Capacity - s
  BY <1>3, HeldFacts
<1>5. Held(Following(s), e) = IF Following(s) <= e THEN e - Following(s)
                              ELSE e + Capacity - Following(s)
  BY <1>3, HeldFacts
<1>6. Held(s, e) + 1 < Capacity => Held(s, Following(e)) = Held(s, e) + 1
  BY <1>1, <1>2, <1>3, <1>4
<1>7. s # e => Held(Following(s), e) = Held(s, e) - 1
  BY <1>1, <1>2, <1>3, <1>5
<1>8. Following(e) # s => Held(s, e) + 1 < Capacity
  BY <1>1, <1>2, <1>3
<1> QED  BY <1>6, <1>7, <1>8

\* The slot of the k-th item.
Slot(s, k) == (s + k - 1) % Capacity

LEMMA SlotFacts ==
  ASSUME NEW s \in Slots, NEW k \in 1 .. Capacity
  PROVE  /\ Slot(s, k) = IF s + k - 1 < Capacity THEN s + k - 1 ELSE s + k - 1 - Capacity
         /\ Slot(s, k) \in Slots
<1>1. /\ Capacity \in Nat \ {0} /\ s \in Nat /\ s < Capacity
      /\ k \in Nat /\ 1 <= k /\ k <= Capacity
  BY WaitFreeAssumption DEF Slots
<1>2. s + k - 1 \in 0 .. 2 * Capacity - 1  BY <1>1
<1>3. Slot(s, k) = IF s + k - 1 < Capacity THEN s + k - 1 ELSE s + k - 1 - Capacity
  <2> DEFINE a == s + k - 1
  <2>1. a \in 0 .. 2 * Capacity - 1  BY <1>2
  <2>2. Slot(s, k) = a % Capacity  BY DEF Slot
  <2> HIDE DEF a
  <2>3. Slot(s, k) = IF a < Capacity THEN a ELSE a - Capacity
    BY <2>1, <2>2, SmallModulo, Zenon
  <2> QED  BY <1>1, <1>2, <2>3 DEF a
<1> QED  BY <1>1, <1>3 DEF Slots

\* The slots of the items are not the one behind the last of them.
LEMMA SlotInside ==
  ASSUME NEW s \in Slots, NEW e \in Slots, NEW k \in 1 .. Held(s, e)
  PROVE  k \in 1 .. Capacity - 1 /\ Slot(s, k) \in Slots /\ Slot(s, k) # e
<1>1. /\ Capacity \in Nat \ {0}
      /\ s \in Nat /\ s < Capacity /\ e \in Nat /\ e < Capacity
  BY WaitFreeAssumption DEF Slots
<1>2. /\ Held(s, e) = IF s <= e THEN e - s ELSE e + Capacity - s
      /\ Held(s, e) \in 0 .. Capacity - 1
  BY HeldFacts
<1>3. k \in 1 .. Capacity - 1 /\ k \in 1 .. Capacity  BY <1>1, <1>2
<1>4. /\ Slot(s, k) = IF s + k - 1 < Capacity THEN s + k - 1 ELSE s + k - 1 - Capacity
      /\ Slot(s, k) \in Slots
  BY <1>3, SlotFacts
<1> QED  BY <1>1, <1>2, <1>3, <1>4

-----------------------------------------------------------------------------
(* The invariant.                                                          *)

Writing ==
  /\ writing # NoItem => Held(headSeen, tail_) + 1 < Capacity
  /\ stored => writing # NoItem /\ buffer_[tail_] = writing
  /\ writing # NoItem =>
       /\ writing \notin Range(taken)
       /\ \A s \in Slots : s # tail_ => buffer_[s] # writing

Reading ==
  /\ reading => head_ # tailSeen
  /\ item # NoItem => reading /\ item = buffer_[head_]

IInv == ViewsLate /\ Writing /\ Reading

LEMMA ReadingNotEmpty ==
  ASSUME IInv, reading
  PROVE  tail_ # head_
<1>1. {head_, tail_, tailSeen} \subseteq Slots /\ head_ # tailSeen
  BY DEF IInv, ViewsLate, Reading
<1>2. Held(head_, tailSeen) + Held(tailSeen, tail_) = Held(head_, tail_)
  BY DEF IInv, ViewsLate
<1> QED  BY <1>1, <1>2, HeldFacts

LEMMA InvSlotsApart == IInv => SlotsApart
BY ReadingNotEmpty DEF SlotsApart

LEMMA InitIInv == Init => IInv
<1> SUFFICES ASSUME Init PROVE IInv
  OBVIOUS
<1>1. 0 \in Slots  BY WaitFreeAssumption DEF Slots
<1>2. ViewsLate  BY <1>1, HeldFacts DEF Init, ViewsLate
<1>3. Writing /\ Reading  BY DEF Init, Writing, Reading
<1> QED  BY <1>2, <1>3 DEF IInv

LEMMA RangeAppend ==
  ASSUME NEW S, NEW q \in Seq(S), NEW e
  PROVE  Range(Append(q, e)) = Range(q) \cup {e}
<1>1. /\ Len(q) \in Nat /\ DOMAIN q = 1 .. Len(q)
      /\ DOMAIN Append(q, e) = 1 .. Len(q) + 1
      /\ \A k \in 1 .. Len(q) : Append(q, e)[k] = q[k]
      /\ Append(q, e)[Len(q) + 1] = e
  OBVIOUS
<1>2. \A k : k \in 1 .. Len(q) + 1 <=> k \in 1 .. Len(q) \/ k = Len(q) + 1
  BY <1>1
<1> QED  BY <1>1, <1>2 DEF Range

LEMMA NextIInv == ASSUME IInv, [Next]_vars PROVE IInv'
<1> USE WaitFreeAssumption DEF IInv, producer, consumer
<1>0. /\ head_ \in Slots /\ tail_ \in Slots /\ headSeen \in Slots /\ tailSeen \in Slots
      /\ buffer_ \in [Slots -> Items \cup {NoItem}]
      /\ Held(headSeen, head_) + Held(head_, tail_) = Held(headSeen, tail_)
      /\ Held(head_, tailSeen) + Held(tailSeen, tail_) = Held(head_, tail_)
      /\ taken \in Seq(Items)
  BY DEF ViewsLate
<1>1. ASSUME NEW i \in Items, Admit(i) PROVE IInv'
  <2>1. ViewsLate'  BY <1>1 DEF Admit, ViewsLate
  <2>2. Writing'
    BY <1>0, <1>1, HeldFollowing DEF Admit, Full, Inside, Writing, Range
  <2>3. Reading'  BY <1>1 DEF Admit, Reading
  <2> QED  BY <2>1, <2>2, <2>3
<1>2. CASE Store
  <2>1. ViewsLate'  BY <1>2 DEF Store, InSlot, ViewsLate
  <2>2. Writing'  BY <1>0, <1>2 DEF Store, InSlot, Writing
  <2>3. Reading'
    BY <1>0, <1>2, InvSlotsApart DEF Store, InSlot, Reading, SlotsApart
  <2> QED  BY <2>1, <2>2, <2>3
<1>3. CASE Publish
  <2>1. Held(headSeen, tail_) + 1 < Capacity  BY <1>3 DEF Publish, Writing
  <2>2. /\ tail_' \in Slots
        /\ Held(headSeen, tail_') = Held(headSeen, tail_) + 1
        /\ Held(head_, tail_') = Held(head_, tail_) + 1
        /\ Held(tailSeen, tail_') = Held(tailSeen, tail_) + 1
    <3>1. /\ Capacity \in Nat
          /\ Held(headSeen, head_) \in Nat /\ Held(head_, tail_) \in Nat
          /\ Held(head_, tailSeen) \in Nat /\ Held(tailSeen, tail_) \in Nat
          /\ Held(headSeen, tail_) \in Nat
      BY <1>0, HeldFacts
    <3>2. /\ Held(head_, tail_) + 1 < Capacity
          /\ Held(tailSeen, tail_) + 1 < Capacity
      BY <1>0, <2>1, <3>1
    <3>3. tail_' = Following(tail_)  BY <1>3 DEF Publish
    <3> QED  BY <1>0, <2>1, <3>2, <3>3, HeldFollowing, FollowingFacts
  <2>3. ViewsLate'
    <3>1. /\ Held(headSeen, head_) \in Nat /\ Held(head_, tail_) \in Nat
          /\ Held(head_, tailSeen) \in Nat /\ Held(tailSeen, tail_) \in Nat
          /\ Held(headSeen, tail_) \in Nat
      BY <1>0, HeldFacts
    <3>2. /\ Held(headSeen, head_) + Held(head_, tail_') = Held(headSeen, tail_')
          /\ Held(head_, tailSeen) + Held(tailSeen, tail_') = Held(head_, tail_')
      BY <1>0, <2>2, <3>1
    <3> QED  BY <1>3, <2>2, <3>2 DEF Publish, ViewsLate
  <2>4. Writing' /\ Reading'  BY <1>3 DEF Publish, Writing, Reading
  <2> QED  BY <2>3, <2>4
<1>4. CASE Begin
  BY <1>4 DEF Begin, Empty, ViewsLate, Writing, Reading
<1>5. CASE Load
  <2>1. ViewsLate'  BY <1>0, <1>5 DEF Load, ViewsLate
  <2>2. Writing' /\ Reading'  BY <1>5 DEF Load, Writing, Reading
  <2> QED  BY <2>1, <2>2
<1>6. CASE Release
  <2>1. reading /\ item = buffer_[head_] /\ item \in Items /\ head_ # tailSeen
    BY <1>6 DEF Release, Reading, ViewsLate
  <2>2. head_ # tail_  BY <2>1, <1>0, HeldFacts
  <2>3. /\ head_' \in Slots
        /\ Held(head_', tail_) = Held(head_, tail_) - 1
        /\ Held(head_', tailSeen) = Held(head_, tailSeen) - 1
    BY <1>0, <1>6, <2>1, <2>2, HeldFollowing, FollowingFacts DEF Release
  <2>4. Held(headSeen, head_') = Held(headSeen, head_) + 1
    <3>1. Held(headSeen, head_) + 1 < Capacity
      <4>1. /\ Held(head_, tail_) \in Nat \ {0}
            /\ Held(headSeen, head_) \in Nat
            /\ Held(headSeen, tail_) \in 0 .. Capacity - 1
        BY <1>0, <2>2, HeldFacts
      <4> QED  BY <1>0, <4>1
    <3> QED  BY <1>0, <1>6, <3>1, HeldFollowing DEF Release
  <2>5. ViewsLate'
    <3>1. /\ Held(headSeen, head_) \in Nat /\ Held(head_, tail_) \in Nat
          /\ Held(head_, tailSeen) \in Nat /\ Held(tailSeen, tail_) \in Nat
          /\ Held(headSeen, tail_) \in Nat
      BY <1>0, HeldFacts
    <3>2. /\ Held(headSeen, head_') + Held(head_', tail_) = Held(headSeen, tail_)
          /\ Held(head_', tailSeen) + Held(tailSeen, tail_) = Held(head_', tail_)
      BY <1>0, <2>3, <2>4, <3>1
    <3>3. head_' \in Slots /\ taken' \in Seq(Items)
      <4>1. taken' = Append(taken, item)  BY <1>6 DEF Release
      <4> QED  BY <1>0, <2>1, <2>3, <4>1
    <3>4. item' \in Items \cup {NoItem} /\ reading' \in BOOLEAN
      BY <1>6 DEF Release
    <3>5. UNCHANGED <<buffer_, headSeen, tailSeen, tail_, writing, stored>>
      BY <1>6 DEF Release
    <3> QED  BY <3>2, <3>3, <3>4, <3>5 DEF ViewsLate
  <2>6. Writing'
    <3>1. Range(taken') = Range(taken) \cup {buffer_[head_]}
      BY <1>0, <1>6, <2>1, RangeAppend DEF Release
    <3>2. writing # NoItem => buffer_[head_] # writing
      BY <1>0, <2>2 DEF Writing
    <3> QED  BY <1>6, <3>1, <3>2 DEF Release, Writing
  <2>7. Reading'  BY <1>6 DEF Release, Reading
  <2> QED  BY <2>5, <2>6, <2>7
<1>7. CASE HeadArrives
  <2>1. headSeen # tail_
    BY <1>0, <1>7, HeldFacts DEF HeadArrives
  <2>2. /\ headSeen' \in Slots
        /\ Held(headSeen', head_) = Held(headSeen, head_) - 1
        /\ Held(headSeen', tail_) = Held(headSeen, tail_) - 1
    BY <1>0, <1>7, <2>1, HeldFollowing, FollowingFacts DEF HeadArrives
  <2>3. Held(headSeen, head_) \in Nat /\ Held(head_, tail_) \in Nat
        /\ Held(headSeen, tail_) \in Nat
    BY <1>0, HeldFacts
  <2>4. ViewsLate'
    <3>1. Held(headSeen', head_) + Held(head_, tail_) = Held(headSeen', tail_)
      BY <1>0, <2>2, <2>3
    <3> QED  BY <1>7, <2>2, <3>1 DEF HeadArrives, ViewsLate
  <2>5. Writing'  BY <1>7, <2>2, <2>3 DEF HeadArrives, Writing
  <2>6. Reading'  BY <1>7 DEF HeadArrives, Reading
  <2> QED  BY <2>4, <2>5, <2>6
<1>8. CASE TailArrives
  <2>1. /\ Held(tailSeen, tail_) \in 1 .. Capacity - 1
        /\ Held(head_, tailSeen) \in Nat /\ Held(head_, tail_) < Capacity
        /\ Held(head_, tail_) \in Nat
    BY <1>0, <1>8, HeldFacts DEF TailArrives
  <2>2. Held(head_, tailSeen) + 1 < Capacity \/ Held(head_, tailSeen) + 1 = Held(head_, tail_)
    BY <1>0, <2>1
  <2>3. Following(tailSeen) # head_
    <3> SUFFICES ASSUME Following(tailSeen) = head_ PROVE FALSE
      OBVIOUS
    <3>1. /\ Capacity \in Nat \ {0}
          /\ tailSeen \in Nat /\ tailSeen < Capacity
          /\ head_ \in Nat /\ head_ < Capacity
      BY <1>0 DEF Slots
    <3>2. /\ head_ = IF tailSeen + 1 = Capacity THEN 0 ELSE tailSeen + 1
          /\ Held(head_, tailSeen) = IF head_ <= tailSeen THEN tailSeen - head_
                                     ELSE tailSeen + Capacity - head_
      BY <1>0, FollowingFacts, HeldFacts
    <3>3. Held(head_, tailSeen) = Capacity - 1  BY <3>1, <3>2
    <3> QED  BY <1>0, <2>1, <3>1, <3>3
  <2>4. /\ tailSeen' \in Slots
        /\ Held(head_, tailSeen') = Held(head_, tailSeen) + 1
        /\ Held(tailSeen', tail_) = Held(tailSeen, tail_) - 1
    BY <1>0, <1>8, <2>3, HeldFollowing, FollowingFacts DEF TailArrives
  <2>5. ViewsLate'
    <3>1. Held(head_, tailSeen') + Held(tailSeen', tail_) = Held(head_, tail_)
      BY <1>0, <2>1, <2>4
    <3> QED  BY <1>8, <2>4, <3>1 DEF TailArrives, ViewsLate
  <2>6. Writing' /\ Reading'
    BY <1>8, <2>3 DEF TailArrives, Writing, Reading
  <2> QED  BY <2>5, <2>6
<1>9. CASE UNCHANGED vars
  BY <1>9 DEF vars, ViewsLate, Writing, Reading
<1> QED
  BY <1>1, <1>2, <1>3, <1>4, <1>5, <1>6, <1>7, <1>8, <1>9 DEF Next, Dequeue

LEMMA AlwaysIInv == Spec => []IInv
BY InitIInv, NextIInv, PTL DEF Spec

\* Each side sees the other's index at most one round late.
THEOREM ViewsAreLate == Spec => []ViewsLate
<1>1. IInv => ViewsLate  BY DEF IInv
<1> QED  BY AlwaysIInv, <1>1, PTL

\* The slot that is written is never the one that is read.
THEOREM SlotsStayApart == Spec => []SlotsApart
BY AlwaysIInv, InvSlotsApart, PTL

-----------------------------------------------------------------------------
(* The refinement: Publish is Put, Release is Get, every other step leaves *)
(* the abstract queue as it is.                                            *)

QueueInRing ==
  /\ queue \in Seq(Items \cup {NoItem})
  /\ Len(queue) = Held(head_, tail_)
  /\ \A k \in 1 .. Held(head_, tail_) : queue[k] = buffer_[Slot(head_, k)]

LEMMA InvQueueInRing == IInv => QueueInRing
<1> SUFFICES ASSUME IInv PROVE QueueInRing
  OBVIOUS
<1>1. /\ head_ \in Slots /\ tail_ \in Slots
      /\ buffer_ \in [Slots -> Items \cup {NoItem}]
  BY DEF IInv, ViewsLate
<1>2. Held(head_, tail_) \in Nat  BY <1>1, HeldFacts
<1>3. \A k \in 1 .. Held(head_, tail_) : buffer_[Slot(head_, k)] \in Items \cup {NoItem}
  BY <1>1, SlotInside
<1>4. queue = [k \in 1 .. Held(head_, tail_) |-> buffer_[Slot(head_, k)]]
  BY DEF queue, Slot
<1>5. queue \in [1 .. Held(head_, tail_) -> Items \cup {NoItem}]
  BY <1>3, <1>4
<1>6. queue \in Seq(Items \cup {NoItem})  BY <1>2, <1>5, SeqDef
<1>7. DOMAIN queue = 1 .. Len(queue) /\ DOMAIN queue = 1 .. Held(head_, tail_)
      /\ Len(queue) \in Nat
  BY <1>4, <1>6, LenProperties
<1>8. Len(queue) = Held(head_, tail_)  BY <1>2, <1>7
<1> QED  BY <1>4, <1>6, <1>8 DEF QueueInRing

\* The slots that dequeue and enqueue go on to.
LEMMA SlotOrder ==
  ASSUME NEW s \in Slots, NEW e \in Slots
  PROVE  /\ Slot(s, 1) = s
         /\ Slot(s, Held(s, e) + 1) = e
         /\ s # e => \A k \in 1 .. Held(s, e) - 1 : Slot(Following(s), k) = Slot(s, k + 1)
<1>1. /\ Capacity \in Nat \ {0}
      /\ s \in Nat /\ s < Capacity /\ e \in Nat /\ e < Capacity
  BY WaitFreeAssumption DEF Slots
<1>2. /\ Held(s, e) = IF s <= e THEN e - s ELSE e + Capacity - s
      /\ Held(s, e) \in 0 .. Capacity - 1
  BY HeldFacts
<1>3. Slot(s, 1) = s
  <2>1. 1 \in 1 .. Capacity  BY <1>1
  <2>2. Slot(s, 1) = IF s + 1 - 1 < Capacity THEN s + 1 - 1 ELSE s + 1 - 1 - Capacity
    BY <2>1, SlotFacts
  <2> QED  BY <1>1, <2>2
<1>4. Slot(s, Held(s, e) + 1) = e
  <2> DEFINE k == Held(s, e) + 1
  <2>1. k \in 1 .. Capacity  BY <1>1, <1>2
  <2>2. Slot(s, k) = IF s + k - 1 < Capacity THEN s + k - 1 ELSE s + k - 1 - Capacity
    BY <2>1, SlotFacts
  <2> QED  BY <1>1, <1>2, <2>2
<1>5. ASSUME NEW k \in 1 .. Held(s, e) - 1
      PROVE  Slot(Following(s), k) = Slot(s, k + 1)
  <2>1. k \in 1 .. Capacity /\ k + 1 \in 1 .. Capacity  BY <1>1, <1>2, <1>5
  <2>2. /\ Following(s) \in Slots
        /\ Following(s) = IF s + 1 = Capacity THEN 0 ELSE s + 1
    BY FollowingFacts
  <2>3. Slot(Following(s), k) = IF Following(s) + k - 1 < Capacity THEN Following(s) + k - 1
                                ELSE Following(s) + k - 1 - Capacity
    BY <2>1, <2>2, SlotFacts
  <2>4. Slot(s, k + 1) = IF s + (k + 1) - 1 < Capacity THEN s + (k + 1) - 1
                         ELSE s + (k + 1) - 1 - Capacity
    BY <2>1, SlotFacts
  <2> QED  BY <1>1, <2>1, <2>2, <2>3, <2>4
<1> QED  BY <1>3, <1>4, <1>5

\* Publish appends the item.
LEMMA PublishIsPut ==
  ASSUME IInv, IInv', Publish
  PROVE  \E i \in Items : Fifo!Put(i)
<1> DEFINE T == Items \cup {NoItem}
           n == Held(head_, tail_)
<1>1. /\ head_ \in Slots /\ tail_ \in Slots /\ headSeen \in Slots
      /\ writing \in Items /\ writing # NoItem /\ buffer_[tail_] = writing
      /\ writing \notin Range(taken)
      /\ \A s \in Slots : s # tail_ => buffer_[s] # writing
      /\ Held(headSeen, tail_) + 1 < Capacity
      /\ Held(headSeen, head_) + n = Held(headSeen, tail_)
  BY DEF IInv, ViewsLate, Writing, Publish
<1>2. /\ queue \in Seq(T) /\ Len(queue) = n
      /\ \A k \in 1 .. n : queue[k] = buffer_[Slot(head_, k)]
  BY InvQueueInRing DEF QueueInRing
<1>3. n + 1 < Capacity /\ n \in Nat /\ Capacity \in Nat
  <2>1. /\ Held(headSeen, head_) \in Nat /\ n \in Nat
        /\ Held(headSeen, tail_) \in Nat /\ Capacity \in Nat
    BY <1>1, HeldFacts, WaitFreeAssumption
  <2> QED  BY <1>1, <2>1
<1>4. /\ head_' = head_ /\ buffer_' = buffer_ /\ taken' = taken
      /\ tail_' = Following(tail_)
  BY DEF Publish, consumer
<1>5. Held(head_', tail_') = n + 1  BY <1>1, <1>3, <1>4, HeldFollowing
<1>6. /\ queue' \in Seq(T) /\ Len(queue') = n + 1
      /\ \A k \in 1 .. n + 1 : queue'[k] = buffer_[Slot(head_, k)]
  <2>1. /\ queue' \in Seq(T)
        /\ Len(queue') = Held(head_', tail_')
        /\ \A k \in 1 .. Held(head_', tail_') : queue'[k] = buffer_'[Slot(head_', k)]
    <3>1. QueueInRing'  BY InvQueueInRing, PTL
    <3> QED  BY <3>1 DEF QueueInRing
  <2> QED  BY <1>4, <1>5, <2>1
<1>7. Slot(head_, n + 1) = tail_  BY <1>1, SlotOrder
<1>8. queue' = Append(queue, writing)
  <2>1. /\ Append(queue, writing) \in Seq(T)
        /\ Len(Append(queue, writing)) = n + 1
        /\ \A k \in 1 .. n : Append(queue, writing)[k] = queue[k]
        /\ Append(queue, writing)[n + 1] = writing
    BY <1>1, <1>2, <1>3
  <2>2. \A k \in 1 .. n + 1 : k \in 1 .. n \/ k = n + 1  BY <1>3
  <2>3. \A k \in 1 .. n + 1 : queue'[k] = Append(queue, writing)[k]
    BY <1>1, <1>2, <1>6, <1>7, <2>1, <2>2
  <2> QED  BY <1>6, <2>1, <2>3, SeqEqual
<1>9. writing \notin Range(queue)
  <2>1. \A k \in 1 .. n : Slot(head_, k) \in Slots /\ Slot(head_, k) # tail_
    BY <1>1, SlotInside
  <2>2. DOMAIN queue = 1 .. n  BY <1>2, LenProperties
  <2> QED  BY <1>1, <1>2, <2>1, <2>2 DEF Range
<1>10. Fifo!Put(writing)
  <2>1. Len(queue) < Capacity - 1  BY <1>2, <1>3
  <2> QED  BY <1>1, <1>4, <1>8, <1>9, <2>1 DEF Fifo!Put, Fifo!Range, Range
<1> QED  BY <1>1, <1>10

\* Release hands out the head.
LEMMA ReleaseIsGet ==
  ASSUME IInv, IInv', Release
  PROVE  Fifo!Get
<1> DEFINE T == Items \cup {NoItem}
           n == Held(head_, tail_)
<1>1. /\ head_ \in Slots /\ tail_ \in Slots
      /\ reading /\ item = buffer_[head_]
  BY DEF IInv, ViewsLate, Reading, Release
<1>2. head_ # tail_  BY <1>1, ReadingNotEmpty
<1>3. n \in Nat \ {0}  BY <1>1, <1>2, HeldFacts
<1>4. /\ queue \in Seq(T) /\ Len(queue) = n
      /\ \A k \in 1 .. n : queue[k] = buffer_[Slot(head_, k)]
  BY InvQueueInRing DEF QueueInRing
<1>5. /\ head_' = Following(head_) /\ tail_' = tail_ /\ buffer_' = buffer_
      /\ taken' = Append(taken, item)
  BY DEF Release, producer
<1>6. Held(head_', tail_') = n - 1  BY <1>1, <1>2, <1>5, HeldFollowing
<1>7. /\ queue' \in Seq(T) /\ Len(queue') = n - 1
      /\ \A k \in 1 .. n - 1 : queue'[k] = buffer_[Slot(Following(head_), k)]
  <2>1. /\ queue' \in Seq(T)
        /\ Len(queue') = Held(head_', tail_')
        /\ \A k \in 1 .. Held(head_', tail_') : queue'[k] = buffer_'[Slot(head_', k)]
    <3>1. QueueInRing'  BY InvQueueInRing, PTL
    <3> QED  BY <3>1 DEF QueueInRing
  <2> QED  BY <1>5, <1>6, <2>1
<1>8. queue # <<>>  BY <1>3, <1>4, EmptySeq
<1>9. Head(queue) = item
  <2>1. Head(queue) = queue[1]  BY <1>4, <1>8
  <2>2. queue[1] = buffer_[Slot(head_, 1)]  BY <1>3, <1>4
  <2>3. Slot(head_, 1) = head_  BY <1>1, SlotOrder
  <2> QED  BY <1>1, <2>1, <2>2, <2>3
<1>10. queue' = Tail(queue)
  <2>1. /\ Tail(queue) \in Seq(T) /\ Len(Tail(queue)) = n - 1
        /\ \A k \in 1 .. n - 1 : Tail(queue)[k] = queue[k + 1]
    BY <1>4, <1>8, HeadTailProperties
  <2>2. \A k \in 1 .. n - 1 : k + 1 \in 1 .. n  BY <1>3
  <2>3. \A k \in 1 .. n - 1 : Slot(Following(head_), k) = Slot(head_, k + 1)
    BY <1>1, <1>2, SlotOrder
  <2>4. \A k \in 1 .. n - 1 : queue'[k] = Tail(queue)[k]
    BY <1>4, <1>7, <2>1, <2>2, <2>3
  <2> QED  BY <1>7, <2>1, <2>4, SeqEqual
<1> QED  BY <1>5, <1>8, <1>9, <1>10 DEF Fifo!Get

\* The slot being written is outside of the abstract queue.
LEMMA StoreStutters ==
  ASSUME IInv, Store
  PROVE  queue' = queue /\ taken' = taken
<1>1. /\ head_ \in Slots /\ tail_ \in Slots
      /\ buffer_ \in [Slots -> Items \cup {NoItem}]
  BY DEF IInv, ViewsLate
<1>2. /\ head_' = head_ /\ tail_' = tail_ /\ taken' = taken
      /\ buffer_' = [buffer_ EXCEPT ![tail_] = writing]
  BY DEF Store, InSlot, consumer
<1>3. \A k \in 1 .. Held(head_, tail_) : Slot(head_, k) \in Slots /\ Slot(head_, k) # tail_
  BY <1>1, SlotInside
<1>4. \A k \in 1 .. Held(head_, tail_) : buffer_'[Slot(head_, k)] = buffer_[Slot(head_, k)]
  BY <1>1, <1>2, <1>3
<1>5. /\ queue = [k \in 1 .. Held(head_, tail_) |-> buffer_[Slot(head_, k)]]
      /\ queue' = [k \in 1 .. Held(head_, tail_) |-> buffer_'[Slot(head_, k)]]
  BY <1>2 DEF queue, Slot, Held
<1> QED  BY <1>2, <1>4, <1>5

LEMMA StepImplementsFifo ==
  ASSUME IInv, IInv', [Next]_vars
  PROVE  [Fifo!Next]_<<queue, taken>>
<1>1. ASSUME UNCHANGED <<buffer_, head_, tail_, taken>>
      PROVE  queue' = queue /\ taken' = taken
  BY <1>1 DEF queue, Held
<1>2. ASSUME NEW i \in Items, Admit(i) PROVE queue' = queue /\ taken' = taken
  BY <1>1, <1>2 DEF Admit, consumer
<1>3. CASE Store  BY <1>3, StoreStutters
<1>4. CASE Publish  BY <1>4, PublishIsPut DEF Fifo!Next
<1>5. CASE Begin  BY <1>1, <1>5 DEF Begin, producer
<1>6. CASE Load  BY <1>1, <1>6 DEF Load, producer
<1>7. CASE Release  BY <1>7, ReleaseIsGet DEF Fifo!Next
<1>8. CASE HeadArrives  BY <1>1, <1>8 DEF HeadArrives, producer, consumer
<1>9. CASE TailArrives  BY <1>1, <1>9 DEF TailArrives, producer, consumer
<1>10. CASE UNCHANGED vars  BY <1>1, <1>10 DEF vars, producer, consumer
<1> QED
  BY <1>2, <1>3, <1>4, <1>5, <1>6, <1>7, <1>8, <1>9, <1>10 DEF Next, Dequeue

\* The ring implements a FIFO for Capacity - 1 items: dequeue returns what
\* enqueue accepted, each item once and in order.
THEOREM RingImplementsFifo == Spec => ImplementsFifo
<1>1. Init => Fifo!Init
  <2> SUFFICES ASSUME Init PROVE Fifo!Init
    OBVIOUS
  <2>1. IInv  BY InitIInv
  <2>2. 0 \in Slots  BY WaitFreeAssumption DEF Slots
  <2>3. queue \in Seq(Items \cup {NoItem}) /\ Len(queue) = 0
    BY <2>1, <2>2, InvQueueInRing, HeldFacts DEF Init, QueueInRing
  <2> QED  BY <2>3, EmptySeq DEF Init, Fifo!Init
<1>2. IInv /\ IInv' /\ [Next]_vars => [Fifo!Next]_<<queue, taken>>
  BY StepImplementsFifo
<1> QED  BY <1>1, <1>2, AlwaysIInv, PTL DEF Spec, ImplementsFifo, Fifo!Spec
=============================================================================
