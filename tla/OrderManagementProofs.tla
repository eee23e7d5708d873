------------------------- MODULE OrderManagementProofs -------------------------
(***************************************************************************)
(* OrderManagement, for any pool, any heap, any number of retries and of   *)
(* orders, and any sequence of calls: the pool cannot overflow, and the    *)
(* map agrees with the exchange but for orders the client lost track of.   *)
(* Benchmark: what its order of operations avoids, and what it leaves.     *)
(* ReplyDecoding, for any buffer, stream and value: the text is complete   *)
(* and the document means what the reply says, so the order book does too. *)
(***************************************************************************)
EXTENDS Benchmark, SequenceTheorems, FiniteSetTheorems, InductionTheorems

\* What the theorems need of TypeOK.
MapTypeOK ==
  /\ freeBlocks \in Seq(Addresses)
  /\ IsFiniteSet(Tracked)
  /\ \A id \in Tracked : orders[id] \in Nodes
  /\ mem \in [Addresses -> 0 .. MaxOrders]
  /\ created \in Nat
  /\ live \subseteq 1 .. created

\* Two orders never share a node.
NodesDistinct == \A x, y \in Tracked : orders[x] = orders[y] => x = y

IInv == MapTypeOK /\ NodesDistinct /\ BlocksAccounted /\ BookMatchesExchange

-----------------------------------------------------------------------------
(* What a call does to the map and the pool.                               *)

\* A result comes from an attempt the exchange has executed.
LEMMA ReportedWasExecuted ==
  ASSUME NEW o \in Outcomes, o.ok, o.kind \in WithResult
  PROVE  o.effects \in Nat /\ o.effects > 0
BY OrderAssumption DEF Outcomes

LEMMA PopBackFacts ==
  ASSUME NEW S, NEW q \in Seq(S), q # <<>>
  PROVE  /\ SubSeq(q, 1, Len(q) - 1) \in Seq(S)
         /\ Len(SubSeq(q, 1, Len(q) - 1)) = Len(q) - 1
         /\ Len(q) \in Nat
<1>1. Len(q) \in Nat /\ Len(q) > 0 /\ DOMAIN q = 1 .. Len(q)
  OBVIOUS
<1> QED  BY <1>1

\* allocate, placement new, orders[id] = order.
LEMMA KeepFacts ==
  ASSUME MapTypeOK, NodesDistinct, BlocksAccounted, NEW id, Keep(id)
  PROVE  /\ freeBlocks' \in Seq(Addresses)
         /\ IsFiniteSet(Tracked')
         /\ \A x \in Tracked' : orders'[x] \in Nodes
         /\ NodesDistinct'
         /\ BlocksAccounted'
         /\ freeBlocks # <<>> => Tracked' = Tracked \cup {id}
         /\ freeBlocks = <<>> => Tracked' = Tracked
<1>1. CASE freeBlocks = <<>>
  BY <1>1 DEF Keep, poolVars, MapTypeOK, NodesDistinct, BlocksAccounted, Tracked
<1>2. CASE freeBlocks # <<>>
  <2>1. PICK node \in NodesFor(id) : Store(Back, id, node)
    BY <1>2 DEF Keep
  <2>2. /\ freeBlocks' = SubSeq(freeBlocks, 1, Len(freeBlocks) - 1)
        /\ freeBlocks \in Seq(Addresses)
    BY <1>2 DEF Keep, MapTypeOK
  <2>3. /\ freeBlocks' \in Seq(Addresses) /\ Len(freeBlocks) \in Nat
        /\ Len(freeBlocks') = Len(freeBlocks) - 1
    BY <1>2, <2>2, PopBackFacts
  <2>4. orders' = [x \in Tracked \cup {id} |->
                     IF x = id THEN node ELSE orders[x]]
    BY <2>1 DEF Store
  <2>5. Tracked' = Tracked \cup {id}
    BY <2>4 DEF Tracked
  <2>6. /\ IsFiniteSet(Tracked')
        /\ Cardinality(Tracked') \in Nat /\ Cardinality(Tracked) \in Nat
        /\ Cardinality(Tracked') <= Cardinality(Tracked) + 1
    <3>1. IsFiniteSet(Tracked)  BY DEF MapTypeOK
    <3>2. /\ IsFiniteSet(Tracked \cup {id})
          /\ \/ Cardinality(Tracked \cup {id}) = Cardinality(Tracked)
             \/ Cardinality(Tracked \cup {id}) = Cardinality(Tracked) + 1
      BY <3>1, FS_AddElement
    <3>3. Cardinality(Tracked) \in Nat  BY <3>1, FS_CardinalityType
    <3> QED  BY <2>5, <3>2, <3>3
  <2>7. node \in Nodes /\ \A x \in Tracked : orders[x] = node => x = id
    <3>1. CASE id \in Tracked
      BY <2>1, <3>1 DEF NodesFor, NodesDistinct, MapTypeOK
    <3>2. CASE id \notin Tracked
      BY <2>1, <3>2 DEF NodesFor, Range, Tracked
    <3> QED  BY <3>1, <3>2
  <2>8. \A x \in Tracked' : orders'[x] = IF x = id THEN node ELSE orders[x]
    BY <2>4, <2>5
  <2>9. \A x \in Tracked' : orders'[x] \in Nodes
    BY <2>5, <2>7, <2>8 DEF MapTypeOK
  <2>10. NodesDistinct'
    BY <2>5, <2>7, <2>8 DEF NodesDistinct
  <2>11. BlocksAccounted'
    <3>1. Len(Blocks) \in Nat
      BY OrderAssumption
    <3>2. Len(freeBlocks) + Cardinality(Tracked) <= Len(Blocks)
      BY DEF BlocksAccounted
    <3>3. Len(freeBlocks') + Cardinality(Tracked') <= Len(Blocks)
      BY <3>1, <3>2, <2>3, <2>6
    <3> QED  BY <3>3 DEF BlocksAccounted
  <2> QED  BY <1>2, <2>3, <2>5, <2>6, <2>9, <2>10, <2>11
<1> QED  BY <1>1, <1>2

\* deallocate and erase.
LEMMA DropFacts ==
  ASSUME MapTypeOK, NodesDistinct, BlocksAccounted, NEW id \in Tracked,
         Drop(id)
  PROVE  /\ freeBlocks' \in Seq(Addresses)
         /\ IsFiniteSet(Tracked')
         /\ \A x \in Tracked' : orders'[x] \in Nodes
         /\ NodesDistinct'
         /\ BlocksAccounted'
         /\ Tracked' = Tracked \ {id}
<1>1. /\ freeBlocks' = Append(freeBlocks, orders[id])
      /\ orders' = [x \in Tracked \ {id} |-> orders[x]]
      /\ freeBlocks \in Seq(Addresses) /\ orders[id] \in Addresses
  BY DEF Drop, MapTypeOK, Addresses
<1>2. freeBlocks' \in Seq(Addresses) /\ Len(freeBlocks') = Len(freeBlocks) + 1
      /\ Len(freeBlocks) \in Nat
  BY <1>1
<1>3. Tracked' = Tracked \ {id}
  BY <1>1 DEF Tracked
<1>4. /\ IsFiniteSet(Tracked') /\ Cardinality(Tracked) \in Nat
      /\ Cardinality(Tracked') = Cardinality(Tracked) - 1
  BY <1>3, FS_RemoveElement, FS_CardinalityType DEF MapTypeOK
<1>5. \A x \in Tracked' : orders'[x] = orders[x] /\ x \in Tracked
  BY <1>1, <1>3
<1>6. BlocksAccounted'
  BY <1>2, <1>4, OrderAssumption DEF BlocksAccounted
<1> QED  BY <1>2, <1>3, <1>4, <1>5, <1>6 DEF NodesDistinct, MapTypeOK

-----------------------------------------------------------------------------
LEMMA InitIInv == Init => IInv
<1> SUFFICES ASSUME Init PROVE IInv
  OBVIOUS
<1>1. Tracked = {} /\ live = {}
  BY DEF Init, Tracked
<1>2. IsFiniteSet({}) /\ Cardinality({}) = 0
  BY FS_EmptySet
<1>3. Blocks \in Seq(Addresses) /\ Len(Blocks) \in Nat
  BY OrderAssumption DEF Addresses, BlockSet
<1>4. mem \in [Addresses -> 0 .. MaxOrders]
  BY OrderAssumption DEF Init
<1>5. MapTypeOK
  BY <1>1, <1>2, <1>3, <1>4 DEF Init, MapTypeOK
<1>6. NodesDistinct /\ BlocksAccounted /\ BookMatchesExchange
  BY <1>1, <1>2, <1>3
     DEF Init, NodesDistinct, BlocksAccounted, BookMatchesExchange
<1> QED  BY <1>5, <1>6 DEF IInv

\* A step that keeps map and pool keeps all that is said of them alone.
LEMMA PoolUnchanged ==
  ASSUME IInv, UNCHANGED poolVars
  PROVE  /\ freeBlocks' \in Seq(Addresses) /\ IsFiniteSet(Tracked')
         /\ \A id \in Tracked' : orders'[id] \in Nodes
         /\ NodesDistinct' /\ BlocksAccounted' /\ Tracked' = Tracked
BY DEF IInv, MapTypeOK, NodesDistinct, BlocksAccounted, Tracked, poolVars

LEMMA PlacePreserves ==
  ASSUME IInv, NEW o \in Outcomes, PlaceOrder(o)
  PROVE  /\ freeBlocks' \in Seq(Addresses) /\ IsFiniteSet(Tracked')
         /\ \A id \in Tracked' : orders'[id] \in Nodes
         /\ NodesDistinct' /\ BlocksAccounted' /\ BookMatchesExchange'
         /\ created' \in Nat /\ live' \subseteq 1 .. created'
<1>1. /\ created \in Nat /\ o.effects \in Nat /\ created' = created + o.effects
      /\ live' = live \cup Bought(o.effects)
      /\ Bought(o.effects) = created + 1 .. created + o.effects
      /\ live \subseteq 1 .. created
  BY OrderAssumption DEF PlaceOrder, Buy, Bought, IInv, MapTypeOK, Outcomes
<1>2. created' \in Nat /\ live' \subseteq 1 .. created'
  <2>1. 1 .. created \subseteq 1 .. created + o.effects
    BY <1>1
  <2>2. created + 1 .. created + o.effects \subseteq 1 .. created + o.effects
    BY <1>1
  <2>3. created + o.effects \in Nat
    BY <1>1
  <2> QED  BY <1>1, <2>1, <2>2, <2>3
<1>3. CASE PlaceSucceeds(o)
  <2>1. o.effects > 0
    BY <1>3, ReportedWasExecuted DEF PlaceSucceeds, WithResult
  <2>2. /\ freeBlocks' \in Seq(Addresses) /\ IsFiniteSet(Tracked')
        /\ \A id \in Tracked' : orders'[id] \in Nodes
        /\ NodesDistinct' /\ BlocksAccounted'
        /\ freeBlocks # <<>> => Tracked' = Tracked \cup {created'}
        /\ freeBlocks = <<>> => Tracked' = Tracked
    BY <1>3, KeepFacts DEF PlaceSucceeds, IInv
  <2>3. BookMatchesExchange'
    <3>1. created' \in Bought(o.effects)  BY <1>1, <2>1
    <3>2. Tracked \ lost = live \ lost  BY DEF IInv, BookMatchesExchange
    <3>3. CASE freeBlocks = <<>>
      <4>1. lost' = lost \cup Bought(o.effects) /\ Tracked' = Tracked
        BY <1>3, <2>2, <3>3 DEF PlaceSucceeds, Lose
      <4>2. Tracked' \ lost' = live' \ lost'  BY <1>1, <3>2, <4>1
      <4> QED  BY <4>2 DEF BookMatchesExchange, Tracked
    <3>4. CASE freeBlocks # <<>>
      <4>1. /\ lost' = lost \cup (Bought(o.effects) \ {created'})
            /\ Tracked' = Tracked \cup {created'}
        BY <1>3, <2>2, <3>4 DEF PlaceSucceeds, Lose
      <4>2. Tracked' \ lost' = live' \ lost'  BY <1>1, <3>1, <3>2, <4>1
      <4> QED  BY <4>2 DEF BookMatchesExchange, Tracked
    <3> QED  BY <3>3, <3>4
  <2> QED  BY <1>2, <2>2, <2>3
<1>4. CASE PlaceFails(o) \/ PlaceAborts(o)
  <2>1. UNCHANGED poolVars /\ lost' = lost \cup Bought(o.effects)
    BY <1>4 DEF PlaceFails, PlaceAborts, Lose
  <2>2. Tracked' = Tracked  BY <2>1, PoolUnchanged
  <2>3. Tracked' \ lost' = live' \ lost'
    BY <1>1, <2>1, <2>2 DEF IInv, BookMatchesExchange
  <2> QED  BY <1>2, <2>1, <2>3, PoolUnchanged DEF BookMatchesExchange, Tracked
<1> QED  BY <1>3, <1>4 DEF PlaceOrder

LEMMA ModifyPreserves ==
  ASSUME IInv, NEW id, NEW o \in Outcomes, ModifyOrder(id, o)
  PROVE  /\ freeBlocks' \in Seq(Addresses) /\ IsFiniteSet(Tracked')
         /\ \A x \in Tracked' : orders'[x] \in Nodes
         /\ NodesDistinct' /\ BlocksAccounted' /\ BookMatchesExchange'
         /\ created' \in Nat /\ live' \subseteq 1 .. created'
<1>1. UNCHANGED <<created, live, lost>>
  BY DEF ModifyOrder
<1>2. created' \in Nat /\ live' \subseteq 1 .. created'
  BY <1>1 DEF IInv, MapTypeOK
<1>3. CASE ModifySucceeds(id, o)
  <2>1. id \in live
    BY <1>3, ReportedWasExecuted DEF ModifySucceeds, ModifyOrder, WithResult
  <2>2. /\ freeBlocks' \in Seq(Addresses) /\ IsFiniteSet(Tracked')
        /\ \A x \in Tracked' : orders'[x] \in Nodes
        /\ NodesDistinct' /\ BlocksAccounted'
        /\ Tracked' = Tracked \/ Tracked' = Tracked \cup {id}
    BY <1>3, KeepFacts DEF ModifySucceeds, IInv
  <2>3. BookMatchesExchange'
    BY <1>1, <2>1, <2>2 DEF IInv, BookMatchesExchange
  <2> QED  BY <1>2, <2>2, <2>3
<1>4. CASE ModifyFails(id, o) \/ ModifyAborts(id, o)
  <2>1. UNCHANGED poolVars
    BY <1>4 DEF ModifyFails, ModifyAborts
  <2>2. BookMatchesExchange'
    BY <1>1, <2>1, PoolUnchanged DEF IInv, BookMatchesExchange
  <2> QED  BY <1>2, <2>1, <2>2, PoolUnchanged
<1> QED  BY <1>3, <1>4 DEF ModifyOrder

LEMMA CancelPreserves ==
  ASSUME IInv, NEW id, NEW o \in Outcomes, CancelOrder(id, o)
  PROVE  /\ freeBlocks' \in Seq(Addresses) /\ IsFiniteSet(Tracked')
         /\ \A x \in Tracked' : orders'[x] \in Nodes
         /\ NodesDistinct' /\ BlocksAccounted' /\ BookMatchesExchange'
         /\ created' \in Nat /\ live' \subseteq 1 .. created'
<1>1. /\ created' = created
      /\ o.effects > 0 => id \in live /\ live' = live \ {id}
      /\ ~(o.effects > 0) => live' = live
  BY DEF CancelOrder
<1>2. created' \in Nat /\ live' \subseteq 1 .. created'
  BY <1>1 DEF IInv, MapTypeOK
<1>3. Tracked \ lost = live \ lost  BY DEF IInv, BookMatchesExchange
<1>4. CASE CancelSucceeds(id, o)
  <2>1. /\ o.effects = 0 => lost' = lost \cup ({id} \cap live)
        /\ o.effects # 0 => lost' = lost
    BY <1>4 DEF CancelSucceeds, Lose
  <2>2. /\ o.effects \in Nat
        /\ o.effects # 0 => id \in live /\ live' = live \ {id}
        /\ o.effects = 0 => live' = live
    BY <1>1, OrderAssumption DEF Outcomes
  <2>3. CASE id \in Tracked
    <3>1. /\ freeBlocks' \in Seq(Addresses) /\ IsFiniteSet(Tracked')
          /\ \A x \in Tracked' : orders'[x] \in Nodes
          /\ NodesDistinct' /\ BlocksAccounted'
          /\ Tracked' = Tracked \ {id}
      BY <1>4, <2>3, DropFacts DEF CancelSucceeds, IInv
    <3>2. Tracked' \ lost' = live' \ lost'
      BY <1>3, <2>1, <2>2, <3>1
    <3> QED  BY <1>2, <3>1, <3>2 DEF BookMatchesExchange, Tracked
  <2>4. CASE id \notin Tracked
    <3>1. UNCHANGED poolVars
      BY <1>4, <2>4 DEF CancelSucceeds
    <3>2. Tracked' = Tracked  BY <3>1, PoolUnchanged
    <3>3. Tracked' \ lost' = live' \ lost'
      BY <1>3, <2>1, <2>2, <2>4, <3>2
    <3> QED  BY <1>2, <3>1, <3>3, PoolUnchanged DEF BookMatchesExchange, Tracked
  <2> QED  BY <2>3, <2>4
<1>5. CASE CancelFails(id, o) \/ CancelAborts(id, o)
  <2>1. UNCHANGED poolVars
    BY <1>5 DEF CancelFails, CancelAborts
  <2>2. /\ o.effects > 0 => lost' = lost \cup {id}
        /\ ~(o.effects > 0) => lost' = lost
    BY <1>5 DEF CancelFails, CancelAborts, Lose
  <2>3. Tracked' = Tracked  BY <2>1, PoolUnchanged
  <2>4. Tracked' \ lost' = live' \ lost'  BY <1>1, <1>3, <2>2, <2>3
  <2> QED  BY <1>2, <2>1, <2>4, PoolUnchanged DEF BookMatchesExchange, Tracked
<1> QED  BY <1>4, <1>5 DEF CancelOrder

\* The data at any address is an order's or null.
LEMMA MemPreserved ==
  ASSUME IInv, Next
  PROVE  mem' \in [Addresses -> 0 .. MaxOrders]
<1>1. mem \in [Addresses -> 0 .. MaxOrders]
  BY DEF IInv, MapTypeOK
<1>2. ASSUME NEW id \in 0 .. MaxOrders, Keep(id)
      PROVE  mem' \in [Addresses -> 0 .. MaxOrders]
  <2>1. CASE freeBlocks = <<>>
    BY <2>1, <1>1, <1>2 DEF Keep, poolVars
  <2>2. CASE freeBlocks # <<>>
    <3>1. PICK node \in NodesFor(id) : Store(Back, id, node)
      BY <2>2, <1>2 DEF Keep
    <3> DEFINE m == IF id \notin Tracked /\ node = Back
                    THEN [mem EXCEPT ![Back] = 0]
                    ELSE [mem EXCEPT ![Back] = id]
    <3>2. m \in [Addresses -> 0 .. MaxOrders]
      <4>1. 0 \in 0 .. MaxOrders  BY OrderAssumption
      <4>2. [mem EXCEPT ![Back] = 0] \in [Addresses -> 0 .. MaxOrders]
        BY <4>1, <1>1
      <4>3. [mem EXCEPT ![Back] = id] \in [Addresses -> 0 .. MaxOrders]
        BY <1>1
      <4> QED  BY <4>2, <4>3
    <3>3. Back \in Addresses
      <4>1. freeBlocks \in Seq(Addresses)  BY DEF IInv, MapTypeOK
      <4>2. Len(freeBlocks) \in DOMAIN freeBlocks  BY <4>1, <2>2
      <4> QED  BY <4>1, <4>2 DEF Back
    <3>4. mem' = [m EXCEPT ![node] = m[Back]]
      BY <3>1 DEF Store
    <3> QED  BY <3>2, <3>3, <3>4
  <2> QED  BY <2>1, <2>2
<1>3. ASSUME NEW o \in Outcomes, PlaceOrder(o)
      PROVE  mem' \in [Addresses -> 0 .. MaxOrders]
  <2>1. created' \in 0 .. MaxOrders
    <3>1. created + o.effects <= MaxOrders /\ created' = created + o.effects
      BY <1>3 DEF PlaceOrder, Buy
    <3>2. created \in Nat /\ o.effects \in Nat /\ MaxOrders \in Nat
      BY OrderAssumption DEF IInv, MapTypeOK, Outcomes
    <3> QED  BY <3>1, <3>2
  <2> QED
    BY <1>1, <1>2, <1>3, <2>1
       DEF PlaceOrder, PlaceSucceeds, PlaceFails, PlaceAborts, poolVars
<1>4. ASSUME NEW id \in 0 .. MaxOrders, NEW o \in Outcomes,
             ModifyOrder(id, o) \/ CancelOrder(id, o)
      PROVE  mem' \in [Addresses -> 0 .. MaxOrders]
  BY <1>1, <1>2, <1>4
     DEF ModifyOrder, ModifySucceeds, ModifyFails, ModifyAborts, CancelOrder,
         CancelSucceeds, CancelFails, CancelAborts, poolVars
<1> QED  BY <1>1, <1>3, <1>4 DEF Next, TokenThrows, poolVars

LEMMA NextIInv == IInv /\ [Next]_vars => IInv'
<1> SUFFICES ASSUME IInv, [Next]_vars PROVE IInv'
  OBVIOUS
<1>1. ASSUME NEW o \in Outcomes, Next, PlaceOrder(o) PROVE IInv'
  BY <1>1, PlacePreserves, MemPreserved DEF IInv, MapTypeOK
<1>2. ASSUME NEW id, NEW o \in Outcomes, Next,
             ModifyOrder(id, o) \/ CancelOrder(id, o)
      PROVE  IInv'
  BY <1>2, ModifyPreserves, CancelPreserves, MemPreserved DEF IInv, MapTypeOK
<1>3. ASSUME UNCHANGED <<poolVars, created, live, lost>>
      PROVE  IInv'
  BY <1>3, PoolUnchanged
     DEF IInv, MapTypeOK, BookMatchesExchange, poolVars
<1> QED  BY <1>1, <1>2, <1>3 DEF Next, TokenThrows, vars

LEMMA Invariance == Spec => []IInv
BY InitIInv, NextIInv, PTL DEF Spec

\* However many orders are placed, modified and cancelled, the pool never has
\* more free blocks than it was made with, and one less for every tracked
\* order.
THEOREM PoolNeverOverflows == Spec => []BlocksAccounted
BY Invariance, PTL DEF IInv

\* The map and the exchange agree on every order that was not itself lost in a
\* failed call, a retried buy, an exhausted pool, or a reply without result.
THEOREM BookIsRight == Spec => []BookMatchesExchange
BY Invariance, PTL DEF IInv

\* No failing path of placeOrder, modifyOrder or cancelOrder touches the map
\* or the pool.
THEOREM FailuresAreClean == Spec => FailureChangesNothing
<1>1. [Next]_vars => (returned' # "true" => UNCHANGED poolVars) \/ UNCHANGED vars
  BY DEF Next, PlaceOrder, PlaceSucceeds, PlaceFails, PlaceAborts,
         ModifyOrder, ModifySucceeds, ModifyFails, ModifyAborts,
         CancelOrder, CancelSucceeds, CancelFails, CancelAborts,
         TokenThrows, Answer
<1> QED  BY <1>1, PTL DEF Spec, FailureChangesNothing

-----------------------------------------------------------------------------
(* The data of the orders.                                                 *)

\* operator[] copies what placement new has made, if the two do not overlap.
LEMMA KeepStores ==
  ASSUME MapTypeOK, NodesDistinct, StoredDataRight, NEW id, Keep(id)
  PROVE  StoredDataRight'
<1>1. CASE freeBlocks = <<>>
  BY <1>1 DEF Keep, poolVars, StoredDataRight, Tracked
<1>2. CASE freeBlocks # <<>>
  <2> SUFFICES ASSUME constructed' \subseteq BlockSet, NEW x \in Tracked'
               PROVE  mem'[orders'[x]] = x
    BY DEF StoredDataRight
  <2> DEFINE p == Back
  <2>1. PICK node \in NodesFor(id) : Store(p, id, node)
    BY <1>2 DEF Keep
  <2>2. constructed \subseteq BlockSet /\ p \in BlockSet
    BY <1>2 DEF Keep
  <2>3. /\ p \notin Nodes /\ p \in Addresses
        /\ mem \in [Addresses -> 0 .. MaxOrders]
        /\ \A y \in Tracked : orders[y] \in Nodes /\ mem[orders[y]] = y
    BY <2>2, OrderAssumption DEF MapTypeOK, StoredDataRight, BlockSet, Addresses
  <2>4. node \in Nodes /\ \A y \in Tracked : orders[y] = node => y = id
    <3>1. CASE id \in Tracked
      BY <2>1, <3>1 DEF NodesFor, NodesDistinct, MapTypeOK
    <3>2. CASE id \notin Tracked
      BY <2>1, <3>2 DEF NodesFor, Range, Tracked
    <3> QED  BY <3>1, <3>2
  <2> HIDE DEF p
  <2>5. /\ node # p /\ node \in Addresses
        /\ mem' = [[mem EXCEPT ![p] = id] EXCEPT ![node] = [mem EXCEPT ![p] = id][p]]
        /\ orders' = [y \in Tracked \cup {id} |-> IF y = id THEN node ELSE orders[y]]
    BY <2>1, <2>3, <2>4 DEF Store, Addresses
  <2>6. /\ mem'[node] = id
        /\ \A a \in Addresses : a # p /\ a # node => mem'[a] = mem[a]
    BY <2>3, <2>5
  <2>7. x \in Tracked \cup {id}  BY <2>5 DEF Tracked
  <2>8. CASE x = id  BY <2>5, <2>6, <2>8
  <2>9. CASE x # id
    <3>1. /\ x \in Tracked /\ orders'[x] = orders[x]
          /\ orders[x] \in Nodes /\ orders[x] # node
      BY <2>3, <2>4, <2>5, <2>7, <2>9
    <3> QED  BY <2>3, <2>6, <3>1 DEF Addresses
  <2> QED  BY <2>8, <2>9
<1> QED  BY <1>1, <1>2

LEMMA NextStoredDataRight ==
  ASSUME IInv, StoredDataRight, [Next]_vars
  PROVE  StoredDataRight'
<1>1. ASSUME UNCHANGED poolVars PROVE StoredDataRight'
  BY <1>1 DEF poolVars, StoredDataRight, Tracked
<1>2. ASSUME NEW id, Keep(id) PROVE StoredDataRight'
  BY <1>2, KeepStores DEF IInv
<1>3. ASSUME NEW id \in Tracked, Drop(id), UNCHANGED <<mem, constructed>>
      PROVE  StoredDataRight'
  <2>1. orders' = [y \in Tracked \ {id} |-> orders[y]]  BY <1>3 DEF Drop
  <2>2. Tracked' = Tracked \ {id} /\ \A y \in Tracked' : orders'[y] = orders[y]
    BY <2>1 DEF Tracked
  <2> QED  BY <1>3, <2>2 DEF StoredDataRight
<1>4. ASSUME NEW o \in Outcomes, PlaceOrder(o) PROVE StoredDataRight'
  BY <1>1, <1>2, <1>4 DEF PlaceOrder, PlaceSucceeds, PlaceFails, PlaceAborts
<1>5. ASSUME NEW id, NEW o \in Outcomes, ModifyOrder(id, o) PROVE StoredDataRight'
  BY <1>1, <1>2, <1>5 DEF ModifyOrder, ModifySucceeds, ModifyFails, ModifyAborts
<1>6. ASSUME NEW id, NEW o \in Outcomes, CancelOrder(id, o) PROVE StoredDataRight'
  BY <1>1, <1>3, <1>6 DEF CancelOrder, CancelSucceeds, CancelFails, CancelAborts
<1> QED  BY <1>1, <1>4, <1>5, <1>6 DEF Next, TokenThrows, vars

\* Until placement new is used on memory that is not of the pool, no order's
\* data is overwritten or lost.
THEOREM StoredDataStaysRight == Spec => []StoredDataRight
<1>1. Init => StoredDataRight  BY DEF Init, StoredDataRight, Tracked
<1>2. IInv /\ StoredDataRight /\ [Next]_vars => StoredDataRight'
  BY NextStoredDataRight
<1> QED  BY <1>1, <1>2, Invariance, PTL DEF Spec

-----------------------------------------------------------------------------
(* The benchmark.                                                          *)

Before == {"token", "market", "limit", "modify"}
BenchSteps == Before \cup {"book", "cancel", "report", "exit"}
Returns == {"true", "false", "none"}

BenchTypeOK ==
  /\ step \in BenchSteps
  /\ orderId \in 0 .. MaxOrders
  /\ results \in Seq(Returns)
  /\ said \in BOOLEAN /\ (said => step = "exit")

\* Until the cancellation the pool has only its own blocks.
PoolStillOwn ==
  /\ AllocatesOnlyBlocks
  /\ step \in Before => freeBlocks \in Seq(BlockSet)

Later == {"modify", "book", "cancel", "report"}

\* Where the results of the two placements are.
Counted ==
  /\ step \in {"token", "market"} => Len(results) = 0
  /\ step = "limit" => Len(results) = 1
  /\ step \in Later \/ said => Len(results) >= 2

\* What a run that has lost track of no order has done so far.
OnCourse ==
  lost = {} =>
    /\ orderId = created
    /\ step \in {"token", "market"} => created = 0
    /\ step = "limit" => created = Success(1)
    /\ step \in Later \/ said => created = Success(1) + Success(2)
    /\ live = IF step = "report" \/ said
              THEN (1 .. created) \ (IF Last(results) = "true" THEN {orderId} ELSE {})
              ELSE 1 .. created

BenchInv == IInv /\ BenchTypeOK /\ PoolStillOwn /\ Counted /\ OnCourse

\* A result joins those before it.
LEMMA ContinueFacts ==
  ASSUME BenchTypeOK, returned' \in Returns, NEW next \in BenchSteps, ~said,
         Continue(next)
  PROVE  /\ results' \in Seq(Returns) /\ step' = next /\ said' = FALSE
         /\ Len(results) \in Nat /\ Len(results') = Len(results) + 1
         /\ \A i \in 1 .. Len(results) : results'[i] = results[i]
         /\ results'[Len(results) + 1] = returned' /\ Last(results)' = returned'
<1>1. results' = Append(results, returned') /\ results \in Seq(Returns)
  BY DEF Continue, BenchTypeOK
<1>2. /\ results' \in Seq(Returns)
      /\ Len(results) \in Nat /\ Len(results') = Len(results) + 1
      /\ \A i \in 1 .. Len(results) : results'[i] = results[i]
      /\ results'[Len(results) + 1] = returned'
  BY <1>1
<1>3. Last(results)' = returned'  BY <1>2 DEF Last
<1> QED  BY <1>2, <1>3 DEF Continue, BenchTypeOK

LEMMA PopKeepsBlocks ==
  ASSUME NEW q \in Seq(BlockSet), q # <<>>
  PROVE  SubSeq(q, 1, Len(q) - 1) \in Seq(BlockSet) /\ q[Len(q)] \in BlockSet
BY PopBackFacts

\* placement new is used on a block as long as the pool has nothing else.
LEMMA KeepOnBlocks ==
  ASSUME AllocatesOnlyBlocks, freeBlocks \in Seq(BlockSet), NEW id, Keep(id)
  PROVE  AllocatesOnlyBlocks' /\ freeBlocks' \in Seq(BlockSet)
BY PopKeepsBlocks DEF Keep, Back, AllocatesOnlyBlocks, poolVars

LEMMA PlaceStep ==
  ASSUME BenchInv, ~aborted, ~said,
         NEW at \in {"market", "limit"}, NEW next \in {"limit", "modify"},
         at = "market" <=> next = "limit",
         Place(at, next)
  PROVE  BenchInv'
<1> USE DEF BenchInv
<1>1. PICK o \in Outcomes : PlaceOrder(o)  BY DEF Place
<1>2. IInv'
  BY <1>1, PlacePreserves, MemPreserved DEF IInv, MapTypeOK, Next
<1>3. /\ step = at /\ Continue(next)
      /\ orderId' = IF returned' = "true" THEN created' ELSE orderId
  BY DEF Place
<1>4. returned' \in Returns
  BY <1>1 DEF PlaceOrder, PlaceSucceeds, PlaceFails, PlaceAborts, Answer, Abort, Returns
<1>5. /\ results' \in Seq(Returns) /\ step' = next /\ said' = FALSE
      /\ Len(results) \in Nat /\ Len(results') = Len(results) + 1
      /\ \A i \in 1 .. Len(results) : results'[i] = results[i]
      /\ results'[Len(results) + 1] = returned'
  BY <1>3, <1>4, ContinueFacts DEF BenchSteps, Before
<1>6. /\ created + o.effects <= MaxOrders /\ created' = created + o.effects
      /\ live' = live \cup (created + 1 .. created + o.effects)
      /\ created \in Nat /\ o.effects \in Nat /\ MaxOrders \in Nat
  BY <1>1, OrderAssumption DEF PlaceOrder, Buy, Bought, IInv, MapTypeOK, Outcomes
<1>7. created' \in 0 .. MaxOrders  BY <1>6
<1>8. BenchTypeOK'
  BY <1>3, <1>5, <1>7 DEF BenchTypeOK, BenchSteps, Before
<1>9. PoolStillOwn'
  <2>1. AllocatesOnlyBlocks /\ freeBlocks \in Seq(BlockSet)
    BY <1>3 DEF PoolStillOwn, Before
  <2>2. AllocatesOnlyBlocks' /\ freeBlocks' \in Seq(BlockSet)
    BY <1>1, <2>1, KeepOnBlocks
       DEF PlaceOrder, PlaceSucceeds, PlaceFails, PlaceAborts, poolVars,
           AllocatesOnlyBlocks
  <2> QED  BY <2>2 DEF PoolStillOwn
<1>10. Counted'
  BY <1>3, <1>5 DEF Counted, Later
<1>11. /\ Bought(o.effects) = created + 1 .. created + o.effects
       /\ returned' = "true" => o.effects > 0
       /\ lost' = {} => lost = {}
       /\ lost' = {} => o.effects = IF returned' = "true" THEN 1 ELSE 0
  <2>1. Bought(o.effects) = created + 1 .. created + o.effects  BY DEF Bought
  <2>2. CASE PlaceSucceeds(o)
    <3>1. returned' = "true" /\ o.effects > 0
      BY <2>2, ReportedWasExecuted DEF PlaceSucceeds, WithResult, Answer
    <3>2. \/ lost' = lost \cup Bought(o.effects)
          \/ lost' = lost \cup (Bought(o.effects) \ {created'})
      BY <2>2 DEF PlaceSucceeds, Lose
    <3>3. lost' = {} => lost = {} /\ Bought(o.effects) \subseteq {created'}  BY <3>2
    <3>4. o.effects > 1 => created + 1 \in Bought(o.effects) /\ created + 1 # created'
      BY <1>6, <2>1
    <3> QED  BY <1>6, <2>1, <3>1, <3>3, <3>4
  <2>3. CASE PlaceFails(o) \/ PlaceAborts(o)
    <3>1. returned' # "true" /\ lost' = lost \cup Bought(o.effects)
      BY <2>3 DEF PlaceFails, PlaceAborts, Answer, Abort, Lose
    <3>2. o.effects > 0 => created + 1 \in Bought(o.effects)  BY <1>6, <2>1
    <3> QED  BY <1>6, <2>1, <3>1, <3>2
  <2> QED  BY <1>1, <2>2, <2>3 DEF PlaceOrder
<1>12. OnCourse'
  <2> SUFFICES ASSUME lost' = {} PROVE OnCourse'
    BY DEF OnCourse
  <2> DEFINE one == IF returned' = "true" THEN 1 ELSE 0
  <2>1. lost = {} /\ o.effects = one /\ one \in {0, 1}  BY <1>11
  <2>2. orderId = created /\ live = 1 .. created
    BY <1>3, <2>1 DEF OnCourse
  <2>3. created' = created + one /\ live' = 1 .. created'
    <3>1. created' = created + one  BY <1>6, <2>1
    <3>2. CASE one = 0
      BY <1>6, <2>1, <2>2, <3>1, <3>2
    <3>3. CASE one = 1
      BY <1>6, <2>1, <2>2, <3>1, <3>3
    <3> QED  BY <2>1, <3>1, <3>2, <3>3
  <2>4. orderId' = created'
    BY <1>3, <1>6, <2>1, <2>2, <2>3
  <2>5. CASE at = "market"
    <3>1. created = 0 /\ Len(results) = 0
      BY <1>3, <2>1, <2>5 DEF OnCourse, Counted
    <3>2. created' = Success(1)'  BY <1>5, <2>3, <3>1 DEF Success
    <3> QED  BY <1>5, <2>3, <2>4, <2>5, <3>2 DEF OnCourse, Later
  <2>6. CASE at = "limit"
    <3>1. created = Success(1) /\ Len(results) = 1 /\ next = "modify"
      BY <1>3, <2>1, <2>6 DEF OnCourse, Counted
    <3>2. Success(1)' = Success(1) /\ Success(2)' = one
      BY <1>5, <3>1 DEF Success
    <3>3. created' = Success(1)' + Success(2)'  BY <2>3, <3>1, <3>2
    <3> QED  BY <1>5, <2>3, <2>4, <3>1, <3>3 DEF OnCourse, Later
  <2> QED  BY <2>5, <2>6
<1> QED  BY <1>2, <1>8, <1>9, <1>10, <1>12

\* Once both orders were placed or not, another result changes nothing of that.
LEMMA SuccessesStay ==
  ASSUME Len(results) \in Nat, Len(results) >= 2,
         \A i \in 1 .. Len(results) : results'[i] = results[i]
  PROVE  Success(1)' = Success(1) /\ Success(2)' = Success(2)
BY DEF Success

LEMMA ModifyStep ==
  ASSUME BenchInv, ~aborted, ~said, Modify("modify", "book")
  PROVE  BenchInv'
<1> USE DEF BenchInv
<1>1. PICK o \in Outcomes : ModifyOrder(orderId, o)  BY DEF Modify
<1>2. IInv'
  BY <1>1, ModifyPreserves, MemPreserved DEF IInv, MapTypeOK, Next, BenchTypeOK
<1>3. step = "modify" /\ Continue("book") /\ orderId' = orderId
  BY DEF Modify
<1>4. returned' \in Returns
  BY <1>1 DEF ModifyOrder, ModifySucceeds, ModifyFails, ModifyAborts, Answer, Abort, Returns
<1>5. /\ results' \in Seq(Returns) /\ step' = "book" /\ said' = FALSE
      /\ Len(results) \in Nat /\ Len(results') = Len(results) + 1
      /\ \A i \in 1 .. Len(results) : results'[i] = results[i]
  BY <1>3, <1>4, ContinueFacts DEF BenchSteps, Before
<1>6. BenchTypeOK'
  BY <1>3, <1>5 DEF BenchTypeOK, BenchSteps, Before
<1>7. PoolStillOwn'
  <2>1. AllocatesOnlyBlocks /\ freeBlocks \in Seq(BlockSet)
    BY <1>3 DEF PoolStillOwn, Before
  <2>2. AllocatesOnlyBlocks' /\ freeBlocks' \in Seq(BlockSet)
    BY <1>1, <2>1, KeepOnBlocks
       DEF ModifyOrder, ModifySucceeds, ModifyFails, ModifyAborts, poolVars,
           AllocatesOnlyBlocks
  <2> QED  BY <2>2 DEF PoolStillOwn
<1>8. UNCHANGED <<created, live, lost>>  BY <1>1 DEF ModifyOrder
<1>9. Len(results) >= 2  BY <1>3 DEF Counted, Later
<1>10. Counted'  BY <1>5, <1>9 DEF Counted, Later
<1>11. OnCourse'
  BY <1>3, <1>5, <1>8, <1>9, SuccessesStay DEF OnCourse, Later
<1> QED  BY <1>2, <1>6, <1>7, <1>10, <1>11

LEMMA CancelStep ==
  ASSUME BenchInv, ~aborted, ~said, Cancel("cancel", "report")
  PROVE  BenchInv'
<1> USE DEF BenchInv
<1>1. PICK o \in Outcomes : CancelOrder(orderId, o)  BY DEF Cancel
<1>2. IInv'
  BY <1>1, CancelPreserves, MemPreserved DEF IInv, MapTypeOK, Next, BenchTypeOK
<1>3. step = "cancel" /\ Continue("report") /\ orderId' = orderId
  BY DEF Cancel
<1>4. returned' \in Returns
  BY <1>1 DEF CancelOrder, CancelSucceeds, CancelFails, CancelAborts, Answer, Abort, Returns
<1>5. /\ results' \in Seq(Returns) /\ step' = "report" /\ said' = FALSE
      /\ Len(results) \in Nat /\ Len(results') = Len(results) + 1
      /\ \A i \in 1 .. Len(results) : results'[i] = results[i]
      /\ Last(results)' = returned'
  BY <1>3, <1>4, ContinueFacts DEF BenchSteps, Before
<1>6. BenchTypeOK'
  BY <1>3, <1>5 DEF BenchTypeOK, BenchSteps, Before
<1>7. PoolStillOwn'
  <2>1. constructed' = constructed
    BY <1>1 DEF CancelOrder, CancelSucceeds, CancelFails, CancelAborts, poolVars
  <2> QED  BY <1>5, <2>1 DEF PoolStillOwn, AllocatesOnlyBlocks, Before
<1>8. Len(results) >= 2  BY <1>3 DEF Counted, Later
<1>9. Counted'  BY <1>5, <1>8 DEF Counted, Later
<1>10. OnCourse'
  <2> SUFFICES ASSUME lost' = {} PROVE OnCourse'
    BY DEF OnCourse
  <2>1. lost = {}
    BY <1>1 DEF CancelOrder, CancelSucceeds, CancelFails, CancelAborts, Lose
  <2>2. /\ orderId = created /\ live = 1 .. created
        /\ created = Success(1) + Success(2)
    BY <1>3, <2>1 DEF OnCourse, Later, BenchTypeOK
  <2>3. /\ created' = created /\ o.effects \in Nat
        /\ o.effects > 0 => live' = live \ {orderId}
        /\ ~(o.effects > 0) => live' = live
    BY <1>1, OrderAssumption DEF CancelOrder, Outcomes
  <2>4. live' = live \ (IF returned' = "true" THEN {orderId} ELSE {})
    <3>1. CASE CancelSucceeds(orderId, o)
      <4>1. returned' = "true" /\ (o.effects = 0 => orderId \notin live)
        BY <2>1, <3>1 DEF CancelSucceeds, Lose, Answer
      <4> QED  BY <2>3, <4>1
    <3>2. CASE CancelFails(orderId, o) \/ CancelAborts(orderId, o)
      <4>1. returned' # "true" /\ ~(o.effects > 0)
        BY <2>1, <3>2 DEF CancelFails, CancelAborts, Lose, Answer, Abort
      <4> QED  BY <2>3, <4>1
    <3> QED  BY <1>1, <3>1, <3>2 DEF CancelOrder
  <2>5. Success(1)' = Success(1) /\ Success(2)' = Success(2)
    BY <1>5, <1>8, SuccessesStay
  <2> QED  BY <1>3, <1>5, <2>2, <2>3, <2>4, <2>5 DEF OnCourse, Later
<1> QED  BY <1>2, <1>6, <1>7, <1>9, <1>10

\* The other steps leave orders, pool and exchange as they are.
LEMMA BookStep ==
  ASSUME BenchInv, ~said, GetOrderBook("book", "cancel")
  PROVE  BenchInv'
<1> USE DEF BenchInv
<1>1. /\ UNCHANGED <<poolVars, created, live, lost, orderId>>
      /\ step = "book" /\ Continue("cancel")
  BY DEF GetOrderBook
<1>2. IInv'
  BY <1>1, PoolUnchanged DEF IInv, MapTypeOK, BookMatchesExchange, poolVars
<1>3. returned' \in Returns
  BY DEF GetOrderBook, Answer, Returns
<1>4. /\ results' \in Seq(Returns) /\ step' = "cancel" /\ said' = FALSE
      /\ Len(results) \in Nat /\ Len(results') = Len(results) + 1
      /\ \A i \in 1 .. Len(results) : results'[i] = results[i]
  BY <1>1, <1>3, ContinueFacts DEF BenchSteps, Before
<1>5. BenchTypeOK'  BY <1>1, <1>4 DEF BenchTypeOK, BenchSteps, Before
<1>6. PoolStillOwn'
  BY <1>1, <1>4 DEF PoolStillOwn, AllocatesOnlyBlocks, Before, poolVars
<1>7. Len(results) >= 2  BY <1>1 DEF Counted, Later
<1>8. Counted'  BY <1>4, <1>7 DEF Counted, Later
<1>9. OnCourse'  BY <1>1, <1>4, <1>7, SuccessesStay DEF OnCourse, Later
<1> QED  BY <1>2, <1>5, <1>6, <1>8, <1>9

LEMMA QuietStep ==
  ASSUME BenchInv, GetToken \/ TokenLost \/ Report \/ UNCHANGED allVars
  PROVE  BenchInv'
<1> USE DEF BenchInv
<1>1. UNCHANGED <<poolVars, created, live, lost, orderId, results>>
  BY DEF GetToken, TokenLost, Report, TokenThrows, allVars, vars, benchVars
<1>2. \/ UNCHANGED <<step, said>>
      \/ step = "token" /\ step' \in {"market", "exit"} /\ UNCHANGED said
      \/ step = "report" /\ step' = "exit" /\ said' = TRUE
  BY DEF GetToken, TokenLost, Report, allVars, benchVars
<1>3. IInv'
  BY <1>1, PoolUnchanged DEF IInv, MapTypeOK, BookMatchesExchange, poolVars
<1>4. BenchTypeOK'
  <2>1. orderId' \in 0 .. MaxOrders /\ results' \in Seq(Returns)
    BY <1>1 DEF BenchTypeOK
  <2>2. step \in BenchSteps /\ said \in BOOLEAN /\ (said => step = "exit")
    BY DEF BenchTypeOK
  <2>3. step' \in BenchSteps  BY <1>2, <2>2 DEF BenchSteps, Before
  <2>4. said' \in BOOLEAN  BY <1>2, <2>2
  <2>5. said' => step' = "exit"  BY <1>2, <2>2
  <2> QED  BY <2>1, <2>3, <2>4, <2>5 DEF BenchTypeOK
<1>5. PoolStillOwn'
  BY <1>1, <1>2 DEF PoolStillOwn, AllocatesOnlyBlocks, Before, poolVars
<1>6. Counted'  BY <1>1, <1>2 DEF Counted, Later
<1>7. OnCourse'
  BY <1>1, <1>2 DEF OnCourse, Later, Success, BenchTypeOK, BenchSteps, Before
<1> QED  BY <1>3, <1>4, <1>5, <1>6, <1>7

LEMMA AlwaysBenchInv == SpecB => []BenchInv
<1>1. InitB => BenchInv
  <2> SUFFICES ASSUME InitB PROVE BenchInv
    OBVIOUS
  <2>1. IInv  BY InitIInv DEF InitB
  <2>2. BenchTypeOK
    <3>1. step \in BenchSteps  BY DEF InitB, BenchSteps, Before
    <3>2. orderId \in 0 .. MaxOrders  BY OrderAssumption DEF InitB
    <3>3. results \in Seq(Returns)  BY DEF InitB
    <3>4. said = FALSE  BY DEF InitB
    <3> QED  BY <3>1, <3>2, <3>3, <3>4 DEF BenchTypeOK
  <2>3. Blocks \in Seq(BlockSet)  BY OrderAssumption DEF BlockSet
  <2>4. PoolStillOwn
    BY <2>3 DEF InitB, Init, PoolStillOwn, AllocatesOnlyBlocks
  <2>5. Counted  BY DEF InitB, Counted, Later
  <2>6. OnCourse
    <3>1. 1 .. 0 = {}  OBVIOUS
    <3> QED  BY <3>1 DEF InitB, Init, OnCourse, Later
  <2> QED  BY <2>1, <2>2, <2>4, <2>5, <2>6 DEF BenchInv
<1>2. BenchInv /\ [NextB]_allVars => BenchInv'
  <2> SUFFICES ASSUME BenchInv, [NextB]_allVars PROVE BenchInv'
    OBVIOUS
  <2>1. said => step = "exit"  BY DEF BenchInv, BenchTypeOK
  <2>2. ASSUME ~aborted, Place("market", "limit") PROVE BenchInv'
    BY <2>1, <2>2, PlaceStep DEF Place
  <2>3. ASSUME ~aborted, Place("limit", "modify") PROVE BenchInv'
    BY <2>1, <2>3, PlaceStep DEF Place
  <2>4. ASSUME ~aborted, Modify("modify", "book") PROVE BenchInv'
    BY <2>1, <2>4, ModifyStep DEF Modify
  <2>5. CASE GetOrderBook("book", "cancel")
    BY <2>1, <2>5, BookStep DEF GetOrderBook
  <2>6. ASSUME ~aborted, Cancel("cancel", "report") PROVE BenchInv'
    BY <2>1, <2>6, CancelStep DEF Cancel
  <2>7. CASE GetToken \/ TokenLost \/ Report \/ UNCHANGED allVars
    BY <2>7, QuietStep
  <2> QED  BY <2>2, <2>3, <2>4, <2>5, <2>6, <2>7 DEF NextB, Sequence
<1> QED  BY <1>1, <1>2, PTL DEF SpecB

\* The order of the operations of main keeps placement new on the blocks of
\* the pool, although the cancellation puts foreign memory into it.
THEOREM BenchmarkAllocatesOnlyBlocks == SpecB => []AllocatesOnlyBlocks
<1>1. BenchInv => AllocatesOnlyBlocks  BY DEF BenchInv, PoolStillOwn
<1> QED  BY <1>1, AlwaysBenchInv, PTL

\* Whatever fails, main cancels the order it placed last and leaves the rest,
\* unless an order was lost track of.
THEOREM BenchmarkCancelsLastPlaced == SpecB => []CancelsLastPlaced
<1>1. BenchInv => CancelsLastPlaced
  BY DEF BenchInv, OnCourse, IInv, BookMatchesExchange, CancelsLastPlaced
<1> QED  BY <1>1, AlwaysBenchInv, PTL

-----------------------------------------------------------------------------
(* decompressGzip.                                                         *)

\* The recursions behind the folds of OutputLoop and Whole.
FoldsRound(it, writes) ==
  it = [s \in SUBSET DOMAIN writes |->
          IF s = {} THEN Start ELSE Round(it[s \ {Max(s)}], writes[Max(s)])]

FoldsSum(it, writes) ==
  it = [s \in SUBSET DOMAIN writes |->
          IF s = {} THEN 0 ELSE it[s \ {Max(s)}] + writes[Max(s)]]

States == [total_out : Nat, outbuffer : [1 .. BufferSize -> Nat], outstring : Seq(Nat)]

\* A round of the loop, by what it does to the three variables.
LEMMA RoundFacts ==
  ASSUME NEW z \in States, NEW w \in 0 .. BufferSize,
         z.outstring = [j \in 1 .. z.total_out |-> j]
  PROVE  /\ Round(z, w) \in States
         /\ Round(z, w).total_out = z.total_out + w
         /\ Round(z, w).outstring = [j \in 1 .. z.total_out + w |-> j]
<1> DEFINE t == z.total_out
           out == [k \in 1 .. BufferSize |-> IF k <= w THEN t + k ELSE z.outbuffer[k]]
<1>1. /\ t \in Nat /\ w \in Nat /\ w <= BufferSize /\ BufferSize \in Nat
      /\ z.outbuffer \in [1 .. BufferSize -> Nat] /\ z.outstring \in Seq(Nat)
      /\ Len(z.outstring) = t
  <2>1. BufferSize \in Nat  BY DecodingAssumption
  <2>2. t \in Nat /\ z.outbuffer \in [1 .. BufferSize -> Nat] /\ z.outstring \in Seq(Nat)
    BY DEF States
  <2>3. \A n \in Nat : Len([j \in 1 .. n |-> j]) = n  OBVIOUS
  <2>4. Len(z.outstring) = t  BY <2>2, <2>3
  <2> QED  BY <2>1, <2>2, <2>4
<1>2. out \in [1 .. BufferSize -> Nat]  BY <1>1
<1>3. out \in Seq(Nat) /\ Len(out) = BufferSize
  <2>1. \A m \in Nat : \A s \in [1 .. m -> Nat] : s \in Seq(Nat) /\ Len(s) = m
    OBVIOUS
  <2> HIDE DEF out
  <2> QED  BY <1>1, <1>2, <2>1
<1>4. \A k \in 1 .. w : out[k] = t + k  BY <1>1
<1>5. Round(z, w) = [total_out |-> t + w, outbuffer |-> out,
                     outstring |-> Appended(z.outstring, out, t + w)]
  BY DEF Round
<1> HIDE DEF out
<1>6. Appended(z.outstring, out, t + w) = [j \in 1 .. t + w |-> j]
  <2>1. CASE w = 0
    BY <1>1, <2>1 DEF Appended
  <2>2. CASE w > 0
    <3> DEFINE new == SubSeq(out, 1, w)
    <3>1. Appended(z.outstring, out, t + w) = z.outstring \o new
      <4>1. Len(z.outstring) < t + w /\ (t + w) - Len(z.outstring) = w
        BY <1>1, <2>2
      <4> HIDE DEF t
      <4> QED  BY <4>1, Zenon DEF Appended
    <3>2. new \in Seq(Nat) /\ Len(new) = w /\ \A k \in 1 .. w : new[k] = t + k
      <4>1. \A k \in 1 .. w : k \in 1 .. BufferSize  BY <1>1
      <4>2. /\ new \in Seq(Nat)
            /\ Len(new) = IF 1 <= w THEN w - 1 + 1 ELSE 0
            /\ \A k \in 1 .. w - 1 + 1 : new[k] = out[1 + k - 1]
        <5>1. \A k \in 1 .. w : out[k] \in Nat  BY <1>2, <4>1
        <5> QED  BY <1>1, <1>3, <5>1, SubSeqProperties
      <4> QED  BY <1>1, <1>4, <2>2, <4>2
    <3> HIDE DEF new
    <3>3. /\ z.outstring \o new \in Seq(Nat)
          /\ Len(z.outstring \o new) = t + w
          /\ \A j \in 1 .. t + w :
               (z.outstring \o new)[j] = IF j <= t THEN z.outstring[j] ELSE new[j - t]
      BY <1>1, <3>2, ConcatProperties
    <3>4. \A j \in 1 .. t + w : (z.outstring \o new)[j] = j
      BY <1>1, <3>2, <3>3
    <3> DEFINE whole == z.outstring \o new
    <3>5. whole = [j \in 1 .. t + w |-> whole[j]]
      <4>1. \A s \in Seq(Nat) : s = [j \in 1 .. Len(s) |-> s[j]]  OBVIOUS
      <4> QED  BY <3>3, <4>1
    <3> QED  BY <3>1, <3>4, <3>5
  <2> QED  BY <1>1, <2>1, <2>2
<1>7. [j \in 1 .. t + w |-> j] \in Seq(Nat) /\ t + w \in Nat
  <2>1. \A m \in Nat : [j \in 1 .. m |-> j] \in Seq(Nat)  OBVIOUS
  <2>2. t + w \in Nat  BY <1>1
  <2> QED  BY <2>1, <2>2
<1> QED  BY <1>2, <1>5, <1>6, <1>7 DEF States

Good == {z \in States : z.outstring = [j \in 1 .. z.total_out |-> j]}

\* OutputLoop, one round at a time.
LEMMA RoundFold ==
  ASSUME NEW n \in Nat, NEW writes \in [1 .. n -> 0 .. BufferSize]
  PROVE  \E g : /\ g[0] = Start /\ OutputLoop(writes) = g[n].outstring
                /\ \A k \in 1 .. n : g[k] = Round(g[k - 1], writes[k])
<1> DEFINE F == [x \in Good \X (1 .. n) |-> Round(x[1], writes[x[2]])]
           fold == CHOOSE it : FoldsRound(it, writes)
           g == [k \in 0 .. n |-> fold[1 .. k]]
<1>1. ASSUME NEW z \in Good, NEW w \in 0 .. BufferSize PROVE Round(z, w) \in Good
  <2>1. z \in States /\ z.outstring = [j \in 1 .. z.total_out |-> j]  BY DEF Good
  <2>2. /\ Round(z, w) \in States
        /\ Round(z, w).outstring = [j \in 1 .. Round(z, w).total_out |-> j]
    BY <2>1, RoundFacts
  <2> QED  BY <2>2 DEF Good
<1>2. F \in [Good \X (1 .. n) -> Good]  BY <1>1
<1>3. Start \in Good
  <2>1. BufferSize \in Nat  BY DecodingAssumption
  <2>2. [k \in 1 .. BufferSize |-> 0] \in [1 .. BufferSize -> Nat]  BY <2>1
  <2>3. [j \in 1 .. 0 |-> j] = <<>> /\ <<>> \in Seq(Nat)  OBVIOUS
  <2> QED  BY <2>2, <2>3 DEF Good, States, Start
<1>4. DOMAIN writes = 1 .. n  OBVIOUS
<1>5. FoldsRound(fold, writes)
  <2>1. PICK it \in [SUBSET (1 .. n) -> Good] : FoldsSets(it, n, Start, F)
    <3> HIDE DEF F
    <3> QED  BY <1>2, <1>3, FoldExists, Zenon
  <2>2. ASSUME NEW s \in SUBSET (1 .. n)
        PROVE  it[s] = IF s = {} THEN Start ELSE Round(it[s \ {Max(s)}], writes[Max(s)])
    <3>1. CASE s = {}  BY <2>1, <3>1 DEF FoldsSets
    <3>2. CASE s # {}
      <4>1. Max(s) \in 1 .. n  BY <3>2, MaxFacts
      <4>2. it[s \ {Max(s)}] \in Good  BY <2>1
      <4>3. it[s] = F[<<it[s \ {Max(s)}], Max(s)>>]
        <5> HIDE DEF F
        <5> QED  BY <2>1, <3>2 DEF FoldsSets
      <4> QED  BY <3>2, <4>1, <4>2, <4>3
    <3> QED  BY <3>1, <3>2
  <2>3. FoldsRound(it, writes)
    <3> HIDE DEF F
    <3> QED  BY <1>4, <2>1, <2>2 DEF FoldsRound
  <2> QED  BY <2>3
<1>6. OutputLoop(writes) = fold[1 .. n].outstring
  BY <1>4 DEF OutputLoop, FoldLeft, MapThenFoldSet, FoldsRound
<1> HIDE DEF fold
<1>7. \A s \in SUBSET (1 .. n) :
        fold[s] = IF s = {} THEN Start ELSE Round(fold[s \ {Max(s)}], writes[Max(s)])
  BY <1>4, <1>5 DEF FoldsRound
<1>8. g[0] = Start
  <2>1. 1 .. 0 = {} /\ 1 .. 0 \in SUBSET (1 .. n)  OBVIOUS
  <2>2. g[0] = fold[1 .. 0]  OBVIOUS
  <2> HIDE DEF g
  <2> QED  BY <1>7, <2>1, <2>2
<1>9. ASSUME NEW k \in 1 .. n PROVE g[k] = Round(g[k - 1], writes[k])
  <2>1. /\ 1 .. k \in SUBSET (1 .. n) /\ 1 .. k # {}
        /\ Max(1 .. k) = k /\ (1 .. k) \ {Max(1 .. k)} = 1 .. k - 1
    BY IntervalFacts
  <2>2. fold[1 .. k] = Round(fold[1 .. k - 1], writes[k])
    BY <1>7, <2>1
  <2>3. g[k] = fold[1 .. k] /\ g[k - 1] = fold[1 .. k - 1]  OBVIOUS
  <2> HIDE DEF g
  <2> QED  BY <2>2, <2>3
<1>10. g[n] = fold[1 .. n]  OBVIOUS
<1> HIDE DEF g
<1> QED  BY <1>6, <1>8, <1>9, <1>10

\* Whole, one write at a time.
LEMMA SumFold ==
  ASSUME NEW n \in Nat, NEW writes \in [1 .. n -> 0 .. BufferSize]
  PROVE  \E g : /\ g[0] = 0 /\ Whole(writes) = [j \in 1 .. g[n] |-> j]
                /\ \A k \in 1 .. n : g[k] = g[k - 1] + writes[k]
<1> DEFINE F == [x \in Nat \X (1 .. n) |-> x[1] + writes[x[2]]]
           fold == CHOOSE it : FoldsSum(it, writes)
           g == [k \in 0 .. n |-> fold[1 .. k]]
<1>1. \A k \in 1 .. n : writes[k] \in Nat  BY DecodingAssumption
<1>2. F \in [Nat \X (1 .. n) -> Nat]  BY <1>1
<1>3. 0 \in Nat  OBVIOUS
<1>4. DOMAIN writes = 1 .. n  OBVIOUS
<1>5. FoldsSum(fold, writes)
  <2>1. PICK it \in [SUBSET (1 .. n) -> Nat] : FoldsSets(it, n, 0, F)
    <3> HIDE DEF F
    <3> QED  BY <1>2, <1>3, FoldExists, Zenon
  <2>2. ASSUME NEW s \in SUBSET (1 .. n)
        PROVE  it[s] = IF s = {} THEN 0 ELSE it[s \ {Max(s)}] + writes[Max(s)]
    <3>1. CASE s = {}  BY <2>1, <3>1 DEF FoldsSets
    <3>2. CASE s # {}
      <4>1. Max(s) \in 1 .. n  BY <3>2, MaxFacts
      <4>2. it[s \ {Max(s)}] \in Nat  BY <2>1
      <4>3. it[s] = F[<<it[s \ {Max(s)}], Max(s)>>]
        <5> HIDE DEF F
        <5> QED  BY <2>1, <3>2 DEF FoldsSets
      <4> QED  BY <3>2, <4>1, <4>2, <4>3
    <3> QED  BY <3>1, <3>2
  <2>3. FoldsSum(it, writes)
    <3> HIDE DEF F
    <3> QED  BY <1>4, <2>1, <2>2 DEF FoldsSum
  <2> QED  BY <2>3
<1>6. Whole(writes) = [j \in 1 .. fold[1 .. n] |-> j]
  BY <1>4 DEF Whole, FoldLeft, MapThenFoldSet, FoldsSum
<1> HIDE DEF fold
<1>7. \A s \in SUBSET (1 .. n) :
        fold[s] = IF s = {} THEN 0 ELSE fold[s \ {Max(s)}] + writes[Max(s)]
  BY <1>4, <1>5 DEF FoldsSum
<1>8. g[0] = 0
  <2>1. 1 .. 0 = {} /\ 1 .. 0 \in SUBSET (1 .. n)  OBVIOUS
  <2>2. g[0] = fold[1 .. 0]  OBVIOUS
  <2> HIDE DEF g
  <2> QED  BY <1>7, <2>1, <2>2
<1>9. ASSUME NEW k \in 1 .. n PROVE g[k] = g[k - 1] + writes[k]
  <2>1. /\ 1 .. k \in SUBSET (1 .. n) /\ 1 .. k # {}
        /\ Max(1 .. k) = k /\ (1 .. k) \ {Max(1 .. k)} = 1 .. k - 1
    BY IntervalFacts
  <2>2. fold[1 .. k] = fold[1 .. k - 1] + writes[k]
    BY <1>7, <2>1
  <2>3. g[k] = fold[1 .. k] /\ g[k - 1] = fold[1 .. k - 1]  OBVIOUS
  <2> HIDE DEF g
  <2> QED  BY <2>2, <2>3
<1>10. g[n] = fold[1 .. n]  OBVIOUS
<1> HIDE DEF g
<1> QED  BY <1>6, <1>8, <1>9, <1>10

\* However inflate fills the buffer, the pieces that decompressGzip appends
\* are the text, each byte once and in order.
THEOREM PiecesAreTheText ==
  \A writes \in Seq(0 .. BufferSize) : OutputLoop(writes) = Whole(writes)
<1> SUFFICES ASSUME NEW writes \in Seq(0 .. BufferSize)
             PROVE  OutputLoop(writes) = Whole(writes)
  OBVIOUS
<1> DEFINE n == Len(writes)
<1>1. n \in Nat /\ writes \in [1 .. n -> 0 .. BufferSize]
  <2>1. \A T : \A s \in Seq(T) : Len(s) \in Nat /\ s \in [1 .. Len(s) -> T]
    OBVIOUS
  <2> QED  BY <2>1
<1> HIDE DEF n
<1>2. PICK g : /\ g[0] = Start /\ OutputLoop(writes) = g[n].outstring
               /\ \A k \in 1 .. n : g[k] = Round(g[k - 1], writes[k])
  BY <1>1, RoundFold
<1>3. PICK sum : /\ sum[0] = 0 /\ Whole(writes) = [j \in 1 .. sum[n] |-> j]
                 /\ \A k \in 1 .. n : sum[k] = sum[k - 1] + writes[k]
  BY <1>1, SumFold
<1> DEFINE Done(k) == g[k] \in Good /\ g[k].total_out = sum[k]
           S == {k \in Nat : k <= n => Done(k)}
<1>4. 0 \in S
  <2>1. BufferSize \in Nat  BY DecodingAssumption
  <2>2. [k \in 1 .. BufferSize |-> 0] \in [1 .. BufferSize -> Nat]  BY <2>1
  <2>3. [j \in 1 .. 0 |-> j] = <<>> /\ <<>> \in Seq(Nat)  OBVIOUS
  <2>4. Start \in Good /\ Start.total_out = 0
    BY <2>2, <2>3 DEF Good, States, Start
  <2> QED  BY <1>2, <1>3, <2>4
<1>5. ASSUME NEW k \in Nat, k \in S PROVE k + 1 \in S
  <2> SUFFICES ASSUME k + 1 <= n PROVE Done(k + 1)
    <3> HIDE DEF Done
    <3> QED  BY <1>5
  <2>1. Done(k)
    <3> HIDE DEF Done
    <3> QED  BY <1>1, <1>5
  <2>2. k + 1 \in 1 .. n /\ (k + 1) - 1 = k /\ writes[k + 1] \in 0 .. BufferSize
    BY <1>1
  <2>3. /\ g[k + 1] = Round(g[k], writes[k + 1])
        /\ sum[k + 1] = sum[k] + writes[k + 1]
    BY <1>2, <1>3, <2>2
  <2>4. g[k] \in States /\ g[k].outstring = [j \in 1 .. g[k].total_out |-> j]
    BY <2>1 DEF Good
  <2>5. /\ g[k + 1] \in States
        /\ g[k + 1].total_out = g[k].total_out + writes[k + 1]
        /\ g[k + 1].outstring = [j \in 1 .. g[k].total_out + writes[k + 1] |-> j]
    BY <2>2, <2>3, <2>4, RoundFacts
  <2>6. g[k + 1] \in Good  BY <2>5 DEF Good
  <2> QED  BY <2>1, <2>3, <2>5, <2>6
<1>6. n \in S
  <2> HIDE DEF S
  <2> QED  BY <1>1, <1>4, <1>5, NatInSet
<1>7. g[n] \in Good /\ g[n].total_out = sum[n]  BY <1>1, <1>6
<1>8. g[n].outstring = [j \in 1 .. g[n].total_out |-> j]
  BY <1>7 DEF Good
<1> QED  BY <1>2, <1>3, <1>7, <1>8

-----------------------------------------------------------------------------
(* rapidjsonToNlohmannJson.                                                *)

\* The two loops and the meaning, for a conversion f of what is inside.
Elements(f, es) == FoldLeft(LAMBDA result, e : Append(result, f[e]), <<>>, es)

FoldsAppend(it, f, es) ==
  it = [s \in SUBSET DOMAIN es |->
          IF s = {} THEN <<>> ELSE Append(it[s \ {Max(s)}], f[es[Max(s)]])]

\* g has what the loop over es has built after every round.
AppendsInTurn(g, f, es, n) ==
  /\ g[0] = <<>> /\ Elements(f, es) = g[n]
  /\ \A k \in 1 .. n : g[k] = Append(g[k - 1], f[es[k]])

LEMMA ElementsFold ==
  ASSUME NEW f, NEW es, NEW n \in Nat, DOMAIN es = 1 .. n
  PROVE  \E g : AppendsInTurn(g, f, es, n)
<1> DEFINE B == {f[es[k]] : k \in 1 .. n}
           F == [x \in Seq(B) \X (1 .. n) |-> Append(x[1], f[es[x[2]]])]
           fold == CHOOSE it : FoldsAppend(it, f, es)
           g == [k \in 0 .. n |-> fold[1 .. k]]
<1>1. \A k \in 1 .. n : f[es[k]] \in B  OBVIOUS
<1>2. F \in [Seq(B) \X (1 .. n) -> Seq(B)]
  <2> HIDE DEF B
  <2> QED  BY <1>1
<1>3. <<>> \in Seq(B)  OBVIOUS
<1> HIDE DEF B
<1>4. FoldsAppend(fold, f, es)
  <2>1. PICK it \in [SUBSET (1 .. n) -> Seq(B)] : FoldsSets(it, n, <<>>, F)
    <3> HIDE DEF F
    <3> QED  BY <1>2, <1>3, FoldExists, Zenon
  <2>2. ASSUME NEW s \in SUBSET (1 .. n)
        PROVE  it[s] = IF s = {} THEN <<>> ELSE Append(it[s \ {Max(s)}], f[es[Max(s)]])
    <3>1. CASE s = {}  BY <2>1, <3>1 DEF FoldsSets
    <3>2. CASE s # {}
      <4>1. Max(s) \in 1 .. n  BY <3>2, MaxFacts
      <4>2. it[s \ {Max(s)}] \in Seq(B)  BY <2>1
      <4>3. it[s] = F[<<it[s \ {Max(s)}], Max(s)>>]
        <5> HIDE DEF F
        <5> QED  BY <2>1, <3>2 DEF FoldsSets
      <4> QED  BY <3>2, <4>1, <4>2, <4>3
    <3> QED  BY <3>1, <3>2
  <2>3. FoldsAppend(it, f, es)
    <3> HIDE DEF F
    <3> QED  BY <2>1, <2>2 DEF FoldsAppend
  <2> QED  BY <2>3
<1>5. Elements(f, es) = fold[1 .. n]
  BY DEF Elements, FoldLeft, MapThenFoldSet, FoldsAppend
<1> HIDE DEF fold
<1>6. \A s \in SUBSET (1 .. n) :
        fold[s] = IF s = {} THEN <<>> ELSE Append(fold[s \ {Max(s)}], f[es[Max(s)]])
  BY <1>4 DEF FoldsAppend
<1>7. g[0] = <<>>
  <2>1. 1 .. 0 = {} /\ 1 .. 0 \in SUBSET (1 .. n)  OBVIOUS
  <2>2. g[0] = fold[1 .. 0]  OBVIOUS
  <2> HIDE DEF g
  <2> QED  BY <1>6, <2>1, <2>2
<1>8. ASSUME NEW k \in 1 .. n PROVE g[k] = Append(g[k - 1], f[es[k]])
  <2>1. /\ 1 .. k \in SUBSET (1 .. n) /\ 1 .. k # {}
        /\ Max(1 .. k) = k /\ (1 .. k) \ {Max(1 .. k)} = 1 .. k - 1
    BY IntervalFacts
  <2>2. fold[1 .. k] = Append(fold[1 .. k - 1], f[es[k]])
    BY <1>6, <2>1
  <2>3. g[k] = fold[1 .. k] /\ g[k - 1] = fold[1 .. k - 1]  OBVIOUS
  <2> HIDE DEF g
  <2> QED  BY <2>2, <2>3
<1>9. g[n] = fold[1 .. n]  OBVIOUS
<1> HIDE DEF g
<1> QED  BY <1>5, <1>7, <1>8, <1>9 DEF AppendsInTurn

InPlace(f, es, n) == [k \in 1 .. n |-> f[es[k]]]

\* Every element keeps its place.
LEMMA ElementsKeepTheirPlaces ==
  ASSUME NEW f, NEW es, NEW n \in Nat, DOMAIN es = 1 .. n
  PROVE  Elements(f, es) = InPlace(f, es, n)
<1>1. PICK g : AppendsInTurn(g, f, es, n)  BY ElementsFold, Zenon
<1> DEFINE h == [k \in 0 .. n |-> [j \in 1 .. k |-> f[es[j]]]]
<1>2. AgreeInTurn(g, h, n)
  <2>1. h[0] = <<>>
    <3>1. [j \in 1 .. 0 |-> f[es[j]]] = <<>>  OBVIOUS
    <3> QED  BY <3>1
  <2>2. ASSUME NEW k \in 1 .. n, g[k - 1] = h[k - 1] PROVE g[k] = h[k]
    <3>1. /\ h[k - 1] = [j \in 1 .. k - 1 |-> f[es[j]]]
          /\ h[k] = [j \in 1 .. k |-> f[es[j]]]
      OBVIOUS
    <3>2. \A x : \A l \in Nat : Append([j \in 1 .. l |-> f[es[j]]], x)
                                = [j \in 1 .. l + 1 |-> IF j = l + 1 THEN x ELSE f[es[j]]]
      OBVIOUS
    <3>3. k - 1 \in Nat /\ (k - 1) + 1 = k  OBVIOUS
    <3>4. Append(h[k - 1], f[es[k]])
            = [j \in 1 .. k |-> IF j = k THEN f[es[k]] ELSE f[es[j]]]
      <4> HIDE DEF h
      <4> QED  BY <3>1, <3>2, <3>3
    <3>5. [j \in 1 .. k |-> IF j = k THEN f[es[k]] ELSE f[es[j]]] = h[k]
      BY <3>1
    <3> HIDE DEF h
    <3> QED  BY <1>1, <2>2, <3>4, <3>5 DEF AppendsInTurn
  <2> HIDE DEF h
  <2> QED  BY <1>1, <2>1, <2>2 DEF AgreeInTurn, AppendsInTurn
<1>3. g[n] = h[n]
  <2> HIDE DEF h
  <2>1. Agree(g, h, n)  BY <1>2, RecursionUnique, Zenon
  <2> QED  BY <2>1 DEF Agree
<1>4. h[n] = [j \in 1 .. n |-> f[es[j]]]  OBVIOUS
<1> HIDE DEF h
<1> QED  BY <1>1, <1>3, <1>4 DEF AppendsInTurn, InPlace

Members(f, ms) ==
  FoldLeft(LAMBDA result, m : Assign(result, CString(m.name), f[m.value]), <<>>, ms)

FoldsAssign(it, f, ms) ==
  it = [s \in SUBSET DOMAIN ms |->
          IF s = {} THEN <<>>
          ELSE Assign(it[s \ {Max(s)}], CString(ms[Max(s)].name), f[ms[Max(s)].value])]

\* g has what the loop over ms has built after every round.
AssignsInTurn(g, f, ms, n) ==
  /\ g[0] = <<>> /\ Members(f, ms) = g[n]
  /\ \A k \in 1 .. n : g[k] = Assign(g[k - 1], CString(ms[k].name), f[ms[k].value])

LEMMA MembersFold ==
  ASSUME NEW f, NEW ms, NEW n \in Nat, DOMAIN ms = 1 .. n
  PROVE  \E g : AssignsInTurn(g, f, ms, n)
<1> DEFINE Names == {CString(ms[k].name) : k \in 1 .. n}
           B == {f[ms[k].value] : k \in 1 .. n}
           A == UNION {[D -> B] : D \in SUBSET Names}
           F == [x \in A \X (1 .. n) |->
                   Assign(x[1], CString(ms[x[2]].name), f[ms[x[2]].value])]
           fold == CHOOSE it : FoldsAssign(it, f, ms)
           g == [k \in 0 .. n |-> fold[1 .. k]]
<1>1. \A k \in 1 .. n : CString(ms[k].name) \in Names /\ f[ms[k].value] \in B  OBVIOUS
<1> HIDE DEF Names, B
<1>2. ASSUME NEW o \in A, NEW k \in 1 .. n
      PROVE  Assign(o, CString(ms[k].name), f[ms[k].value]) \in A
  <2>1. PICK D \in SUBSET Names : o \in [D -> B]  OBVIOUS
  <2>2. D \cup {CString(ms[k].name)} \in SUBSET Names  BY <1>1
  <2>3. Assign(o, CString(ms[k].name), f[ms[k].value]) \in [D \cup {CString(ms[k].name)} -> B]
    BY <1>1, <2>1 DEF Assign
  <2> QED  BY <2>2, <2>3
<1>3. <<>> \in A
  <2>1. <<>> \in [{} -> B]  OBVIOUS
  <2> QED  BY <2>1
<1> HIDE DEF A
<1>4. F \in [A \X (1 .. n) -> A]  BY <1>2
<1>5. FoldsAssign(fold, f, ms)
  <2>1. PICK it \in [SUBSET (1 .. n) -> A] : FoldsSets(it, n, <<>>, F)
    <3> HIDE DEF F
    <3> QED  BY <1>3, <1>4, FoldExists, Zenon
  <2>2. ASSUME NEW s \in SUBSET (1 .. n)
        PROVE  it[s] = IF s = {} THEN <<>>
                       ELSE Assign(it[s \ {Max(s)}], CString(ms[Max(s)].name), f[ms[Max(s)].value])
    <3>1. CASE s = {}  BY <2>1, <3>1 DEF FoldsSets
    <3>2. CASE s # {}
      <4>1. Max(s) \in 1 .. n  BY <3>2, MaxFacts
      <4>2. it[s \ {Max(s)}] \in A  BY <2>1
      <4>3. it[s] = F[<<it[s \ {Max(s)}], Max(s)>>]
        <5> HIDE DEF F
        <5> QED  BY <2>1, <3>2 DEF FoldsSets
      <4> QED  BY <3>2, <4>1, <4>2, <4>3
    <3> QED  BY <3>1, <3>2
  <2>3. FoldsAssign(it, f, ms)
    <3> HIDE DEF F
    <3> QED  BY <2>1, <2>2 DEF FoldsAssign
  <2> QED  BY <2>3
<1>6. Members(f, ms) = fold[1 .. n]
  BY DEF Members, FoldLeft, MapThenFoldSet, FoldsAssign
<1> HIDE DEF fold
<1>7. \A s \in SUBSET (1 .. n) :
        fold[s] = IF s = {} THEN <<>>
                  ELSE Assign(fold[s \ {Max(s)}], CString(ms[Max(s)].name), f[ms[Max(s)].value])
  BY <1>5 DEF FoldsAssign
<1>8. g[0] = <<>>
  <2>1. 1 .. 0 = {} /\ 1 .. 0 \in SUBSET (1 .. n)  OBVIOUS
  <2>2. g[0] = fold[1 .. 0]  OBVIOUS
  <2> HIDE DEF g
  <2> QED  BY <1>7, <2>1, <2>2
<1>9. ASSUME NEW k \in 1 .. n
      PROVE  g[k] = Assign(g[k - 1], CString(ms[k].name), f[ms[k].value])
  <2>1. /\ 1 .. k \in SUBSET (1 .. n) /\ 1 .. k # {}
        /\ Max(1 .. k) = k /\ (1 .. k) \ {Max(1 .. k)} = 1 .. k - 1
    BY IntervalFacts
  <2>2. fold[1 .. k] = Assign(fold[1 .. k - 1], CString(ms[k].name), f[ms[k].value])
    BY <1>7, <2>1
  <2>3. g[k] = fold[1 .. k] /\ g[k - 1] = fold[1 .. k - 1]  OBVIOUS
  <2> HIDE DEF g
  <2> QED  BY <2>2, <2>3
<1>10. g[n] = fold[1 .. n]  OBVIOUS
<1> HIDE DEF g
<1> QED  BY <1>6, <1>8, <1>9, <1>10 DEF AssignsInTurn

\* The members among the first k that have the name x, and the last of them.
NamedUpTo(ms, k, x) == {j \in 1 .. k : CString(ms[j].name) = x}
LastOf(S) == CHOOSE k \in S : \A j \in S : j <= k

ByName(f, ms, n) ==
  [x \in {CString(ms[k].name) : k \in 1 .. n} |-> f[ms[LastOf(NamedUpTo(ms, n, x))].value]]

\* Of the members with one name the last one counts.
LEMMA LastMemberCounts ==
  ASSUME NEW f, NEW ms, NEW n \in Nat, DOMAIN ms = 1 .. n
  PROVE  Members(f, ms) = ByName(f, ms, n)
<1>1. PICK g : AssignsInTurn(g, f, ms, n)  BY MembersFold, Zenon
<1> DEFINE Book(k) == ByName(f, ms, k)
           h == [k \in 0 .. n |-> Book(k)]
<1>2. Book(0) = <<>>
  <2>1. {CString(ms[j].name) : j \in 1 .. 0} = {}  OBVIOUS
  <2> QED  BY <2>1 DEF ByName
<1>3. ASSUME NEW k \in 1 .. n
      PROVE  Book(k) = Assign(Book(k - 1), CString(ms[k].name), f[ms[k].value])
  <2> DEFINE before == {CString(ms[j].name) : j \in 1 .. k - 1}
             now == {CString(ms[j].name) : j \in 1 .. k}
  <2>1. now = before \cup {CString(ms[k].name)}
    <3>1. \A j \in 1 .. k : j = k \/ j \in 1 .. k - 1  OBVIOUS
    <3>2. k \in 1 .. k /\ \A j \in 1 .. k - 1 : j \in 1 .. k  OBVIOUS
    <3> QED  BY <3>1, <3>2
  <2>2. LastOf(NamedUpTo(ms, k, CString(ms[k].name))) = k
    <3>1. k \in NamedUpTo(ms, k, CString(ms[k].name))  BY DEF NamedUpTo
    <3>2. \A j \in NamedUpTo(ms, k, CString(ms[k].name)) : j \in Nat /\ j <= k
      BY DEF NamedUpTo
    <3>3. /\ LastOf(NamedUpTo(ms, k, CString(ms[k].name))) \in NamedUpTo(ms, k, CString(ms[k].name))
          /\ \A j \in NamedUpTo(ms, k, CString(ms[k].name)) :
               j <= LastOf(NamedUpTo(ms, k, CString(ms[k].name)))
      BY <3>1, <3>2 DEF LastOf
    <3> QED  BY <3>1, <3>2, <3>3
  <2>3. ASSUME NEW x, x # CString(ms[k].name) PROVE NamedUpTo(ms, k, x) = NamedUpTo(ms, k - 1, x)
    <3>1. \A j : j \in 1 .. k /\ j # k <=> j \in 1 .. k - 1  OBVIOUS
    <3> QED  BY <2>3, <3>1 DEF NamedUpTo
  <2>4. Book(k) = [x \in before \cup {CString(ms[k].name)} |->
                     IF x = CString(ms[k].name) THEN f[ms[k].value]
                     ELSE f[ms[LastOf(NamedUpTo(ms, k - 1, x))].value]]
    <3> HIDE DEF before
    <3> QED  BY <2>1, <2>2, <2>3 DEF ByName
  <2>5. DOMAIN Book(k - 1) = before
        /\ \A x \in before :
             Book(k - 1)[x] = f[ms[LastOf(NamedUpTo(ms, k - 1, x))].value]
    BY DEF ByName
  <2> HIDE DEF Book, before
  <2> QED  BY <2>4, <2>5 DEF Assign
<1>4. AgreeInTurn(g, h, n)
  <2>1. h[0] = Book(0) /\ \A k \in 1 .. n : h[k] = Book(k) /\ h[k - 1] = Book(k - 1)
    <3> HIDE DEF Book
    <3> QED  OBVIOUS
  <2> HIDE DEF h, Book
  <2> QED  BY <1>1, <1>2, <1>3, <2>1 DEF AgreeInTurn, AssignsInTurn
<1>5. g[n] = Book(n)
  <2>1. h[n] = Book(n)
    <3> HIDE DEF Book
    <3> QED  OBVIOUS
  <2> HIDE DEF h, Book
  <2>2. Agree(g, h, n)  BY <1>4, RecursionUnique, Zenon
  <2> QED  BY <2>1, <2>2 DEF Agree
<1> QED  BY <1>1, <1>5 DEF AssignsInTurn

\* A C string is what comes before the first NUL.
LEMMA CStringFacts ==
  ASSUME NEW T, NEW tokens \in Seq(T)
  PROVE  CString(tokens) = BeforeNul(tokens)
<1> DEFINE n == Len(tokens)
           I == {i \in 1 .. n : tokens[i] = "NUL"}
           P(p) == /\ "NUL" \notin Range(p)
                   /\ \/ p = tokens
                      \/ tokens[Len(p) + 1] = "NUL"
           nul == IF I # {} THEN Min(I) ELSE 0
<1>1. n \in Nat /\ tokens \in [1 .. n -> T]
  <2>1. \A s \in Seq(T) : Len(s) \in Nat /\ s \in [1 .. Len(s) -> T]  OBVIOUS
  <2> QED  BY <2>1
<1>2. CString(tokens) = IF nul = 0 THEN tokens ELSE SubSeq(tokens, 1, nul - 1)
  BY DEF CString, SelectInSeq
<1>3. ASSUME NEW l \in 0 .. n
      PROVE  /\ Len(SubSeq(tokens, 1, l)) = l
             /\ Range(SubSeq(tokens, 1, l)) = {tokens[k] : k \in 1 .. l}
  <2> DEFINE p == SubSeq(tokens, 1, l)
  <2>1. /\ p \in Seq(T) /\ Len(p) = l /\ \A k \in 1 .. l : p[k] = tokens[k]
    <3>1. \A k \in 1 .. l : tokens[k] \in T  BY <1>1
    <3>2. /\ p \in Seq(T) /\ Len(p) = IF 1 <= l THEN l - 1 + 1 ELSE 0
          /\ \A k \in 1 .. l - 1 + 1 : p[k] = tokens[1 + k - 1]
      BY <1>1, <3>1, SubSeqProperties
    <3> HIDE DEF p
    <3> QED  BY <3>2
  <2> HIDE DEF p
  <2>2. Range(p) = {p[k] : k \in 1 .. Len(p)}  BY <2>1, RangeEquality
  <2> QED  BY <2>1, <2>2 DEF p
<1>4. SubSeq(tokens, 1, n) = tokens  BY <1>1
<1>5. ASSUME NEW l \in 0 .. n
      PROVE  P(SubSeq(tokens, 1, l)) <=>
               /\ \A k \in 1 .. l : tokens[k] # "NUL"
               /\ l = n \/ tokens[l + 1] = "NUL"
  <2>1. SubSeq(tokens, 1, l) = tokens <=> l = n  BY <1>3, <1>4
  <2>2. "NUL" \notin Range(SubSeq(tokens, 1, l)) <=>
          \A k \in 1 .. l : tokens[k] # "NUL"
    BY <1>3
  <2> QED  BY <1>3, <2>1, <2>2
<1> HIDE DEF n
<1> DEFINE last == IF I = {} THEN n ELSE Min(I) - 1
<1>6. /\ last \in 0 .. n
      /\ CString(tokens) = SubSeq(tokens, 1, last)
      /\ \A l \in 0 .. n :
           P(SubSeq(tokens, 1, l)) <=> l = last
  <2> HIDE DEF P
  <2>1. CASE I = {}
    <3>1. \A k \in 1 .. n : tokens[k] # "NUL"  BY <2>1
    <3>2. \A l \in 0 .. n : P(SubSeq(tokens, 1, l)) <=> l = n
      <4> SUFFICES ASSUME NEW l \in 0 .. n PROVE P(SubSeq(tokens, 1, l)) <=> l = n
        OBVIOUS
      <4>1. \A k \in 1 .. l : k \in 1 .. n  BY <1>1
      <4>2. l = n \/ l + 1 \in 1 .. n  BY <1>1
      <4> QED  BY <1>5, <3>1, <4>1, <4>2
    <3>3. last = n /\ nul = 0 /\ n \in 0 .. n  BY <1>1, <2>1
    <3> HIDE DEF last, nul
    <3> QED  BY <1>2, <1>4, <3>2, <3>3
  <2>2. CASE I # {}
    <3> DEFINE m == Min(I)
    <3>1. m \in I /\ \A y \in I : m <= y
      <4>1. I \in SUBSET Nat  BY <1>1
      <4> HIDE DEF I
      <4> QED  BY <2>2, <4>1, MinFacts, Zenon
    <3>2. last = m - 1 /\ nul = m  BY <2>2
    <3> HIDE DEF m
    <3>3. m \in 1 .. n /\ tokens[m] = "NUL"  BY <3>1
    <3>4. \A k \in 1 .. n : tokens[k] = "NUL" => m <= k  BY <3>1
    <3>5. last \in 0 .. n /\ CString(tokens) = SubSeq(tokens, 1, last)
      <4> HIDE DEF last, nul
      <4> QED  BY <1>1, <1>2, <3>2, <3>3
    <3> HIDE DEF last, nul, I
    <3>6. \A l \in 0 .. n : P(SubSeq(tokens, 1, l)) <=> l = m - 1
      <4> SUFFICES ASSUME NEW l \in 0 .. n PROVE P(SubSeq(tokens, 1, l)) <=> l = m - 1
        OBVIOUS
      <4>1. ASSUME l = m - 1
            PROVE  (\A k \in 1 .. l : tokens[k] # "NUL") /\ tokens[l + 1] = "NUL"
        <5>1. l + 1 = m /\ \A k \in 1 .. l : k \in 1 .. n /\ ~(m <= k)
          BY <1>1, <3>3, <4>1
        <5> QED  BY <3>3, <3>4, <5>1
      <4>2. ASSUME \A k \in 1 .. l : tokens[k] # "NUL", l = n \/ tokens[l + 1] = "NUL"
            PROVE  l = m - 1
        <5>1. m \notin 1 .. l  BY <3>3, <4>2
        <5>2. l < m /\ l + 1 \in 1 .. n /\ l # n  BY <1>1, <3>3, <5>1
        <5>3. m <= l + 1  BY <3>4, <4>2, <5>2
        <5> QED  BY <1>1, <3>3, <5>2, <5>3
      <4> QED  BY <1>5, <4>1, <4>2
    <3> QED  BY <3>2, <3>5, <3>6
  <2> QED  BY <2>1, <2>2
<1> DEFINE chosen == CHOOSE p \in Prefixes(tokens) : P(p)
<1> HIDE DEF P, last
<1>7. Prefixes(tokens) = {SubSeq(tokens, 1, l) : l \in 0 .. n}
  BY DEF Prefixes, n
<1>8. \A p \in Prefixes(tokens) : P(p) <=> p = CString(tokens)
  <2> SUFFICES ASSUME NEW p \in Prefixes(tokens) PROVE P(p) <=> p = CString(tokens)
    OBVIOUS
  <2>1. PICK l \in 0 .. n : p = SubSeq(tokens, 1, l)  BY <1>7
  <2>2. p = CString(tokens) => l = last
    <3>1. Len(p) = l /\ Len(SubSeq(tokens, 1, last)) = last  BY <1>3, <1>6, <2>1
    <3> QED  BY <1>6, <3>1
  <2> QED  BY <1>6, <2>1, <2>2
<1>9. CString(tokens) \in Prefixes(tokens)  BY <1>6, <1>7
<1>10. chosen = CString(tokens)  BY <1>8, <1>9
<1> QED  BY <1>10 DEF P, BeforeNul

\* One step of either function, for a function f of what is inside of v.
Converted(f, v) ==
  CASE v.type = "object" -> [type |-> "object", at |-> Members(f, v.members)]
    [] v.type = "array" -> [type |-> "array", elements |-> Elements(f, v.elements)]
    [] v.type = "leaf" -> [type |-> "leaf", tokens |-> CString(v.tokens)]

Meant(f, v) ==
  CASE v.type = "object" ->
         LET Name(k) == BeforeNul(v.members[k].name)
             Named(n) == {k \in DOMAIN v.members : Name(k) = n}
             names == {Name(k) : k \in DOMAIN v.members}
             Final(n) == CHOOSE k \in Named(n) : \A j \in Named(n) : j <= k
         IN  [type |-> "object",
              at |-> [n \in names |-> f[v.members[Final(n)].value]]]
    [] v.type = "array" ->
         [type |-> "array",
          elements |-> [k \in DOMAIN v.elements |-> f[v.elements[k]]]]
    [] v.type = "leaf" ->
         [type |-> "leaf", tokens |-> BeforeNul(v.tokens)]

LEMMA ConvertedIsMeant ==
  ASSUME NEW f, NEW v \in Values
  PROVE  Converted(f, v) = Meant(f, v)
<1>1. CASE v.type = "object"
  <2> DEFINE ms == v.members
             n == Len(ms)
             book == ByName(f, ms, n)
  <2>1. n \in Nat /\ DOMAIN ms = 1 .. n
    <3>1. ms \in Seq(Range(ms))  BY <1>1, DecodingAssumption
    <3> HIDE DEF ms
    <3> QED  BY <3>1
  <2>2. Members(f, ms) = book
    <3> HIDE DEF n, ms
    <3> QED  BY <2>1, LastMemberCounts, Zenon
  <2>3. Meant(f, v) = [type |-> "object", at |-> book]
    <3> DEFINE Name(k) == BeforeNul(v.members[k].name)
               Named(x) == {k \in DOMAIN v.members : Name(k) = x}
               names == {Name(k) : k \in DOMAIN v.members}
    <3>1. ASSUME NEW k \in 1 .. n PROVE Name(k) = CString(ms[k].name)
      <4>1. ms[k].name \in Seq(Range(ms[k].name))
        BY <1>1, <2>1, DecodingAssumption
      <4> QED  BY <4>1, CStringFacts
    <3>2. \A x : Named(x) = NamedUpTo(ms, n, x)
      BY <2>1, <3>1 DEF NamedUpTo
    <3>3. names = {CString(ms[k].name) : k \in 1 .. n}  BY <2>1, <3>1
    <3>4. Meant(f, v) = [type |-> "object",
                         at |-> [x \in names |-> f[ms[LastOf(Named(x))].value]]]
      BY <1>1 DEF Meant, LastOf
    <3>5. [x \in names |-> f[ms[LastOf(Named(x))].value]] = book
      <4> HIDE DEF Named, names, n, ms
      <4> QED  BY <3>2, <3>3 DEF ByName
    <3> HIDE DEF Name, Named, names, book
    <3> QED  BY <3>4, <3>5
  <2>4. Converted(f, v) = [type |-> "object", at |-> Members(f, ms)]
    BY <1>1 DEF Converted
  <2> HIDE DEF book
  <2> QED  BY <2>2, <2>3, <2>4
<1>2. CASE v.type = "array"
  <2> DEFINE es == v.elements
             n == Len(es)
  <2>1. n \in Nat /\ DOMAIN es = 1 .. n
    <3>1. es \in Seq(Values)  BY <1>2, DecodingAssumption
    <3> HIDE DEF es
    <3> QED  BY <3>1
  <2>2. Elements(f, es) = InPlace(f, es, n)
    <3> HIDE DEF n, es
    <3> QED  BY <2>1, ElementsKeepTheirPlaces, Zenon
  <2> QED  BY <1>2, <2>1, <2>2 DEF Converted, Meant, InPlace
<1>3. CASE v.type = "leaf"
  <2> DEFINE p == BeforeNul(v.tokens)
  <2>1. v.tokens \in Seq(Range(v.tokens))  BY <1>3, DecodingAssumption
  <2>2. CString(v.tokens) = p  BY <2>1, CStringFacts, Zenon
  <2>3. Meant(f, v) = [type |-> "leaf", tokens |-> p]  BY <1>3, Zenon DEF Meant
  <2>4. Converted(f, v) = [type |-> "leaf", tokens |-> CString(v.tokens)]
    BY <1>3, Zenon DEF Converted
  <2> HIDE DEF p
  <2> QED  BY <2>2, <2>3, <2>4
<1> QED  BY <1>1, <1>2, <1>3, DecodingAssumption

IsConversion(f) == f = [v \in Values |-> Converted(f, v)]
IsMeaning(f) == f = [v \in Values |-> Meant(f, v)]

\* The converted document is what the reply means, whatever names occur twice
\* and wherever a string has a NUL.
THEOREM ConversionIsMeaning == rapidjsonToNlohmannJson = Meaning
<1>1. rapidjsonToNlohmannJson = CHOOSE f : IsConversion(f)
  BY DEF rapidjsonToNlohmannJson, IsConversion, Converted, Members, Elements
<1>2. Meaning = CHOOSE f : IsMeaning(f)
  BY DEF Meaning, IsMeaning, Meant
<1>3. \A f : IsConversion(f) <=> IsMeaning(f)
  BY ConvertedIsMeant DEF IsConversion, IsMeaning
<1> QED  BY <1>1, <1>2, <1>3

\* The values directly inside of v.
Inside(v) ==
  IF v.type = "object" THEN {v.members[k].value : k \in DOMAIN v.members}
  ELSE IF v.type = "array" THEN {v.elements[k] : k \in DOMAIN v.elements} ELSE {}

\* depth measures how far values are nested, as in every document that ends.
IsDepth(depth) ==
  /\ depth \in [Values -> Nat]
  /\ \A v \in Values : \A c \in Inside(v) : c \in Values /\ depth[c] < depth[v]

\* A step looks at the results for what is inside of v only.
LEMMA ConvertedLooksInside ==
  ASSUME NEW f, NEW g, NEW v \in Values, \A c \in Inside(v) : f[c] = g[c]
  PROVE  Converted(f, v) = Converted(g, v)
<1>1. CASE v.type = "object"
  <2> DEFINE ms == v.members
             n == Len(ms)
  <2>1. n \in Nat /\ DOMAIN ms = 1 .. n
    <3>1. ms \in Seq(Range(ms))  BY <1>1, DecodingAssumption
    <3> HIDE DEF ms
    <3> QED  BY <3>1
  <2>2. \A k \in 1 .. n : f[ms[k].value] = g[ms[k].value]
    BY <1>1, <2>1 DEF Inside
  <2>3. Members(f, ms) = ByName(f, ms, n) /\ Members(g, ms) = ByName(g, ms, n)
    <3> HIDE DEF n, ms
    <3> QED  BY <2>1, LastMemberCounts, Zenon
  <2> HIDE DEF n, ms
  <2>4. ASSUME NEW x \in {CString(ms[k].name) : k \in 1 .. n}
        PROVE  LastOf(NamedUpTo(ms, n, x)) \in 1 .. n
    <3>1. NamedUpTo(ms, n, x) \in SUBSET (1 .. n) /\ NamedUpTo(ms, n, x) # {}
      BY DEF NamedUpTo
    <3>2. PICK k \in NamedUpTo(ms, n, x) : \A j \in NamedUpTo(ms, n, x) : j <= k
      BY <2>1, <3>1, MaxFacts
    <3>3. LastOf(NamedUpTo(ms, n, x)) \in NamedUpTo(ms, n, x)
      BY <3>2 DEF LastOf
    <3> QED  BY <3>1, <3>3
  <2>5. ByName(f, ms, n) = ByName(g, ms, n)  BY <2>2, <2>4 DEF ByName
  <2> QED  BY <1>1, <2>3, <2>5 DEF Converted, ms
<1>2. CASE v.type = "array"
  <2> DEFINE es == v.elements
             n == Len(es)
  <2>1. n \in Nat /\ DOMAIN es = 1 .. n
    <3>1. es \in Seq(Values)  BY <1>2, DecodingAssumption
    <3> HIDE DEF es
    <3> QED  BY <3>1
  <2>2. \A k \in 1 .. n : f[es[k]] = g[es[k]]
    BY <1>2, <2>1 DEF Inside
  <2>3. Elements(f, es) = InPlace(f, es, n) /\ Elements(g, es) = InPlace(g, es, n)
    <3> HIDE DEF n, es
    <3> QED  BY <2>1, ElementsKeepTheirPlaces, Zenon
  <2> HIDE DEF n, es
  <2>4. InPlace(f, es, n) = InPlace(g, es, n)  BY <2>2 DEF InPlace
  <2> QED  BY <1>2, <2>3, <2>4 DEF Converted, es
<1>3. CASE v.type = "leaf"
  BY <1>3, Zenon DEF Converted
<1> QED  BY <1>1, <1>2, <1>3, DecodingAssumption

\* f converts what is nested less than k.
Converts(f, depth, k) ==
  \A v \in Values : depth[v] < k => f[v] = Converted(f, v)

LEMMA ConversionsExist ==
  ASSUME NEW depth, IsDepth(depth), NEW k \in Nat
  PROVE  \E f : Converts(f, depth, k)
<1> DEFINE S == {n \in Nat : \E f : Converts(f, depth, n)}
<1>1. 0 \in S
  <2>1. \A v \in Values : ~(depth[v] < 0)  BY DEF IsDepth
  <2> QED  BY <2>1 DEF Converts
<1>2. ASSUME NEW n \in Nat, n \in S PROVE n + 1 \in S
  <2>1. PICK f : Converts(f, depth, n)  BY <1>2
  <2> DEFINE g == [v \in Values |-> IF depth[v] < n THEN f[v] ELSE Converted(f, v)]
  <2>2. ASSUME NEW v \in Values PROVE g[v] = Converted(f, v)
    BY <2>1, <2>2 DEF Converts
  <2>3. ASSUME NEW v \in Values, depth[v] < n + 1
        PROVE  \A c \in Inside(v) : g[c] = f[c]
    <3> SUFFICES ASSUME NEW c \in Inside(v) PROVE g[c] = f[c]
      OBVIOUS
    <3>1. c \in Values /\ depth[c] < depth[v] /\ depth[v] \in Nat /\ depth[c] \in Nat
      BY DEF IsDepth
    <3>2. depth[c] < n  BY <2>3, <3>1
    <3> QED  BY <3>1, <3>2
  <2> HIDE DEF g
  <2>4. Converts(g, depth, n + 1)
    <3> SUFFICES ASSUME NEW v \in Values, depth[v] < n + 1 PROVE g[v] = Converted(g, v)
      BY DEF Converts
    <3>1. Converted(g, v) = Converted(f, v)  BY <2>3, ConvertedLooksInside
    <3> QED  BY <2>2, <3>1
  <2> QED  BY <2>4
<1> HIDE DEF S
<1>3. Nat \subseteq S  BY <1>1, <1>2, NatInSet, Zenon
<1> QED  BY <1>3 DEF S

\* Two of them agree.
LEMMA ConversionsAgree ==
  ASSUME NEW depth, IsDepth(depth), NEW k \in Nat,
         NEW f, NEW g, Converts(f, depth, k), Converts(g, depth, k)
  PROVE  \A v \in Values : depth[v] < k => f[v] = g[v]
<1> DEFINE S == {n \in Nat : n <= k => \A v \in Values : depth[v] < n => f[v] = g[v]}
<1>1. 0 \in S
  <2>1. \A v \in Values : ~(depth[v] < 0)  BY DEF IsDepth
  <2> QED  BY <2>1
<1>2. ASSUME NEW n \in Nat, n \in S PROVE n + 1 \in S
  <2> SUFFICES ASSUME n + 1 <= k, NEW v \in Values, depth[v] < n + 1
               PROVE  f[v] = g[v]
    OBVIOUS
  <2>1. ASSUME NEW c \in Inside(v) PROVE f[c] = g[c]
    <3>1. c \in Values /\ depth[c] < depth[v] /\ depth[v] \in Nat /\ depth[c] \in Nat
      BY DEF IsDepth
    <3>2. depth[c] < n /\ n <= k  BY <3>1
    <3> QED  BY <1>2, <3>1, <3>2
  <2>2. Converted(f, v) = Converted(g, v)  BY <2>1, ConvertedLooksInside
  <2>3. depth[v] < k  BY DEF IsDepth
  <2> QED  BY <2>2, <2>3 DEF Converts
<1> HIDE DEF S
<1>3. Nat \subseteq S  BY <1>1, <1>2, NatInSet, Zenon
<1> QED  BY <1>3 DEF S

\* On documents of finite depth there is a conversion.
LEMMA ConversionExists ==
  ASSUME NEW depth, IsDepth(depth)
  PROVE  \E f : IsConversion(f)
<1> DEFINE F(k) == CHOOSE f : Converts(f, depth, k)
           h == [v \in Values |-> F(depth[v] + 1)[v]]
<1>1. ASSUME NEW k \in Nat PROVE Converts(F(k), depth, k)
  <2>1. \E f : Converts(f, depth, k)  BY ConversionsExist
  <2> QED  BY <2>1, Zenon
<1> HIDE DEF F
<1>2. ASSUME NEW v \in Values PROVE h[v] = Converted(h, v)
  <2>1. depth[v] \in Nat /\ depth[v] + 1 \in Nat /\ depth[v] < depth[v] + 1
    BY DEF IsDepth
  <2> DEFINE f == F(depth[v] + 1)
  <2>2. Converts(f, depth, depth[v] + 1)  BY <1>1, <2>1
  <2>3. h[v] = f[v] /\ f[v] = Converted(f, v)
    BY <2>1, <2>2 DEF Converts
  <2>4. ASSUME NEW c \in Inside(v) PROVE h[c] = f[c]
    <3>1. c \in Values /\ depth[c] < depth[v] /\ depth[c] \in Nat
      BY DEF IsDepth
    <3>2. depth[c] + 1 \in Nat /\ depth[c] < depth[c] + 1 /\ depth[c] + 1 <= depth[v] + 1
      BY <2>1, <3>1
    <3>3. Converts(f, depth, depth[c] + 1)
      <4>1. \A w \in Values : depth[w] < depth[c] + 1 => depth[w] < depth[v] + 1
        BY <2>1, <3>1 DEF IsDepth
      <4> HIDE DEF f
      <4> QED  BY <2>2, <4>1 DEF Converts
    <3>4. Converts(F(depth[c] + 1), depth, depth[c] + 1)  BY <1>1, <3>2
    <3> HIDE DEF f
    <3>5. F(depth[c] + 1)[c] = f[c]
      BY <3>1, <3>2, <3>3, <3>4, ConversionsAgree
    <3> QED  BY <3>1, <3>5
  <2> HIDE DEF h, f
  <2>5. Converted(h, v) = Converted(f, v)  BY <2>4, ConvertedLooksInside
  <2> QED  BY <2>3, <2>5
<1>3. h = [v \in Values |-> Converted(h, v)]
  <2> DEFINE g == [v \in Values |-> Converted(h, v)]
  <2>1. \A v \in Values : h[v] = g[v]  BY <1>2
  <2>2. h = [v \in Values |-> h[v]]  OBVIOUS
  <2> HIDE DEF h
  <2> QED  BY <2>1, <2>2
<1> QED  BY <1>3 DEF IsConversion

\* On documents of finite depth, which all texts are, the recursion of
\* rapidjsonToNlohmannJson ends: it returns what its body says, and that is the
\* meaning.
THEOREM ConversionEnds ==
  ASSUME NEW depth, IsDepth(depth)
  PROVE  \A v \in Values :
           rapidjsonToNlohmannJson[v] = Meant(rapidjsonToNlohmannJson, v)
<1>1. rapidjsonToNlohmannJson = CHOOSE f : IsConversion(f)
  BY DEF rapidjsonToNlohmannJson, IsConversion, Converted, Members, Elements
<1>2. IsConversion(rapidjsonToNlohmannJson)
  BY <1>1, ConversionExists, Zenon
<1>3. \A v \in Values :
        rapidjsonToNlohmannJson[v] = Converted(rapidjsonToNlohmannJson, v)
  BY <1>2 DEF IsConversion
<1> QED  BY <1>3, ConvertedIsMeant

-----------------------------------------------------------------------------
(* getOrderBook.                                                           *)

LEMMA ReplyStep == BookIsReply /\ [NextB]_allVars => BookIsReply'
<1> SUFFICES ASSUME BookIsReply, [NextB]_allVars PROVE BookIsReply'
  OBVIOUS
<1>1. CASE UNCHANGED bookVars  BY <1>1 DEF bookVars, BookIsReply
<1>2. CASE UNCHANGED allVars  BY <1>1, <1>2 DEF allVars, benchVars
<1>3. CASE GetOrderBook("book", "cancel")
  <2>1. PICK o \in Outcomes, stream \in Streams, document \in Documents :
          /\ orderBookData' =
               IF o.ok /\ Parsed(o, stream, document) # None
               THEN rapidjsonToNlohmannJson[document] ELSE None
          /\ replied' = IF /\ o.ok /\ o.kind \in WithResult
                           /\ stream.ret = "Z_STREAM_END"
                        THEN document ELSE None
    BY <1>3 DEF GetOrderBook, Parsed
  <2>2. OutputLoop(stream.writes) = Whole(stream.writes)
    BY BenchmarkAssumption, PiecesAreTheText
  <2>3. Parsed(o, stream, document) =
          IF o.kind \in WithResult /\ stream.ret = "Z_STREAM_END"
          THEN document ELSE None
    BY <2>2 DEF Parsed, Throws
  <2>4. rapidjsonToNlohmannJson[document] = Meaning[document]
    BY ConversionIsMeaning
  <2> QED  BY <2>1, <2>3, <2>4 DEF BookIsReply
<1>4. CASE ~GetOrderBook("book", "cancel") /\ NextB
  BY <1>1, <1>4
     DEF NextB, Sequence, GetToken, TokenLost, Report, Place, Modify, Cancel, benchVars
<1> QED  BY <1>2, <1>3, <1>4

\* Whatever the exchange replies and however inflate delivers it, getOrderBook
\* returns the document of a good reply, and {} for every other.
THEOREM BookIsTheReply == SpecB => []BookIsReply
<1>1. InitB => BookIsReply  BY DEF InitB, BookIsReply
<1>2. BookIsReply /\ [NextB]_allVars => BookIsReply'  BY ReplyStep
<1> QED  BY <1>1, <1>2, PTL DEF SpecB
=============================================================================
