---------------------------- MODULE OrderManagement ----------------------------
(***************************************************************************)
(* OrderAPI (order_management.cpp): placeOrder, modifyOrder and            *)
(* cancelOrder, the orders they keep, the MemoryPool they keep them with   *)
(* (utils.cpp:18-43), and the exchange they talk to.                       *)
(*                                                                         *)
(* One caller at a time: each call blocks until the thread that works for  *)
(* it is done (ExecuteAsync, performAsyncCurlRequest), so a call is one    *)
(* action.  What performCurlRequest may hand back is what CurlRequests and *)
(* HttpReply say.  An order is named by the number the exchange gives it.  *)
(***************************************************************************)
EXTENDS HttpReply, FiniteSets, FiniteSetsExt

CONSTANTS
  Blocks,      \* the blocks of orderPool, in the order of their addresses
  Nodes,       \* heap addresses where nodes of orders may lie
  MaxRetries,  \* of performCurlRequest
  MaxOrders    \* bound: orders the exchange creates

ASSUME OrderAssumption ==
  /\ Blocks \in Seq(Range(Blocks))
  /\ \A i, j \in DOMAIN Blocks : Blocks[i] = Blocks[j] => i = j
  /\ Range(Blocks) \cap Nodes = {}
  /\ MaxRetries \in Nat \ {0} /\ MaxOrders \in Nat

VARIABLES
  freeBlocks,  \* MemoryPool: free addresses, used as a stack
  orders,      \* the map: order -> address of its node
  mem,         \* what lies at each address: an order's data, 0 if null
  aborted,     \* a failed assertion or an uncaught exception ended it all
  returned,    \* result of the last call: "true", "false" or "none"
  created,     \* exchange: orders are 1 .. created
  live,        \* exchange: created and not cancelled
  constructed, \* history: addresses where placement new made an object
  lost         \* history: orders the client has lost track of

poolVars == <<freeBlocks, orders, mem, constructed>>
vars == <<poolVars, aborted, returned, created, live, lost>>

BlockSet == Range(Blocks)
Addresses == BlockSet \cup Nodes
Tracked == DOMAIN orders

Init ==
  /\ freeBlocks = Blocks
  /\ orders = <<>>
  /\ mem = [a \in Addresses |-> 0]
  /\ aborted = FALSE
  /\ returned = "none"
  /\ created = 0
  /\ live = {}
  /\ constructed = {}
  /\ lost = {}

-----------------------------------------------------------------------------
(* A request, as the caller sees it: whether curl succeeded, whether the   *)
(* text behind the first header block is one body, what the body says, and *)
(* how many of the attempts the exchange has executed.                     *)
(*   "order"     result.order with its order_id                            *)
(*   "noid"      result.order without it                                   *)
(*   "noorder"   result without order                                      *)
(*   "noresult"  an object with neither result nor error                   *)
(*   "error"     an error object with its message                          *)
(*   "badgzip"   a gzip header and data that inflate rejects               *)
(*   "garbage"   no JSON object, or members of an unexpected type          *)
(* Of the exchange it is assumed that a "result" comes only with an attempt *)
(* it has executed.  Every other reply may come whatever it has done.      *)

WithResult == {"order", "noid", "noorder"}
Accepting == WithResult \cup {"noresult"}  \* for cancelOrderRequest
Kinds == Accepting \cup {"error", "badgzip", "garbage"}

MayBeClean == {IsOneBody(Body(b)) : b \in SuccessBuffers(MaxRetries - 1)}

\* rapidjson refuses a text that is not one body; the document stays Null.
Outcomes ==
  {o \in [ok : BOOLEAN, clean : MayBeClean, kind : Kinds,
          effects : 0 .. MaxRetries] :
     /\ ~o.ok => o.clean /\ o.kind = "error"
     /\ ~o.clean => o.kind = "garbage"
     /\ o.ok /\ o.kind \in WithResult => o.effects > 0}

-----------------------------------------------------------------------------
(* MemoryPool and the map.                                                 *)

\* What allocate() returns next.
Back == freeBlocks[Len(freeBlocks)]

StoreNull(p, id, node) ==  \* mutant: the node is made and not assigned
  /\ mem' = [mem EXCEPT ![p] = id, ![node] = 0]
  /\ orders' = [o \in Tracked \cup {id} |->
                  IF o = id THEN node ELSE orders[o]]

\* new (p) json(order); orders[id] = order;  operator[] makes a null node for
\* a new key, at an address the allocator may choose, p's own among them if p
\* is not of the pool and has been freed.
Store(p, id, node) ==
  LET new == id \notin Tracked
      m == IF new /\ node = p THEN [mem EXCEPT ![p] = 0]
                              ELSE [mem EXCEPT ![p] = id]
  IN  /\ mem' = [m EXCEPT ![node] = m[p]]
      /\ orders' = [o \in Tracked \cup {id} |->
                      IF o = id THEN node ELSE orders[o]]

NodesFor(id) == IF id \in Tracked THEN {orders[id]}
                                  ELSE Nodes \ Range(orders)

\* allocate(); an exhausted pool leaves the order out of the map.
Keep(id) ==
  IF freeBlocks = <<>>
  THEN UNCHANGED poolVars
  ELSE /\ freeBlocks' = SubSeq(freeBlocks, 1, Len(freeBlocks) - 1)
       /\ constructed' = constructed \cup {Back}
       /\ \E node \in NodesFor(id) : Store(Back, id, node)

\* deallocate(&orders[orderId]); orders.erase(orderId): what goes back to the
\* pool is the address inside the node.
EraseFirst(id) ==  \* mutant: operator[] after erase makes the entry again
  /\ freeBlocks' = Append(freeBlocks, orders[id])
  /\ UNCHANGED orders
DropTwice(id) ==  \* mutant: the address goes back twice
  /\ freeBlocks' = freeBlocks \o <<orders[id], orders[id]>>
  /\ orders' = [o \in Tracked \ {id} |-> orders[o]]
Drop(id) ==
  /\ freeBlocks' = Append(freeBlocks, orders[id])
  /\ orders' = [o \in Tracked \ {id} |-> orders[o]]

-----------------------------------------------------------------------------
Answer(b) == returned' = b /\ UNCHANGED aborted
Abort == aborted' = TRUE /\ returned' = "none"

Lose(ids) == lost' = lost \cup ids

\* The exchange executed n attempts of a buy: each makes an order.
Bought(n) == created + 1 .. created + n
Buy(n) ==
  /\ created + n <= MaxOrders
  /\ created' = created + n
  /\ live' = live \cup Bought(n)

\* placeOrder; its caller has the order's number (orderId) when it is "true".
\* The reply is the one to the last attempt.
PlaceSucceeds(o) ==
  /\ o.ok /\ o.kind = "order"
  /\ Keep(created')
  /\ Lose(IF freeBlocks = <<>> THEN Bought(o.effects)
                               ELSE Bought(o.effects) \ {created'})
  /\ Answer("true")

AllocateEarly(o) ==  \* mutant: allocate() before the test of "order_id"
  /\ o.ok /\ o.kind = "noid" /\ freeBlocks # <<>>
  /\ freeBlocks' = SubSeq(freeBlocks, 1, Len(freeBlocks) - 1)
  /\ Answer("false")
  /\ UNCHANGED <<orders, mem, constructed, lost>>

PlaceFails(o) ==
  /\ ~o.ok \/ o.kind \notin {"order", "garbage"}
  /\ Lose(Bought(o.effects))
  /\ Answer("false")
  /\ UNCHANGED poolVars

\* HasMember("error") on a document that is no object asserts (line 223).
PlaceAborts(o) ==
  /\ o.ok /\ o.kind = "garbage"
  /\ Lose(Bought(o.effects))
  /\ Abort
  /\ UNCHANGED poolVars

PlaceOrder(o) ==
  /\ Buy(o.effects)
  /\ PlaceSucceeds(o) \/ PlaceFails(o) \/ PlaceAborts(o)

-----------------------------------------------------------------------------
\* modifyOrder: the exchange accepts an edit of a live order only.
ModifySucceeds(id, o) ==
  /\ o.ok /\ o.kind \in {"order", "noid"}
  /\ Keep(id)
  /\ Answer("true")

ModifyFails(id, o) ==
  /\ ~o.ok \/ o.kind \in {"error", "badgzip", "noorder"}
  /\ Answer("false")
  /\ UNCHANGED poolVars

\* HasMember (line 376) and operator[] of a missing member (380) assert.
ModifyAborts(id, o) ==
  /\ o.ok /\ o.kind \in {"garbage", "noresult"}
  /\ Abort
  /\ UNCHANGED poolVars

ModifyOrder(id, o) ==
  /\ o.effects > 0 => id \in live
  /\ ModifySucceeds(id, o) \/ ModifyFails(id, o) \/ ModifyAborts(id, o)
  /\ UNCHANGED <<created, live, lost>>

-----------------------------------------------------------------------------
\* cancelOrderRequest: an order is cancelled once; a retry after a lost reply
\* gets an error.  An object with neither error nor result counts as success
\* (line 321), whatever the exchange has done.
CancelSucceeds(id, o) ==
  /\ o.ok /\ o.kind \in Accepting
  /\ IF id \in Tracked THEN Drop(id) /\ UNCHANGED <<mem, constructed>>
                       ELSE UNCHANGED poolVars
  /\ Lose(IF o.effects = 0 THEN {id} \cap live ELSE {})
  /\ Answer("true")

CancelFails(id, o) ==
  /\ ~o.ok \/ o.kind \in {"error", "badgzip"}
  /\ Lose(IF o.effects > 0 THEN {id} ELSE {})
  /\ Answer("false")
  /\ UNCHANGED poolVars

\* HasMember in the log statement (line 322) asserts.
CancelAborts(id, o) ==
  /\ o.ok /\ o.kind = "garbage"
  /\ Lose(IF o.effects > 0 THEN {id} ELSE {})
  /\ Abort
  /\ UNCHANGED poolVars

CancelOrder(id, o) ==
  /\ o.effects <= 1
  /\ o.effects > 0 => id \in live
  /\ live' = IF o.effects > 0 THEN live \ {id} ELSE live
  /\ CancelSucceeds(id, o) \/ CancelFails(id, o) \/ CancelAborts(id, o)
  /\ UNCHANGED created

\* getAccessToken throws (TokenManager!FetchThrows): nobody catches it.
TokenThrows ==
  /\ Abort
  /\ UNCHANGED <<poolVars, created, live, lost>>

-----------------------------------------------------------------------------
Next ==
  /\ ~aborted
  /\ \/ \E o \in Outcomes : PlaceOrder(o)
     \/ \E id \in 0 .. MaxOrders, o \in Outcomes :
          ModifyOrder(id, o) \/ CancelOrder(id, o)
     \/ TokenThrows

Spec == Init /\ [][Next]_vars

-----------------------------------------------------------------------------
\* The pool cannot overflow: every tracked order has cost it a place and
\* cancelling it brings at most that place back (lines 216, 327, 385).
BlocksAccounted == Len(freeBlocks) + Cardinality(Tracked) <= Len(Blocks)

\* As long as placement new has only been used on blocks of the pool, the
\* node of every tracked order holds that order's data: a node is never made
\* on top of the object it is copied from, nor overwritten by another order.
StoredDataRight ==
  constructed \subseteq BlockSet => \A id \in Tracked : mem[orders[id]] = id

\* Every order is in the map exactly if it is live at the exchange, but for
\* those the client has lost track of: bought or cancelled by an attempt whose
\* reply was lost, broken off or refused, bought twice, bought when the pool was
\* exhausted, or dropped on a reply that reports no result.  No other order is
\* affected by the loss of these.
BookMatchesExchange == Tracked \ lost = live \ lost

\* A call that returns false, and one that ends the process, has left the map
\* and the pool as they were.
FailureChangesNothing == [][returned' # "true" => UNCHANGED poolVars]_vars

\* What goes back to the pool is memory of the pool.
PoolBlocksOnly == Range(freeBlocks) \subseteq BlockSet
=============================================================================
