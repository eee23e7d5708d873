------------------------------- MODULE Benchmark -------------------------------
(***************************************************************************)
(* main and benchmark (main.cpp): one token, then a market order, a limit  *)
(* order, a modification, an order book and a cancellation, one after the  *)
(* other, on the OrderAPI of OrderManagement.  A failed operation is       *)
(* logged and the next one is called all the same, with the orderId that   *)
(* is there.                                                               *)
(***************************************************************************)
EXTENDS OrderManagement, ReplyDecoding

CONSTANTS
  Documents,  \* the order books the exchange may reply: objects with "result"
  Streams     \* what inflate may do with a reply

\* inflate writes at most what fits into the buffer (avail_out).
ASSUME BenchmarkAssumption ==
  /\ Documents \subseteq Values
  /\ \A s \in Streams : s.writes \in Seq(0 .. BufferSize)

VARIABLES
  step,      \* the next operation
  orderId,   \* the local variable; 0 is the empty string
  orderBookData,  \* what getOrderBook returned, None for {}
  replied,   \* history: the document in a good reply to it, or None
  results,   \* what the operations returned so far
  said       \* "All operations completed successfully." was printed

bookVars == <<orderBookData, replied>>
benchVars == <<step, orderId, results, said, bookVars>>
allVars == <<vars, benchVars>>

None == [type |-> "none"]

InitB ==
  /\ Init
  /\ step = "token" /\ orderId = 0 /\ results = <<>> /\ said = FALSE
  /\ orderBookData = None /\ replied = None

Continue(next) ==
  /\ step' = next
  /\ results' = Append(results, returned')
  /\ UNCHANGED said

\* An empty token ends main before anything is sent; a thrown exception ends
\* the process.
GetToken ==
  /\ step = "token"
  /\ \/ step' = "market" /\ UNCHANGED <<vars, bookVars, orderId, results, said>>
     \/ step' = "exit" /\ UNCHANGED <<vars, bookVars, orderId, results, said>>
     \/ TokenThrows /\ UNCHANGED benchVars

\* orderId is an out parameter: a place that fails leaves it as it was.
Place(at, next) ==
  /\ step = at
  /\ \E o \in Outcomes : PlaceOrder(o)
  /\ orderId' = IF returned' = "true" THEN created' ELSE orderId
  /\ Continue(next) /\ UNCHANGED bookVars

Modify(at, next) ==
  /\ step = at
  /\ \E o \in Outcomes : ModifyOrder(orderId, o)
  /\ Continue(next) /\ UNCHANGED <<bookVars, orderId>>

\* The document of the text behind the header block, None if it is not one
\* body, inflate does not end well (the exception is caught), or no result is
\* in it.
Parsed(o, stream, document) ==
  IF /\ o.kind \in WithResult
     /\ ~Throws(stream)
     /\ OutputLoop(stream.writes) = Whole(stream.writes)
  THEN document ELSE None

\* getOrderBook needs no token, keeps nothing and survives every reply.
GetOrderBook(at, next) ==
  /\ step = at
  /\ \E o \in Outcomes, stream \in Streams, document \in Documents :
       LET parsed == IF o.ok THEN Parsed(o, stream, document) ELSE None
       IN  /\ orderBookData' = IF parsed = None THEN None
                               ELSE rapidjsonToNlohmannJson[parsed]
           /\ replied' = IF /\ o.ok /\ o.kind \in WithResult
                            /\ stream.ret = "Z_STREAM_END"
                         THEN document ELSE None
           /\ Answer(IF parsed # None THEN "true" ELSE "false")
  /\ Continue(next)
  /\ UNCHANGED <<poolVars, created, live, lost, orderId>>

Cancel(at, next) ==
  /\ step = at
  /\ \E o \in Outcomes : CancelOrder(orderId, o)
  /\ Continue(next) /\ UNCHANGED <<bookVars, orderId>>

\* The token may have expired before any of the three private calls.
TokenLost ==
  /\ step \in {"market", "limit", "modify", "cancel"}
  /\ TokenThrows /\ UNCHANGED benchVars

Report ==
  /\ step = "report"
  /\ said' = TRUE /\ step' = "exit"
  /\ UNCHANGED <<vars, bookVars, orderId, results>>

\* mutant: the market order is cancelled before the limit order is placed
CancelMarketOrder ==
  \/ GetToken \/ TokenLost \/ Report
  \/ Place("market", "cancel") \/ Cancel("cancel", "limit")
  \/ Place("limit", "modify")
  \/ Modify("modify", "book") \/ GetOrderBook("book", "report")
\* mutant: the limit order is not cancelled
NoCancellation ==
  \/ GetToken \/ TokenLost \/ Report
  \/ Place("market", "limit") \/ Place("limit", "modify")
  \/ Modify("modify", "book") \/ GetOrderBook("book", "report")
Sequence ==
  \/ GetToken \/ TokenLost \/ Report
  \/ Place("market", "limit") \/ Place("limit", "modify")
  \/ Modify("modify", "book") \/ GetOrderBook("book", "cancel")
  \/ Cancel("cancel", "report")

NextB == ~aborted /\ Sequence

SpecB == InitB /\ [][NextB]_allVars

-----------------------------------------------------------------------------
\* 1 if the i-th operation succeeded.
Success(i) == IF results[i] = "true" THEN 1 ELSE 0

\* In this order of operations no object is ever constructed outside the
\* pool: nothing is placed or modified after the cancellation has put the
\* address of a map node into the pool.
AllocatesOnlyBlocks == constructed \subseteq BlockSet

\* However the operations fail, as long as no order is lost track of: the order
\* that main cancels is the last one that was placed, the market order if the
\* limit order was refused; whatever else was placed is left in the map and at
\* the exchange, as is this one if the cancellation fails.
CancelsLastPlaced ==
  step = "exit" /\ said /\ lost = {} =>
    /\ created = Success(1) + Success(2) /\ orderId = created
    /\ live = (1 .. created) \ (IF Last(results) = "true" THEN {orderId} ELSE {})
    /\ Tracked = live

\* What getOrderBook returns is the document of a good reply, however many
\* buffers inflate fills for it, and {} for every other reply.
BookIsReply ==
  orderBookData = IF replied = None THEN None ELSE Meaning[replied]
=============================================================================
