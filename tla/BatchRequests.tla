----------------------------- MODULE BatchRequests -----------------------------
(***************************************************************************)
(* The two batch operations of OrderAPI (order_management.cpp:58-120); the *)
(* urls are the Requests of CurlRequests.                                  *)
(*                                                                         *)
(* performBatchAsyncCurlRequest: a thread per url calls performCurlRequest *)
(* and appends its response to a vector that all of them share without a   *)
(* lock; the caller waits for all.  Two push_backs of different threads    *)
(* race, in the sense of C++, even when one is over before the other       *)
(* begins; the outcome is undefined in effect when they overlap, and the   *)
(* behaviour ends there (raced).                                           *)
(*                                                                         *)
(* batchNetworkRequests: one thread, a handle of its own per url, which    *)
(* writes to the url's place in the vector.                                *)
(***************************************************************************)
EXTENDS CurlRequests

VARIABLES
  operation,      \* which of the two is called: "async" or "multi"
  transfer,       \* multi, per url: none, running, or over
  thread,         \* per url: calling, pushing, or finished
  responses,      \* the vector: whose response is where
  allSuccessful,  \* what the call returned; "none" before
  raced           \* history: two threads were in push_back at once

asyncVars == <<thread, responses, raced>>
batchVars == <<operation, transfer, asyncVars, allSuccessful>>
allVars == <<vars, batchVars>>

InitBatch ==
  /\ Init
  /\ operation \in {"async", "multi"}
  /\ transfer = [r \in Requests |-> "none"]
  /\ thread = [r \in Requests |-> "calling"]
  /\ responses = <<>>
  /\ allSuccessful = "none"
  /\ raced = FALSE

-----------------------------------------------------------------------------
(* performBatchAsyncCurlRequest.                                           *)

InPushBack(r) == thread[r] = "pushing"

BeginPushBack(r) ==
  /\ thread[r] = "calling" /\ pc[r] = "done"
  /\ thread' = [thread EXCEPT ![r] = "pushing"]
  /\ raced' = (raced \/ \E q \in Requests : InPushBack(q))
  /\ UNCHANGED <<vars, operation, transfer, responses, allSuccessful>>

OnSuccess(r) ==  \* mutant: a failed request stores no response
  IF result[r] = "true" THEN Append(responses, r) ELSE responses
Stored(r) == Append(responses, r)

EndPushBack(r) ==
  /\ InPushBack(r)
  /\ responses' = Stored(r)
  /\ thread' = [thread EXCEPT ![r] = "finished"]
  /\ UNCHANGED <<vars, operation, transfer, allSuccessful, raced>>

AllOf == \A r \in Requests : result[r] = "true"

SomeFinished == \E r \in Requests : thread[r] = "finished"  \* mutant
AllFinished == \A r \in Requests : thread[r] = "finished"

Return ==
  /\ allSuccessful = "none" /\ AllFinished
  /\ allSuccessful' = IF AllOf THEN "true" ELSE "false"
  /\ UNCHANGED <<vars, operation, transfer, asyncVars>>

AsyncStep ==
  \/ Return
  \/ \E r \in Requests : BeginPushBack(r) \/ EndPushBack(r)

-----------------------------------------------------------------------------
(* batchNetworkRequests.                                                   *)

multiVars == <<poolVars, optionVars, pc, handle, retries, result, operation,
               asyncVars>>

\* curl_easy_init may fail for some; curl_multi_perform sends the others.
Start(running) ==
  /\ \A r \in Requests : transfer[r] = "none"
  /\ transfer' = [r \in Requests |-> IF r \in running THEN "running"
                                                      ELSE "over"]
  /\ attempts' = [r \in Requests |-> IF r \in running THEN <<"sent">> ELSE <<>>]
  /\ UNCHANGED <<multiVars, response, allSuccessful>>

\* Well or not: nobody looks at the result of a transfer.
Transfer(r) ==
  /\ transfer[r] = "running"
  /\ \/ \E reply \in Replies :
          /\ Reported(r, reply)
          /\ response' = [response EXCEPT ![r] = @ \o reply]
     \/ \E remnant \in Remnants :
          response' = [response EXCEPT ![r] = @ \o remnant]
  /\ transfer' = [transfer EXCEPT ![r] = "over"]
  /\ UNCHANGED <<multiVars, attempts, allSuccessful>>

\* The loop ends with the last transfer, or by an error of curl_multi_perform;
\* removing the handles ends what still runs.
ReturnTrue ==
  /\ allSuccessful = "none" /\ \A r \in Requests : transfer[r] # "none"
  /\ allSuccessful' = "true"
  /\ transfer' = [r \in Requests |-> "over"]
  /\ UNCHANGED <<multiVars, attempts, response>>

MultiStep ==
  \/ \E running \in SUBSET Requests : Start(running)
  \/ \E r \in Requests : Transfer(r)
  \/ ReturnTrue

-----------------------------------------------------------------------------
Caller ==
  /\ ~raced
  /\ \/ operation = "async" /\ AsyncStep
     \/ operation = "multi" /\ MultiStep

Request(r) ==
  ~raced /\ operation = "async" /\ Perform(r) /\ UNCHANGED batchVars

NextBatch ==
  \/ Caller
  \/ \E r \in Requests :
       Request(r) \/ (~raced /\ Execute(r) /\ UNCHANGED batchVars)

SpecBatch == InitBatch /\ [][NextBatch]_allVars

\* The caller and every thread go on; an attempt of performCurlRequest ends by
\* itself after two seconds (CURLOPT_TIMEOUT, CurlConnectionManager.cpp:46), a
\* transfer of batchNetworkRequests, which sets no limit, need not end.  The
\* exchange owes nothing.
FairBatch ==
  /\ SpecBatch
  /\ \A r \in Requests : WF_allVars(Request(r))
  /\ WF_allVars(~raced /\ operation = "async" /\ AsyncStep)

-----------------------------------------------------------------------------
\* When performBatchAsyncCurlRequest returns, the vector has every response
\* once, those of failed requests included, but in any order: the caller cannot
\* tell whose is whose.  It returns true only when every request was answered,
\* and then a response that ends with a result belongs to a request that was
\* executed, however many attempts were given up before; of one that ends with
\* an error nothing is known.
BatchOutcome ==
  operation = "async" /\ allSuccessful # "none" =>
    /\ Len(responses) = Cardinality(Requests) /\ Range(responses) = Requests
    /\ allSuccessful = "true" =>
         \A r \in Requests :
           /\ response[r] \in SuccessBuffers(MaxRetries - 1)
           /\ Reported(r, response[r])

\* A batch that is no larger than the pool is served in full: nothing is
\* refused, whatever other requests of it fail or retry.
NoRefusalWithinPool ==
  Len(curlPool) >= Cardinality(Requests) =>
    \A r \in Requests : pc[r] = "done" => attempts[r] # <<>>

\* Once a batch has returned, nothing writes to the strings it has handed out.
NoWriteAfterReturn ==
  [][allSuccessful # "none" => UNCHANGED <<response, responses>>]_allVars

\* performBatchAsyncCurlRequest returns, whatever the network does: no request
\* waits for ever, for a handle or for a reply.
BatchReturns ==
  operation = "async" => <>(allSuccessful # "none" \/ raced)
=============================================================================
