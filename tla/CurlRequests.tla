----------------------------- MODULE CurlRequests -----------------------------
(***************************************************************************)
(* CurlConnectionManager's pool of handles and performCurlRequest          *)
(* (order_management.cpp:25-56), run by several threads at once, against a *)
(* network and an exchange that may lose or refuse a request, execute it   *)
(* late, lose or break off its reply, or answer with an error.             *)
(*                                                                         *)
(* A member of Requests is one call of performCurlRequest: its thread, its *)
(* header list and its response string.                                    *)
(***************************************************************************)
EXTENDS HttpReply, FiniteSets

CONSTANTS
  Requests,     \* the calls of performCurlRequest
  PoolHandles,  \* the handles curl_easy_init can create, in this order
  MaxRetries,   \* maxRetries (3 in the code)
  NoHandle,     \* getCurlHandle returned nullptr, or not called yet
  Nobody        \* an option of a handle that was never set

ASSUME CurlAssumption ==
  /\ PoolHandles \in Seq(Range(PoolHandles))
  /\ \A i, j \in DOMAIN PoolHandles :
       PoolHandles[i] = PoolHandles[j] => i = j
  /\ NoHandle \notin Range(PoolHandles)
  /\ Nobody \notin Requests
  /\ MaxRetries \in Nat \ {0}

VARIABLES
  curlPool,     \* the handles initializePool created
  freeHandles,  \* vector used as a stack, under poolMutex
  writeTo,      \* per handle: whose response CURLOPT_WRITEDATA points to
  headersOf,    \* per handle: whose list CURLOPT_HTTPHEADER points to
  pc,           \* where each request is in performCurlRequest
  handle,       \* its local variable curl
  retries,      \* its local variable retries
  response,     \* its response string
  result,       \* what it returned: "none" yet, "true" or "false"
  attempts      \* history: every attempt, "sent" or, at the exchange, "executed"

poolVars == <<curlPool, freeHandles>>
optionVars == <<writeTo, headersOf>>
vars == <<poolVars, optionVars, pc, handle, retries, response, result,
          attempts>>

Handles == Range(PoolHandles)
Locations == {"get", "setopt", "perform", "await", "free", "release", "done"}

\* curl_easy_init may fail, then the pool has fewer handles.
Init ==
  /\ \E n \in 0 .. Len(PoolHandles) : curlPool = SubSeq(PoolHandles, 1, n)
  /\ freeHandles = curlPool
  /\ writeTo = [h \in Handles |-> Nobody]
  /\ headersOf = [h \in Handles |-> Nobody]
  /\ pc = [r \in Requests |-> "get"]
  /\ handle = [r \in Requests |-> NoHandle]
  /\ retries = [r \in Requests |-> 0]
  /\ response = [r \in Requests |-> <<>>]
  /\ result = [r \in Requests |-> "none"]
  /\ attempts = [r \in Requests |-> <<>>]

Goto(r, l) == pc' = [pc EXCEPT ![r] = l]

-----------------------------------------------------------------------------
(* CurlConnectionManager::getCurlHandle and releaseCurlHandle.             *)

PopTwo(q) == SubSeq(q, 1, Len(q) - 2)  \* mutant: pop_back() twice
PopBack(q) == SubSeq(q, 1, Len(q) - 1)

GetCurlHandle(r) ==
  /\ pc[r] = "get" /\ freeHandles # <<>>
  /\ handle' = [handle EXCEPT ![r] = freeHandles[Len(freeHandles)]]
  /\ freeHandles' = PopBack(freeHandles)
  /\ Goto(r, "setopt")
  /\ UNCHANGED <<curlPool, optionVars, retries, response, result, attempts>>

\* if (!curl) return false;
WaitForHandle(r) ==  \* mutant: getCurlHandle waits for a release
  pc[r] = "get" /\ freeHandles = <<>> /\ UNCHANGED vars
Refuse(r) ==
  /\ pc[r] = "get" /\ freeHandles = <<>>
  /\ result' = [result EXCEPT ![r] = "false"]
  /\ Goto(r, "done")
  /\ UNCHANGED <<poolVars, optionVars, handle, retries, response, attempts>>

-----------------------------------------------------------------------------
(* performCurlRequest.                                                     *)

\* The handle keeps the options of the request that used it before.
KeepOptions(h, r) == UNCHANGED optionVars  \* mutant: set once per handle
SetOptions(h, r) ==
  /\ writeTo' = [writeTo EXCEPT ![h] = r]
  /\ headersOf' = [headersOf EXCEPT ![h] = r]

Prepare(r) ==
  /\ pc[r] = "setopt"
  /\ SetOptions(handle[r], r)
  /\ Goto(r, "perform")
  /\ UNCHANGED <<poolVars, handle, retries, response, result, attempts>>

\* curl_easy_perform starts: the request goes out.
Send(r) ==
  /\ pc[r] = "perform"
  /\ attempts' = [attempts EXCEPT ![r] = Append(@, "sent")]
  /\ Goto(r, "await")
  /\ UNCHANGED <<poolVars, optionVars, handle, retries, response, result>>

LastExecuted(r) ==
  attempts[r] # <<>> /\ attempts[r][Len(attempts[r])] = "executed"

\* A body that reports a result comes from the exchange that has executed the
\* attempt.  An error may come whatever becomes of the attempt: the exchange
\* refuses it, or a gateway answers in its place.
Reported(r, pieces) == Last(pieces) = "result" => LastExecuted(r)

\* WriteCallback appends to whatever string the handle's option points to.
Receive(r, pieces) ==
  LET to == writeTo[handle[r]]
  IN  response' = [response EXCEPT ![to] = @ \o pieces]

\* CURLE_OK, with any HTTP status: "true" says that there was an answer.
Succeed(r) ==
  /\ pc[r] = "await"
  /\ \E reply \in Replies : Reported(r, reply) /\ Receive(r, reply)
  /\ result' = [result EXCEPT ![r] = "true"]
  /\ Goto(r, "free")
  /\ UNCHANGED <<poolVars, optionVars, handle, retries, attempts>>

\* retries++; while (retries < maxRetries).
RetryOnceMore(n) == n <= MaxRetries  \* mutant: off by one
RetryAgain(n) == n < MaxRetries

\* The time limit, or an error of the connection, ends the attempt.
Fail(r) ==
  /\ pc[r] = "await"
  /\ \E remnant \in Remnants : Receive(r, remnant)
  /\ retries' = [retries EXCEPT ![r] = @ + 1]
  /\ IF RetryAgain(retries[r] + 1)
     THEN Goto(r, "perform") /\ UNCHANGED result
     ELSE Goto(r, "free") /\ result' = [result EXCEPT ![r] = "false"]
  /\ UNCHANGED <<poolVars, optionVars, handle, attempts>>

\* curl_slist_free_all(headers); the handle still points to the list.
FreeHeaders(r) ==
  /\ pc[r] = "free"
  /\ Goto(r, "release")
  /\ UNCHANGED <<poolVars, optionVars, handle, retries, response, result,
                 attempts>>

ForgetHandle(r) ==  \* mutant: the handle of a failed request leaks
  freeHandles' = IF result[r] = "true" THEN Append(freeHandles, handle[r])
                                       ELSE freeHandles
PushBack(r) == freeHandles' = Append(freeHandles, handle[r])

ReleaseCurlHandle(r) ==
  /\ pc[r] = "release"
  /\ PushBack(r)
  /\ handle' = [handle EXCEPT ![r] = NoHandle]
  /\ Goto(r, "done")
  /\ UNCHANGED <<curlPool, optionVars, retries, response, result, attempts>>

-----------------------------------------------------------------------------
(* Network and exchange: an attempt may be executed at any time after it   *)
(* was sent, even when curl has given it up and the call has returned, or  *)
(* never, when it is lost or refused.                                      *)

Execute(r) ==
  /\ \E k \in DOMAIN attempts[r] :
       /\ attempts[r][k] = "sent"
       /\ attempts' = [attempts EXCEPT ![r][k] = "executed"]
  /\ UNCHANGED <<poolVars, optionVars, pc, handle, retries, response, result>>

-----------------------------------------------------------------------------
Perform(r) ==
  \/ GetCurlHandle(r) \/ Refuse(r) \/ Prepare(r) \/ Send(r) \/ Succeed(r)
  \/ Fail(r) \/ FreeHeaders(r) \/ ReleaseCurlHandle(r)

Next == \E r \in Requests : Perform(r) \/ Execute(r)

Spec == Init /\ [][Next]_vars

-----------------------------------------------------------------------------
Held == {handle[r] : r \in Requests} \ {NoHandle}
Performing(r) == pc[r] \in {"perform", "await"}

\* A handle is in freeHandles once or belongs to one request: none leaks on
\* any path of performCurlRequest, none is given to two requests.
HandlesConserved ==
  /\ Range(freeHandles) \cup Held = Range(curlPool)
  /\ Range(freeHandles) \cap Held = {}
  /\ \A i, j \in DOMAIN freeHandles : freeHandles[i] = freeHandles[j] => i = j
  /\ \A q, r \in Requests :
       handle[q] = handle[r] /\ handle[q] # NoHandle => q = r

\* A handle in use points to the response and the header list of the request
\* that uses it, never to those a former user left in it, which may not exist
\* any more.
OwnOptions ==
  \A r \in Requests :
    Performing(r) => writeTo[handle[r]] = r /\ headersOf[handle[r]] = r

\* What the result tells the caller about the exchange.  "true": there was an
\* answer, behind whatever the failed attempts left, and if it reports a result
\* the last attempt was executed; an error says nothing.  "false": no handle and
\* nothing sent, or maxRetries attempts of which any number may have been
\* executed, or still may be.
ResultExplained ==
  \A r \in Requests :
    /\ result[r] = "true" =>
         /\ response[r] \in SuccessBuffers(MaxRetries - 1)
         /\ Reported(r, response[r])
    /\ result[r] = "false" => Len(attempts[r]) \in {0, MaxRetries}
=============================================================================
