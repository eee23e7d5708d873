-------------------------- MODULE CurlRequestsProofs --------------------------
(***************************************************************************)
(* CurlRequests and BatchRequests, for any number of concurrent requests,  *)
(* any pool and any number of retries: no handle is lost or shared, a      *)
(* handle in use carries the options of its user, and what a batch returns *)
(* is complete, right and final.                                           *)
(***************************************************************************)
EXTENDS BatchRequests, SequenceTheorems, FiniteSetTheorems,
        InductionTheorems

\* What the handles need of TypeOK.
HandleTypeOK ==
  /\ curlPool \in Seq(Handles)
  /\ freeHandles \in Seq(Handles)
  /\ writeTo \in [Handles -> Requests \cup {Nobody}]
  /\ headersOf \in [Handles -> Requests \cup {Nobody}]
  /\ pc \in [Requests -> Locations]
  /\ handle \in [Requests -> Handles \cup {NoHandle}]
  /\ \A r \in Requests : handle[r] # NoHandle <=> pc[r] \notin {"get", "done"}

IInv == HandleTypeOK /\ HandlesConserved /\ OwnOptions

-----------------------------------------------------------------------------
(* freeHandles as a stack.                                                 *)

\* back() and pop_back() split a vector into its last element and the rest.
LEMMA PopBackFacts ==
  ASSUME NEW S, NEW q \in Seq(S), q # <<>>
  PROVE  /\ q[Len(q)] \in S
         /\ PopBack(q) \in Seq(S)
         /\ Range(q) = Range(PopBack(q)) \cup {q[Len(q)]}
         /\ DOMAIN PopBack(q) = 1 .. Len(q) - 1
         /\ \A i \in DOMAIN PopBack(q) : PopBack(q)[i] = q[i]
<1>1. Len(q) \in Nat /\ Len(q) > 0 /\ DOMAIN q = 1 .. Len(q)
  OBVIOUS
<1>2. /\ PopBack(q) \in Seq(S)
      /\ DOMAIN PopBack(q) = 1 .. Len(q) - 1
      /\ \A i \in DOMAIN PopBack(q) : PopBack(q)[i] = q[i]
  BY <1>1 DEF PopBack
<1>3. \A i \in DOMAIN q : i \in DOMAIN PopBack(q) \/ i = Len(q)
  BY <1>1, <1>2
<1>4. \A i \in DOMAIN PopBack(q) : i \in DOMAIN q
  BY <1>1, <1>2
<1>5. Range(q) = Range(PopBack(q)) \cup {q[Len(q)]}
  BY <1>1, <1>2, <1>3, <1>4 DEF Range
<1> QED  BY <1>1, <1>2, <1>5

\* push_back adds its argument at the end.
LEMMA PushBackFacts ==
  ASSUME NEW S, NEW q \in Seq(S), NEW e \in S
  PROVE  /\ Append(q, e) \in Seq(S)
         /\ Range(Append(q, e)) = Range(q) \cup {e}
         /\ DOMAIN q = 1 .. Len(q) /\ Len(q) \in Nat
         /\ DOMAIN Append(q, e) = 1 .. Len(q) + 1
         /\ \A i \in DOMAIN q : Append(q, e)[i] = q[i]
         /\ Append(q, e)[Len(q) + 1] = e
<1>1. /\ Append(q, e) \in Seq(S)
      /\ DOMAIN q = 1 .. Len(q) /\ Len(q) \in Nat
      /\ DOMAIN Append(q, e) = 1 .. Len(q) + 1
      /\ \A i \in DOMAIN q : Append(q, e)[i] = q[i]
      /\ Append(q, e)[Len(q) + 1] = e
  OBVIOUS
<1>2. \A i \in DOMAIN Append(q, e) : i \in DOMAIN q \/ i = Len(q) + 1
  BY <1>1
<1>3. /\ \A i \in DOMAIN q : i \in DOMAIN Append(q, e)
      /\ Len(q) + 1 \in DOMAIN Append(q, e)
  BY <1>1
<1> QED  BY <1>1, <1>2, <1>3 DEF Range

-----------------------------------------------------------------------------
LEMMA InitIInv == Init => IInv
<1> SUFFICES ASSUME Init PROVE IInv
  OBVIOUS
<1>1. PICK n \in 0 .. Len(PoolHandles) : curlPool = SubSeq(PoolHandles, 1, n)
  BY DEF Init
<1>2. PoolHandles \in Seq(Handles)
  BY CurlAssumption DEF Handles, Range
<1>3. /\ curlPool \in Seq(Handles)
      /\ DOMAIN curlPool = 1 .. n
      /\ \A i \in 1 .. n : curlPool[i] = PoolHandles[i]
      /\ \A i \in 1 .. n : i \in DOMAIN PoolHandles
  BY <1>1, <1>2
<1>4. \A i, j \in DOMAIN curlPool : curlPool[i] = curlPool[j] => i = j
  BY <1>3, CurlAssumption
<1>5. Held = {}
  BY DEF Init, Held
<1>6. HandlesConserved
  BY <1>4, <1>5 DEF Init, HandlesConserved
<1>7. HandleTypeOK
  BY <1>3 DEF Init, HandleTypeOK, Locations
<1> QED  BY <1>6, <1>7 DEF Init, IInv, OwnOptions, Performing

-----------------------------------------------------------------------------
(* One lemma per step that touches handles or their options.               *)

LEMMA GetPreserves ==
  ASSUME IInv, NEW r \in Requests, GetCurlHandle(r)
  PROVE  IInv'
<1> DEFINE h == freeHandles[Len(freeHandles)]
<1> USE CurlAssumption
<1>1. freeHandles \in Seq(Handles) /\ freeHandles # <<>>
  BY DEF IInv, HandleTypeOK, GetCurlHandle
<1>2. /\ h \in Handles /\ h # NoHandle
      /\ PopBack(freeHandles) \in Seq(Handles)
      /\ Range(freeHandles) = Range(PopBack(freeHandles)) \cup {h}
      /\ Len(freeHandles) \in Nat /\ Len(freeHandles) > 0
      /\ DOMAIN freeHandles = 1 .. Len(freeHandles)
      /\ DOMAIN PopBack(freeHandles) = 1 .. Len(freeHandles) - 1
      /\ \A i \in DOMAIN PopBack(freeHandles) :
           PopBack(freeHandles)[i] = freeHandles[i]
  BY <1>1, PopBackFacts DEF Handles
<1>3. \A i, j \in DOMAIN freeHandles : freeHandles[i] = freeHandles[j] => i = j
  BY DEF IInv, HandlesConserved
<1>4. h \notin Range(PopBack(freeHandles))
  BY <1>2, <1>3 DEF Range
<1>5. /\ handle \in [Requests -> Handles \cup {NoHandle}]
      /\ handle' = [handle EXCEPT ![r] = h] /\ handle[r] = NoHandle
      /\ pc \in [Requests -> Locations]
      /\ pc' = [pc EXCEPT ![r] = "setopt"] /\ pc[r] = "get"
      /\ freeHandles' = PopBack(freeHandles)
      /\ UNCHANGED <<curlPool, writeTo, headersOf>>
  BY DEF IInv, HandleTypeOK, GetCurlHandle, Goto, optionVars
<1>6. \A q \in Requests : handle'[q] = IF q = r THEN h ELSE handle[q]
  BY <1>5
<1>7. Held' = Held \cup {h}
  BY <1>2, <1>5, <1>6 DEF Held
<1>8. h \notin Held
  BY <1>2 DEF IInv, HandlesConserved
<1>9. \A q \in Requests : handle[q] # h
  BY <1>8, <1>2 DEF Held
<1>10. HandlesConserved'
  <2>1. Range(freeHandles)' \cup Held' = Range(curlPool)'
    BY <1>2, <1>5, <1>7 DEF IInv, HandlesConserved
  <2>2. Range(freeHandles)' \cap Held' = {}
    BY <1>2, <1>4, <1>5, <1>7 DEF IInv, HandlesConserved
  <2>3. (\A i, j \in DOMAIN freeHandles :
           freeHandles[i] = freeHandles[j] => i = j)'
    BY <1>2, <1>3, <1>5
  <2>4. (\A p, q \in Requests :
           handle[p] = handle[q] /\ handle[p] # NoHandle => p = q)'
    BY <1>6, <1>9 DEF IInv, HandlesConserved
  <2> QED  BY <2>1, <2>2, <2>3, <2>4 DEF HandlesConserved
<1>11. HandleTypeOK'
  BY <1>2, <1>5 DEF IInv, HandleTypeOK, Locations
<1>12. OwnOptions'
  BY <1>5, <1>6 DEF IInv, OwnOptions, Performing
<1> QED  BY <1>10, <1>11, <1>12 DEF IInv

LEMMA PreparePreserves ==
  ASSUME IInv, NEW r \in Requests, Prepare(r)
  PROVE  IInv'
<1> DEFINE h == handle[r]
<1>1. /\ handle \in [Requests -> Handles \cup {NoHandle}]
      /\ pc \in [Requests -> Locations] /\ pc[r] = "setopt"
      /\ pc' = [pc EXCEPT ![r] = "perform"]
      /\ writeTo' = [writeTo EXCEPT ![h] = r]
      /\ headersOf' = [headersOf EXCEPT ![h] = r]
      /\ UNCHANGED <<curlPool, freeHandles, handle>>
  BY DEF IInv, HandleTypeOK, Prepare, SetOptions, Goto, poolVars
<1>2. h # NoHandle /\ h \in Handles
  BY <1>1 DEF IInv, HandleTypeOK
<1>3. HandlesConserved'
  BY <1>1 DEF IInv, HandlesConserved, Held
<1>4. HandleTypeOK'
  BY <1>1 DEF IInv, HandleTypeOK, Locations
<1>5. ASSUME NEW q \in Requests, Performing(q)'
      PROVE  writeTo'[handle'[q]] = q /\ headersOf'[handle'[q]] = q
  <2>1. CASE q = r
    BY <2>1, <1>1, <1>2 DEF IInv, HandleTypeOK
  <2>2. CASE q # r
    <3>1. Performing(q)
      BY <2>2, <1>1, <1>5 DEF Performing
    <3>2. handle[q] # h
      BY <2>2, <1>2 DEF IInv, HandlesConserved
    <3>3. handle[q] \in Handles
      BY <3>1, <1>1 DEF IInv, HandleTypeOK, Performing
    <3> QED
      BY <3>1, <3>2, <3>3, <1>1 DEF IInv, HandleTypeOK, OwnOptions
  <2> QED  BY <2>1, <2>2
<1> QED  BY <1>3, <1>4, <1>5 DEF IInv, OwnOptions

LEMMA ReleasePreserves ==
  ASSUME IInv, NEW r \in Requests, ReleaseCurlHandle(r)
  PROVE  IInv'
<1> DEFINE h == handle[r]
<1> USE CurlAssumption
<1>1. /\ handle \in [Requests -> Handles \cup {NoHandle}]
      /\ handle' = [handle EXCEPT ![r] = NoHandle]
      /\ pc \in [Requests -> Locations] /\ pc[r] = "release"
      /\ pc' = [pc EXCEPT ![r] = "done"]
      /\ freeHandles' = Append(freeHandles, h)
      /\ freeHandles \in Seq(Handles)
      /\ UNCHANGED <<curlPool, writeTo, headersOf>>
  BY DEF IInv, HandleTypeOK, ReleaseCurlHandle, PushBack, Goto, optionVars
<1>2. h # NoHandle /\ h \in Handles
  BY <1>1 DEF IInv, HandleTypeOK
<1>3. h \in Held /\ h \notin Range(freeHandles)
  BY <1>2 DEF IInv, HandlesConserved, Held
<1>4. \A q \in Requests : handle'[q] = IF q = r THEN NoHandle ELSE handle[q]
  BY <1>1
<1>5. \A q \in Requests : q # r => handle[q] # h
  BY <1>2 DEF IInv, HandlesConserved
<1>6. Held' = Held \ {h}
  BY <1>4, <1>5, <1>2 DEF Held
<1>7. /\ Append(freeHandles, h) \in Seq(Handles)
      /\ Range(Append(freeHandles, h)) = Range(freeHandles) \cup {h}
      /\ DOMAIN freeHandles = 1 .. Len(freeHandles) /\ Len(freeHandles) \in Nat
      /\ DOMAIN Append(freeHandles, h) = 1 .. Len(freeHandles) + 1
      /\ \A i \in DOMAIN freeHandles :
           Append(freeHandles, h)[i] = freeHandles[i]
      /\ Append(freeHandles, h)[Len(freeHandles) + 1] = h
  BY <1>1, <1>2, PushBackFacts
<1>8. HandlesConserved'
  <2>1. Range(freeHandles)' \cup Held' = Range(curlPool)'
    BY <1>1, <1>3, <1>6, <1>7 DEF IInv, HandlesConserved
  <2>2. Range(freeHandles)' \cap Held' = {}
    BY <1>1, <1>6, <1>7 DEF IInv, HandlesConserved
  <2>3. ASSUME NEW i \in DOMAIN freeHandles', NEW j \in DOMAIN freeHandles',
               freeHandles'[i] = freeHandles'[j]
        PROVE  i = j
    <3>1. /\ i \in DOMAIN freeHandles \/ i = Len(freeHandles) + 1
          /\ j \in DOMAIN freeHandles \/ j = Len(freeHandles) + 1
      BY <1>1, <1>7
    <3>2. \A k \in DOMAIN freeHandles : freeHandles[k] # h
      BY <1>3 DEF Range
    <3>3. \A k, l \in DOMAIN freeHandles :
            freeHandles[k] = freeHandles[l] => k = l
      BY DEF IInv, HandlesConserved
    <3> QED  BY <2>3, <3>1, <3>2, <3>3, <1>1, <1>7
  <2>4. (\A p, q \in Requests :
           handle[p] = handle[q] /\ handle[p] # NoHandle => p = q)'
    BY <1>4 DEF IInv, HandlesConserved
  <2> QED  BY <2>1, <2>2, <2>3, <2>4 DEF HandlesConserved
<1>9. HandleTypeOK'
  BY <1>1, <1>7 DEF IInv, HandleTypeOK, Locations
<1>10. OwnOptions'
  BY <1>1, <1>4 DEF IInv, OwnOptions, Performing
<1> QED  BY <1>8, <1>9, <1>10 DEF IInv

\* Every other step keeps handles and options; it may only move a request
\* among the places where it has a handle and performs with it, or away from
\* them.
LEMMA OtherStepsPreserve ==
  ASSUME IInv, [Next]_vars,
         \A r \in Requests :
           ~GetCurlHandle(r) /\ ~Prepare(r) /\ ~ReleaseCurlHandle(r)
  PROVE  IInv'
<1>1. ASSUME UNCHANGED <<poolVars, optionVars, handle>>,
             pc' \in [Requests -> Locations],
             \A r \in Requests :
               /\ pc'[r] \in {"get", "done"} <=> pc[r] \in {"get", "done"}
               /\ Performing(r)' => Performing(r)
      PROVE  IInv'
  BY <1>1 DEF IInv, HandleTypeOK, HandlesConserved, Held, OwnOptions,
              poolVars, optionVars
<1>2. pc \in [Requests -> Locations]
  BY DEF IInv, HandleTypeOK
<1>3. ASSUME NEW r \in Requests,
             \/ Refuse(r) \/ Send(r) \/ Succeed(r) \/ Fail(r) \/ FreeHeaders(r)
      PROVE  IInv'
  BY <1>1, <1>2, <1>3
     DEF Refuse, Send, Succeed, Fail, FreeHeaders, Goto, Performing, Locations
<1>4. ASSUME NEW r \in Requests, Execute(r) PROVE IInv'
  BY <1>1, <1>2, <1>4 DEF Execute, Performing
<1>5. CASE UNCHANGED vars
  BY <1>1, <1>2, <1>5 DEF vars, Performing
<1> QED  BY <1>3, <1>4, <1>5 DEF Next, Perform

LEMMA Invariance == Spec => []IInv
<1>1. IInv /\ [Next]_vars => IInv'
  BY GetPreserves, PreparePreserves, ReleasePreserves, OtherStepsPreserve
<1> QED  BY <1>1, InitIInv, PTL DEF Spec

\* Neither a failed request, nor a refused one, nor one whose reply never
\* came costs the pool a handle, and two requests never share one.
THEOREM HandlesAreConserved == Spec => []HandlesConserved
BY Invariance, PTL DEF IInv

\* While curl performs a request, WRITEDATA and HTTPHEADER of its handle are
\* this request's, however many requests used the handle before.
THEOREM OptionsAreOwn == Spec => []OwnOptions
BY Invariance, PTL DEF IInv

-----------------------------------------------------------------------------
(* Batches.                                                                *)

Pieces == {"head", "part", "result", "error"}

RequestTypeOK ==
  /\ response \in [Requests -> Seq(Pieces)]
  /\ result \in [Requests -> {"none", "true", "false"}]
  /\ attempts \in [Requests -> Seq({"sent", "executed"})]
  /\ operation \in {"async", "multi"}
  /\ transfer \in [Requests -> {"none", "running", "over"}]
  /\ thread \in [Requests -> {"calling", "pushing", "finished"}]
  /\ responses \in Seq(Requests)
  /\ allSuccessful \in {"none", "true", "false"}

\* What a request knows of its attempts.
RequestInv ==
  \A r \in Requests :
    /\ pc[r] \in {"await", "free", "release"} => attempts[r] # <<>>
    /\ pc[r] \in {"get", "setopt", "perform", "await"} => result[r] = "none"
    /\ result[r] = "true" => Reported(r, response[r])

Finished == {r \in Requests : thread[r] = "finished"}

\* What the call that returned has seen.
CallInv ==
  /\ operation = "multi" => \A r \in Requests : pc[r] = "get"
  /\ \A r \in Requests : thread[r] # "calling" => pc[r] = "done"
  /\ operation = "async" /\ allSuccessful # "none" => AllFinished
  /\ operation = "async" /\ allSuccessful = "true" => AllOf
  /\ operation = "multi" /\ allSuccessful # "none" =>
       \A r \in Requests : transfer[r] = "over"
  /\ Range(responses) = Finished
  /\ IsFiniteSet(Requests) => Len(responses) = Cardinality(Finished)

BatchInv == IInv /\ RequestTypeOK /\ RequestInv /\ CallInv

LEMMA ReplyFacts ==
  /\ Replies \subseteq Seq(Pieces) /\ Remnants \subseteq Seq(Pieces)
  /\ \A reply \in Replies, s \in Seq(Pieces) : Last(s \o reply) = Last(reply)
<1>1. ASSUME NEW least \in {0, 1}, NEW headers \in Headers(least)
      PROVE  headers \in Seq(Pieces)
  <2>1. PICK n \in least .. MaxRedirects + 1 : headers \in [1 .. n -> {"head"}]
    BY DEF Headers
  <2>2. headers \in [1 .. n -> Pieces] /\ n \in Nat
    BY <2>1, RedirectAssumption DEF Pieces
  <2> QED  BY <2>2
<1>2. /\ \A body \in Bodies : body \in Seq(Pieces) /\ Len(body) = 1
      /\ <<"part">> \in Seq(Pieces) /\ <<>> \in Seq(Pieces)
  BY DEF Bodies, Pieces
<1>3. ASSUME NEW reply \in Replies
      PROVE  /\ reply \in Seq(Pieces)
             /\ \A s \in Seq(Pieces) : Last(s \o reply) = Last(reply)
  <2>1. PICK headers \in Headers(1), body \in Bodies : reply = headers \o body
    BY DEF Replies
  <2>2. /\ headers \in Seq(Pieces) /\ body \in Seq(Pieces)
      /\ Len(body) = 1
    BY <1>1, <1>2
  <2>3. reply \in Seq(Pieces)  BY <2>1, <2>2
  <2>4. Len(reply) \in Nat /\ Len(reply) > 0
    <3>1. Len(headers \o body) = Len(headers) + Len(body) /\ Len(headers) \in Nat
      BY <2>2, ConcatProperties, LenProperties
    <3> QED  BY <2>1, <2>2, <3>1
  <2>5. ASSUME NEW s \in Seq(Pieces) PROVE Last(s \o reply) = Last(reply)
    BY <2>3, <2>4 DEF Last
  <2> QED  BY <2>3, <2>5
<1>4. ASSUME NEW remnant \in Remnants PROVE remnant \in Seq(Pieces)
  <2>1. PICK headers \in Headers(0), rest \in {<<>>, <<"part">>} :
          remnant = headers \o rest
    BY DEF Remnants
  <2>2. headers \in Seq(Pieces) /\ rest \in Seq(Pieces)
    BY <1>1, <1>2
  <2> QED  BY <2>1, <2>2
<1> QED  BY <1>3, <1>4

LEMMA InitBatchInv == InitBatch => BatchInv
<1> SUFFICES ASSUME InitBatch PROVE BatchInv
  OBVIOUS
<1>1. IInv  BY InitIInv DEF InitBatch
<1>2. RequestTypeOK  BY DEF InitBatch, Init, RequestTypeOK
<1>3. RequestInv  BY DEF InitBatch, Init, RequestInv
<1>4. CallInv
  <2>1. Finished = {}  BY DEF InitBatch, Finished
  <2>2. Range(responses) = {} /\ Len(responses) = 0
    BY DEF InitBatch, Range
  <2>3. Cardinality({}) = 0  BY FS_EmptySet
  <2> QED  BY <2>1, <2>2, <2>3 DEF InitBatch, Init, CallInv
<1> QED  BY <1>1, <1>2, <1>3, <1>4 DEF BatchInv

\* The threads of the batch and its caller.
LEMMA AsyncPreserves ==
  ASSUME BatchInv, operation = "async", AsyncStep
  PROVE  BatchInv'
<1> USE DEF BatchInv
<1>1. UNCHANGED <<vars, operation, transfer>>
  BY DEF AsyncStep, Return, BeginPushBack, EndPushBack, asyncVars
<1>2. IInv'
  BY <1>1 DEF IInv, HandleTypeOK, HandlesConserved, Held, OwnOptions, Performing,
              vars, poolVars, optionVars
<1>3. RequestInv'  BY <1>1 DEF RequestInv, Reported, LastExecuted, vars
<1>4. CASE Return
  <2>1. RequestTypeOK'
    BY <1>1, <1>4 DEF Return, RequestTypeOK, vars, asyncVars
  <2>2. CallInv'
    BY <1>1, <1>4 DEF Return, CallInv, AllFinished, AllOf, Finished, vars, asyncVars
  <2> QED  BY <1>2, <1>3, <2>1, <2>2
<1>5. ASSUME NEW r \in Requests, BeginPushBack(r) PROVE BatchInv'
  <2>1. thread' = [thread EXCEPT ![r] = "pushing"] /\ pc[r] = "done"
        /\ thread[r] = "calling" /\ UNCHANGED <<responses, allSuccessful>>
    BY <1>5 DEF BeginPushBack
  <2>2. RequestTypeOK'  BY <1>1, <2>1 DEF RequestTypeOK, vars
  <2>3. Finished' = Finished  BY <2>1 DEF Finished, RequestTypeOK
  <2>4. allSuccessful = "none"  BY <2>1 DEF CallInv, AllFinished
  <2>5. CallInv'
    BY <1>1, <2>1, <2>3, <2>4 DEF CallInv, RequestTypeOK, vars
  <2> QED  BY <1>2, <1>3, <2>2, <2>5
<1>6. ASSUME NEW r \in Requests, EndPushBack(r) PROVE BatchInv'
  <2>1. /\ thread' = [thread EXCEPT ![r] = "finished"] /\ thread[r] = "pushing"
        /\ responses' = Append(responses, r) /\ UNCHANGED allSuccessful
    BY <1>6 DEF EndPushBack, InPushBack, Stored
  <2>2. RequestTypeOK'  BY <1>1, <2>1 DEF RequestTypeOK, vars
  <2>3. Finished' = Finished \cup {r} /\ r \notin Finished
    BY <2>1 DEF Finished, RequestTypeOK
  <2>4. /\ Range(responses') = Range(responses) \cup {r}
        /\ Len(responses') = Len(responses) + 1
    BY <2>1, PushBackFacts DEF RequestTypeOK
  <2>5. IsFiniteSet(Requests) => Cardinality(Finished') = Cardinality(Finished) + 1
    BY <2>3, FS_Subset, FS_AddElement DEF Finished
  <2>6. allSuccessful = "none"  BY <2>1 DEF CallInv, AllFinished
  <2>7. pc[r] = "done"  BY <2>1 DEF CallInv
  <2>8. CallInv'
    BY <1>1, <2>1, <2>3, <2>4, <2>5, <2>6, <2>7 DEF CallInv, RequestTypeOK, vars
  <2> QED  BY <1>2, <1>3, <2>2, <2>8
<1> QED  BY <1>4, <1>5, <1>6 DEF AsyncStep

\* The one thread of batchNetworkRequests touches no handle of the pool.
LEMMA MultiPreserves ==
  ASSUME BatchInv, operation = "multi", MultiStep
  PROVE  BatchInv'
<1> USE DEF BatchInv
<1>1. UNCHANGED multiVars
  BY DEF MultiStep, Start, Transfer, ReturnTrue
<1>2. IInv'
  BY <1>1 DEF IInv, HandleTypeOK, HandlesConserved, Held, OwnOptions, Performing,
              multiVars, poolVars, optionVars
<1>3. RequestInv'
  BY <1>1 DEF RequestInv, CallInv, multiVars
<1>4. RequestTypeOK'
  <2>1. ASSUME NEW running \in SUBSET Requests, Start(running) PROVE RequestTypeOK'
    <3>1. attempts' \in [Requests -> Seq({"sent", "executed"})]
      <4>1. /\ <<"sent">> \in Seq({"sent", "executed"})
            /\ <<>> \in Seq({"sent", "executed"})
        OBVIOUS
      <4>2. attempts' = [q \in Requests |-> IF q \in running THEN <<"sent">> ELSE <<>>]
        BY <2>1 DEF Start
      <4> QED  BY <4>1, <4>2
    <3>2. transfer' \in [Requests -> {"none", "running", "over"}]
      BY <2>1 DEF Start
    <3> QED  BY <1>1, <2>1, <3>1, <3>2 DEF Start, RequestTypeOK, multiVars, asyncVars
  <2>2. ASSUME NEW r \in Requests, Transfer(r) PROVE RequestTypeOK'
    <3>1. PICK text \in Replies \cup Remnants : response' = [response EXCEPT ![r] = @ \o text]
      BY <2>2 DEF Transfer
    <3>2. text \in Seq(Pieces)  BY ReplyFacts
    <3>3. response' \in [Requests -> Seq(Pieces)]
      BY <3>1, <3>2 DEF RequestTypeOK
    <3> QED
      BY <1>1, <2>2, <3>3 DEF Transfer, RequestTypeOK, multiVars, asyncVars
  <2>3. CASE ReturnTrue
    BY <1>1, <2>3 DEF ReturnTrue, RequestTypeOK, multiVars, asyncVars
  <2> QED  BY <2>1, <2>2, <2>3 DEF MultiStep
<1>5. allSuccessful' # "none" => \A r \in Requests : transfer'[r] = "over"
  BY DEF MultiStep, Start, Transfer, ReturnTrue, CallInv, RequestTypeOK
<1>6. CallInv'
  BY <1>1, <1>5 DEF CallInv, Finished, multiVars, asyncVars
<1> QED  BY <1>2, <1>3, <1>4, <1>6

\* One request, of which the batch knows only whether it has returned.
LEMMA RequestPreserves ==
  ASSUME BatchInv, NEW r \in Requests, Request(r)
  PROVE  BatchInv'
<1> USE DEF BatchInv
<1>1. /\ operation = "async" /\ Perform(r)
      /\ UNCHANGED <<operation, transfer, thread, responses, allSuccessful>>
  BY DEF Request, batchVars, asyncVars
<1>2. IInv'
  BY <1>1, GetPreserves, PreparePreserves, ReleasePreserves, OtherStepsPreserve
     DEF Next
<1>3. /\ pc \in [Requests -> Locations]
      /\ response \in [Requests -> Seq(Pieces)]
      /\ result \in [Requests -> {"none", "true", "false"}]
      /\ attempts \in [Requests -> Seq({"sent", "executed"})]
  BY DEF IInv, HandleTypeOK, RequestTypeOK
<1>4. pc[r] = "await" => writeTo[handle[r]] = r
  BY DEF IInv, OwnOptions, Performing
<1>5. /\ pc[r] # "done"
      /\ \A q \in Requests \ {r} :
           /\ pc'[q] = pc[q] /\ result'[q] = result[q]
           /\ attempts'[q] = attempts[q] /\ response'[q] = response[q]
  BY <1>1, <1>3, <1>4
     DEF Perform, GetCurlHandle, Refuse, Prepare, Send, Succeed, Fail, FreeHeaders,
         ReleaseCurlHandle, Goto, Receive
<1>6. RequestTypeOK' /\ RequestInv'
  <2>1. CASE GetCurlHandle(r)
    BY <1>1, <1>3, <2>1 DEF GetCurlHandle, Goto, RequestTypeOK, RequestInv, Reported, LastExecuted
  <2>2. CASE Refuse(r)
    BY <1>1, <1>3, <2>2 DEF Refuse, Goto, RequestTypeOK, RequestInv, Reported, LastExecuted
  <2>3. CASE Prepare(r)
    BY <1>1, <1>3, <2>3 DEF Prepare, Goto, RequestTypeOK, RequestInv, Reported, LastExecuted
  <2>4. CASE Send(r)
    <3>1. /\ attempts' = [attempts EXCEPT ![r] = Append(@, "sent")]
          /\ pc' = [pc EXCEPT ![r] = "await"]
          /\ pc[r] = "perform" /\ UNCHANGED <<result, response>>
      BY <2>4 DEF Send, Goto
    <3>2. /\ attempts' \in [Requests -> Seq({"sent", "executed"})]
          /\ attempts'[r] # <<>>
      <4>1. /\ Append(attempts[r], "sent") \in Seq({"sent", "executed"})
            /\ Len(Append(attempts[r], "sent")) = Len(attempts[r]) + 1
            /\ Len(attempts[r]) \in Nat
        BY <1>3
      <4>2. Append(attempts[r], "sent") # <<>>  BY <4>1
      <4> QED  BY <1>3, <3>1, <4>1, <4>2
    <3>3. result[r] = "none"  BY <3>1 DEF RequestInv
    <3>4. RequestTypeOK'  BY <1>1, <3>1, <3>2 DEF RequestTypeOK
    <3>5. RequestInv'  BY <1>3, <1>5, <3>1, <3>2, <3>3 DEF RequestInv, Reported, LastExecuted
    <3> QED  BY <3>4, <3>5
  <2>5. CASE Succeed(r)
    <3>1. PICK reply \in Replies :
            Reported(r, reply) /\ response' = [response EXCEPT ![r] = @ \o reply]
      BY <1>4, <2>5 DEF Succeed, Receive
    <3>2. /\ response' \in [Requests -> Seq(Pieces)]
          /\ Last(response'[r]) = Last(reply)
      BY <1>3, <3>1, ReplyFacts
    <3>3. /\ pc' = [pc EXCEPT ![r] = "free"] /\ result' = [result EXCEPT ![r] = "true"]
          /\ pc[r] = "await" /\ attempts' = attempts
      BY <2>5 DEF Succeed, Goto
    <3>4. RequestTypeOK'  BY <1>1, <1>3, <3>2, <3>3 DEF RequestTypeOK
    <3>5. attempts[r] # <<>>  BY <3>3 DEF RequestInv
    <3>6. Reported(r, response[r])'
      BY <3>1, <3>2, <3>3 DEF Reported, LastExecuted
    <3>7. \A q \in Requests \ {r} : Reported(q, response[q]) => Reported(q, response[q])'
      BY <1>5 DEF Reported, LastExecuted
    <3>8. RequestInv'
      BY <1>3, <1>5, <3>3, <3>5, <3>6, <3>7 DEF RequestInv
    <3> QED  BY <3>4, <3>8
  <2>6. CASE Fail(r)
    <3>1. PICK remnant \in Remnants : response' = [response EXCEPT ![r] = @ \o remnant]
      BY <1>4, <2>6 DEF Fail, Receive
    <3>2. response' \in [Requests -> Seq(Pieces)]
      BY <1>3, <3>1, ReplyFacts
    <3>3. /\ pc[r] = "await" /\ attempts' = attempts
          /\ \/ pc' = [pc EXCEPT ![r] = "perform"] /\ result' = result
             \/ /\ pc' = [pc EXCEPT ![r] = "free"]
                /\ result' = [result EXCEPT ![r] = "false"]
      BY <2>6 DEF Fail, Goto
    <3>4. result[r] = "none" /\ attempts[r] # <<>>
      BY <3>3 DEF RequestInv
    <3>5. RequestTypeOK'  BY <1>1, <1>3, <3>2, <3>3 DEF RequestTypeOK
    <3>6. /\ attempts'[r] # <<>> /\ result'[r] # "true"
          /\ \/ pc'[r] = "perform" /\ result'[r] = "none"
             \/ pc'[r] = "free"
      BY <1>3, <3>3, <3>4
    <3>7. RequestInv'  BY <1>5, <3>6 DEF RequestInv, Reported, LastExecuted
    <3> QED  BY <3>5, <3>7
  <2>7. CASE FreeHeaders(r)
    BY <1>1, <1>3, <2>7 DEF FreeHeaders, Goto, RequestTypeOK, RequestInv, Reported, LastExecuted
  <2>8. CASE ReleaseCurlHandle(r)
    BY <1>1, <1>3, <2>8 DEF ReleaseCurlHandle, Goto, RequestTypeOK, RequestInv, Reported, LastExecuted
  <2> QED  BY <1>1, <2>1, <2>2, <2>3, <2>4, <2>5, <2>6, <2>7, <2>8 DEF Perform
<1>7. CallInv'
  <2>1. thread[r] = "calling"  BY <1>5 DEF CallInv
  <2>2. allSuccessful = "none"  BY <1>1, <2>1 DEF CallInv, AllFinished
  <2> QED  BY <1>1, <1>5, <2>1, <2>2 DEF CallInv, Finished
<1> QED  BY <1>2, <1>6, <1>7

\* Late news from the exchange takes back nothing that was said.
LEMMA ExecutePreserves ==
  ASSUME BatchInv, NEW r \in Requests, Execute(r), UNCHANGED batchVars
  PROVE  BatchInv'
<1> USE DEF BatchInv
<1>1. PICK k \in DOMAIN attempts[r] :
        attempts[r][k] = "sent" /\ attempts' = [attempts EXCEPT ![r][k] = "executed"]
  BY DEF Execute
<1>2. /\ UNCHANGED <<poolVars, optionVars, pc, handle, retries, response, result>>
      /\ UNCHANGED batchVars
  BY DEF Execute
<1>3. IInv'
  BY <1>2 DEF IInv, HandleTypeOK, HandlesConserved, Held, OwnOptions, Performing,
              poolVars, optionVars
<1>4. attempts \in [Requests -> Seq({"sent", "executed"})]
  BY DEF RequestTypeOK
<1>5. /\ attempts'[r] \in Seq({"sent", "executed"})
      /\ Len(attempts'[r]) = Len(attempts[r])
      /\ \A i \in DOMAIN attempts[r] :
           attempts'[r][i] = IF i = k THEN "executed" ELSE attempts[r][i]
      /\ \A q \in Requests \ {r} : attempts'[q] = attempts[q]
  BY <1>1, <1>4
<1>6. attempts' \in [Requests -> Seq({"sent", "executed"})]
  BY <1>1, <1>4, <1>5
<1>7. RequestTypeOK'  BY <1>2, <1>6 DEF RequestTypeOK, batchVars, asyncVars
<1>8. attempts'[r] # <<>> /\ (LastExecuted(r) => LastExecuted(r)')
  <2>1. attempts[r] # <<>> /\ Len(attempts[r]) \in DOMAIN attempts[r]
    BY <1>1, <1>4
  <2>2. attempts'[r] # <<>>  BY <1>4, <1>5, <2>1
  <2>3. LastExecuted(r) => k # Len(attempts[r])  BY <1>1 DEF LastExecuted
  <2> QED  BY <1>5, <2>1, <2>2, <2>3 DEF LastExecuted
<1>9. RequestInv'  BY <1>2, <1>5, <1>8 DEF RequestInv, Reported, LastExecuted
<1>10. CallInv'
  BY <1>2 DEF CallInv, AllFinished, AllOf, Finished, batchVars, asyncVars
<1> QED  BY <1>3, <1>7, <1>9, <1>10

LEMMA NextBatchInv == BatchInv /\ [NextBatch]_allVars => BatchInv'
<1> SUFFICES ASSUME BatchInv, [NextBatch]_allVars PROVE BatchInv'
  OBVIOUS
<1>1. CASE Caller  BY <1>1, AsyncPreserves, MultiPreserves DEF Caller
<1>2. ASSUME NEW r \in Requests, Request(r) PROVE BatchInv'
  BY <1>2, RequestPreserves
<1>3. ASSUME NEW r \in Requests, Execute(r), UNCHANGED batchVars PROVE BatchInv'
  BY <1>3, ExecutePreserves
<1>4. CASE UNCHANGED allVars
  BY <1>4 DEF BatchInv, IInv, HandleTypeOK, HandlesConserved, Held, OwnOptions,
     Performing, RequestTypeOK, RequestInv, Reported, LastExecuted, CallInv, AllFinished, AllOf,
     Finished, allVars, vars, poolVars, optionVars, batchVars, asyncVars
<1> QED  BY <1>1, <1>2, <1>3, <1>4 DEF NextBatch

LEMMA AlwaysBatchInv == SpecBatch => []BatchInv
BY InitBatchInv, NextBatchInv, PTL DEF SpecBatch

\* In a batch, too, handles neither leak nor are they shared, and a request
\* under way writes to its own response.
THEOREM BatchKeepsHandles == SpecBatch => [](HandlesConserved /\ OwnOptions)
<1>1. BatchInv => HandlesConserved /\ OwnOptions  BY DEF BatchInv, IInv
<1> QED  BY <1>1, AlwaysBatchInv, PTL

\* Neither operation leaves behind anyone who still writes to what it returned.
THEOREM NothingIsWrittenLate == SpecBatch => NoWriteAfterReturn
<1>1. BatchInv /\ [NextBatch]_allVars
        => [allSuccessful # "none" => UNCHANGED <<response, responses>>]_allVars
  <2> SUFFICES ASSUME BatchInv, NextBatch, allSuccessful # "none"
               PROVE  UNCHANGED <<response, responses>>
    OBVIOUS
  <2>1. CASE operation = "async"
    <3>1. \A r \in Requests : thread[r] = "finished" /\ pc[r] = "done"
      BY <2>1 DEF BatchInv, CallInv, AllFinished
    <3> QED
      BY <2>1, <3>1
         DEF NextBatch, Caller, AsyncStep, Return, BeginPushBack, EndPushBack,
             InPushBack, Request, Perform, GetCurlHandle, Refuse, Prepare, Send,
             Succeed, Fail, FreeHeaders, ReleaseCurlHandle, Execute, batchVars, asyncVars
  <2>2. CASE operation = "multi"
    <3>1. \A r \in Requests : transfer[r] = "over"
      BY <2>2 DEF BatchInv, CallInv
    <3> QED
      BY <2>2, <3>1
         DEF NextBatch, Caller, MultiStep, Start, Transfer, ReturnTrue, Request,
             Execute, batchVars, asyncVars, multiVars
  <2> QED  BY <2>1, <2>2 DEF BatchInv, RequestTypeOK
<1> QED  BY <1>1, AlwaysBatchInv, PTL DEF SpecBatch, NoWriteAfterReturn

-----------------------------------------------------------------------------
(* A request finds freeHandles empty only if others hold all handles; then *)
(* there are fewer handles than requests.                                  *)

DistinctHandles == \A i, j \in DOMAIN curlPool : curlPool[i] = curlPool[j] => i = j

LEMMA OneIsFree ==
  ASSUME BatchInv, DistinctHandles, IsFiniteSet(Requests),
         Len(curlPool) >= Cardinality(Requests),
         NEW r \in Requests, pc[r] = "get"
  PROVE  freeHandles # <<>>
<1> SUFFICES ASSUME freeHandles = <<>> PROVE FALSE
  OBVIOUS
<1> DEFINE N == 1 .. Len(curlPool)
           Others == Requests \ {r}
           User == [i \in N |-> CHOOSE q \in Others : handle[q] = curlPool[i]]
<1>1. /\ curlPool \in Seq(Handles)
      /\ handle \in [Requests -> Handles \cup {NoHandle}]
      /\ handle[r] = NoHandle
      /\ Range(freeHandles) \cup Held = Range(curlPool)
  BY DEF BatchInv, IInv, HandleTypeOK, HandlesConserved
<1>2. Len(curlPool) \in Nat /\ DOMAIN curlPool = N  BY <1>1
<1>3. Range(freeHandles) = {}  BY DEF Range
<1>4. \A i \in N : \E q \in Others : handle[q] = curlPool[i]
  <2> SUFFICES ASSUME NEW i \in N PROVE \E q \in Others : handle[q] = curlPool[i]
    OBVIOUS
  <2>1. curlPool[i] \in Held  BY <1>1, <1>2, <1>3 DEF Range
  <2> QED  BY <1>1, <2>1 DEF Held
<1>5. \A i \in N : User[i] \in Others /\ handle[User[i]] = curlPool[i]
  BY <1>4
<1>6. User \in Injection(N, Others)
  <2>1. User \in [N -> Others]  BY <1>5
  <2>2. \A i, j \in N : User[i] = User[j] => i = j
    BY <1>2, <1>5 DEF DistinctHandles
  <2> QED  BY <2>1, <2>2 DEF Injection, IsInjective
<1>7. IsFiniteSet(Others) /\ Cardinality(Others) = Cardinality(Requests) - 1
  BY FS_RemoveElement
<1> HIDE DEF User
<1>8. Cardinality(N) <= Cardinality(Others)  BY <1>6, <1>7, FS_Injection
<1>9. Cardinality(N) = Len(curlPool)
  BY <1>2, FS_Interval
<1>10. Cardinality(Requests) \in Nat  BY FS_CardinalityType
<1> QED  BY <1>2, <1>7, <1>8, <1>9, <1>10

ServedInv == BatchInv /\ DistinctHandles /\ NoRefusalWithinPool

LEMMA InitServedInv == InitBatch => ServedInv
<1> SUFFICES ASSUME InitBatch PROVE ServedInv
  OBVIOUS
<1>1. BatchInv  BY InitBatchInv
<1>2. DistinctHandles
  <2>1. PICK n \in 0 .. Len(PoolHandles) : curlPool = SubSeq(PoolHandles, 1, n)
    BY DEF InitBatch, Init
  <2>2. PoolHandles \in Seq(Handles)
    BY CurlAssumption DEF Handles, Range
  <2>3. /\ DOMAIN curlPool = 1 .. n
        /\ \A i \in 1 .. n : curlPool[i] = PoolHandles[i] /\ i \in DOMAIN PoolHandles
    BY <2>1, <2>2
  <2> QED  BY <2>3, CurlAssumption DEF DistinctHandles
<1>3. NoRefusalWithinPool  BY DEF InitBatch, Init, NoRefusalWithinPool
<1> QED  BY <1>1, <1>2, <1>3 DEF ServedInv

LEMMA NextServedInv ==
  ASSUME IsFiniteSet(Requests), ServedInv, [NextBatch]_allVars
  PROVE  ServedInv'
<1>1. BatchInv /\ BatchInv'  BY NextBatchInv DEF ServedInv
<1>2. curlPool' = curlPool
  BY DEF NextBatch, Caller, AsyncStep, Return, BeginPushBack, EndPushBack, MultiStep,
         Start, Transfer, ReturnTrue, Request, Perform, GetCurlHandle, Refuse, Prepare,
         Send, Succeed, Fail, FreeHeaders, ReleaseCurlHandle, Execute, allVars, vars, poolVars, multiVars
<1>3. DistinctHandles'  BY <1>2 DEF ServedInv, DistinctHandles
<1>4. ASSUME NEW q \in Requests, Len(curlPool) >= Cardinality(Requests),
             pc'[q] = "done"
      PROVE  attempts'[q] # <<>>
  <2>1. /\ pc[q] = "done" => attempts[q] # <<>>
        /\ pc[q] = "release" => attempts[q] # <<>>
        /\ pc \in [Requests -> Locations]
        /\ attempts \in [Requests -> Seq({"sent", "executed"})]
    BY <1>1, <1>4
       DEF ServedInv, NoRefusalWithinPool, BatchInv, RequestInv, IInv, HandleTypeOK,
           RequestTypeOK
  <2>2. CASE UNCHANGED <<pc, attempts>>
    BY <1>4, <2>1, <2>2
  <2>3. CASE Caller
    <3>1. CASE operation = "async" /\ AsyncStep
      BY <2>2, <3>1 DEF AsyncStep, Return, BeginPushBack, EndPushBack, vars
    <3>2. CASE operation = "multi" /\ MultiStep
      <4>1. pc' = pc /\ pc[q] = "get"
        BY <1>1, <3>2
           DEF MultiStep, Start, Transfer, ReturnTrue, multiVars, BatchInv, CallInv
      <4> QED  BY <1>4, <4>1
    <3> QED  BY <2>3, <3>1, <3>2 DEF Caller
  <2>4. ASSUME NEW r \in Requests, Request(r) PROVE attempts'[q] # <<>>
    <3>1. pc[r] # "done" /\ (r # q => pc'[q] = pc[q])
      BY <2>1, <2>4
         DEF Request, Perform, GetCurlHandle, Refuse, Prepare, Send, Succeed, Fail,
             FreeHeaders, ReleaseCurlHandle, Goto
    <3>2. CASE r # q
      <4>1. attempts'[q] = attempts[q]
        BY <2>1, <2>4, <3>2
           DEF Request, Perform, GetCurlHandle, Refuse, Prepare, Send, Succeed, Fail,
               FreeHeaders, ReleaseCurlHandle
      <4> QED  BY <1>4, <2>1, <3>1, <3>2, <4>1
    <3>3. CASE r = q
      <4>1. ~Refuse(q)
        BY <1>1, <1>4, OneIsFree DEF Refuse, ServedInv
      <4>2. ReleaseCurlHandle(q)
        BY <1>4, <2>1, <2>4, <3>3, <4>1
           DEF Request, Perform, GetCurlHandle, Prepare, Send, Succeed, Fail,
               FreeHeaders, Goto
      <4> QED  BY <2>1, <4>2 DEF ReleaseCurlHandle
    <3> QED  BY <3>2, <3>3
  <2>5. ASSUME NEW r \in Requests, Execute(r), UNCHANGED batchVars
        PROVE  attempts'[q] # <<>>
    <3>1. PICK k \in DOMAIN attempts[r] :
            attempts' = [attempts EXCEPT ![r][k] = "executed"]
      BY <2>5 DEF Execute
    <3>2. pc' = pc  BY <2>5 DEF Execute
    <3>3. Len(attempts'[q]) = Len(attempts[q])  BY <2>1, <3>1, <3>2
    <3> QED  BY <1>4, <2>1, <3>2, <3>3
  <2>6. CASE UNCHANGED allVars  BY <2>2, <2>6 DEF allVars, vars
  <2> QED  BY <2>3, <2>4, <2>5, <2>6 DEF NextBatch
<1>5. NoRefusalWithinPool'  BY <1>2, <1>4 DEF NoRefusalWithinPool
<1> QED  BY <1>1, <1>3, <1>5 DEF ServedInv

\* The threads of a batch that is no larger than the pool never find it empty.
THEOREM NothingIsRefused ==
  ASSUME IsFiniteSet(Requests)
  PROVE  SpecBatch => []NoRefusalWithinPool
<1>1. ServedInv /\ [NextBatch]_allVars => ServedInv'  BY NextServedInv
<1>2. ServedInv => NoRefusalWithinPool  BY DEF ServedInv
<1> QED  BY <1>1, <1>2, InitServedInv, PTL DEF SpecBatch
-----------------------------------------------------------------------------
(* What a result says of the attempts and of the response.                 *)

\* f adds up the prefixes of seqs.
IsFlatten(f, seqs) ==
  f = [i \in 1 .. Len(seqs) |-> IF i = 1 THEN seqs[i] ELSE f[i - 1] \o seqs[i]]

\* f has the concatenations of the first members of seqs, all n at last.
Concatenates(f, n, seqs) ==
  /\ f[0] = <<>> /\ f[n] = FlattenSeq(seqs)
  /\ \A k \in 1 .. n : f[k] = f[k - 1] \o seqs[k]

\* FlattenSeq as a recursion from the empty sequence on.
LEMMA FlattenFacts ==
  ASSUME NEW A, NEW n \in Nat, NEW seqs \in [1 .. n -> Seq(A)]
  PROVE  \E f \in [0 .. n -> Seq(A)] : Concatenates(f, n, seqs)
<1> DEFINE F == [x \in Seq(A) \X (1 .. n) |-> x[1] \o seqs[x[2]]]
<1>1. F \in [Seq(A) \X (1 .. n) -> Seq(A)]  OBVIOUS
<1>2. <<>> \in Seq(A)  OBVIOUS
<1>3. PICK f \in [0 .. n -> Seq(A)] : Follows(f, n, <<>>, F)
  <2> HIDE DEF F
  <2> QED  BY <1>1, <1>2, Recursion, Zenon
<1>4. f[0] = <<>> /\ \A k \in 1 .. n : f[k] = f[k - 1] \o seqs[k]
  <2>1. ASSUME NEW k \in 1 .. n PROVE f[k] = f[k - 1] \o seqs[k]
    <3>1. f[k - 1] \in Seq(A)  BY <1>3
    <3> QED  BY <1>3, <3>1 DEF Follows
  <2> QED  BY <1>3, <2>1 DEF Follows
<1> HIDE DEF F
<1>5. Len(seqs) = n  OBVIOUS
<1>6. CASE n = 0
  <2>1. seqs = <<>>  BY <1>6
  <2>2. FlattenSeq(seqs) = seqs  BY <1>5, <1>6 DEF FlattenSeq
  <2> QED  BY <1>4, <1>6, <2>1, <2>2 DEF Concatenates
<1>7. CASE n # 0
  <2> DEFINE h == [i \in 1 .. n |-> f[i]]
             flatten == CHOOSE g : IsFlatten(g, seqs)
             g == [i \in 0 .. n |-> IF i = 0 THEN <<>> ELSE flatten[i]]
  <2>1. 1 \in 1 .. n /\ 1 - 1 = 0  BY <1>7
  <2>2. f[1] = seqs[1]
    <3>1. f[1] = <<>> \o seqs[1]  BY <1>4, <2>1
    <3>2. seqs[1] \in Seq(A)  BY <2>1
    <3> QED  BY <3>1, <3>2
  <2>3. IsFlatten(h, seqs)
    <3>1. ASSUME NEW i \in 1 .. n
          PROVE  h[i] = IF i = 1 THEN seqs[i] ELSE h[i - 1] \o seqs[i]
      <4>1. CASE i = 1  BY <2>2, <4>1
      <4>2. CASE i # 1
        <5>1. i - 1 \in 1 .. n  BY <4>2
        <5> QED  BY <1>4, <4>2, <5>1
      <4> QED  BY <4>1, <4>2
    <3> QED  BY <1>5, <3>1 DEF IsFlatten
  <2>4. IsFlatten(flatten, seqs)  BY <2>3
  <2>5. FlattenSeq(seqs) = flatten[n]
    BY <1>5, <1>7 DEF FlattenSeq, IsFlatten
  <2> HIDE DEF flatten, h
  <2>6. \A i \in 1 .. n :
          flatten[i] = IF i = 1 THEN seqs[i] ELSE flatten[i - 1] \o seqs[i]
    BY <1>5, <2>4 DEF IsFlatten
  <2>7. AgreeInTurn(f, g, n)
    <3>1. ASSUME NEW k \in 1 .. n, f[k - 1] = g[k - 1] PROVE f[k] = g[k]
      <4>1. CASE k = 1
        <5>1. g[1] = flatten[1]  BY <2>1
        <5>2. flatten[1] = seqs[1]  BY <2>1, <2>6
        <5> HIDE DEF g
        <5> QED  BY <2>2, <4>1, <5>1, <5>2
      <4>2. CASE k # 1
        <5>1. g[k - 1] = flatten[k - 1] /\ g[k] = flatten[k]  BY <4>2
        <5>2. flatten[k] = flatten[k - 1] \o seqs[k]  BY <2>6, <4>2
        <5>3. f[k] = f[k - 1] \o seqs[k]  BY <1>4
        <5> HIDE DEF g
        <5> QED  BY <3>1, <5>1, <5>2, <5>3
      <4> QED  BY <4>1, <4>2
    <3>2. f[0] = g[0]  BY <1>4
    <3> HIDE DEF g
    <3> QED  BY <3>1, <3>2 DEF AgreeInTurn
  <2>8. g[n] = flatten[n]  BY <1>7
  <2>9. f[n] = g[n]
    <3> HIDE DEF g
    <3>1. Agree(f, g, n)  BY <2>7, RecursionUnique, Zenon
    <3> QED  BY <3>1 DEF Agree
  <2> HIDE DEF g
  <2> QED  BY <1>4, <2>5, <2>8, <2>9 DEF Concatenates
<1> QED  BY <1>6, <1>7

\* One member more.
LEMMA FlattenAppend ==
  ASSUME NEW A, NEW n \in Nat, NEW seqs \in [1 .. n -> Seq(A)], NEW x \in Seq(A)
  PROVE  /\ FlattenSeq(seqs) \in Seq(A)
         /\ FlattenSeq(Append(seqs, x)) = FlattenSeq(seqs) \o x
<1> DEFINE more == Append(seqs, x)
<1>1. /\ more \in [1 .. n + 1 -> Seq(A)] /\ more[n + 1] = x
      /\ \A k \in 1 .. n : more[k] = seqs[k]
  <2>1. seqs \in Seq(Seq(A)) /\ Len(seqs) = n  OBVIOUS
  <2>2. more \in Seq(Seq(A)) /\ Len(more) = n + 1 /\ more[n + 1] = x
        /\ \A k \in 1 .. n : more[k] = seqs[k]
    BY <2>1, AppendProperties
  <2> HIDE DEF more
  <2> QED  BY <2>2
<1> HIDE DEF more
<1>2. PICK f \in [0 .. n -> Seq(A)] : Concatenates(f, n, seqs)
  BY FlattenFacts, Zenon
<1>3. PICK g \in [0 .. n + 1 -> Seq(A)] : Concatenates(g, n + 1, more)
  <2>1. n + 1 \in Nat  OBVIOUS
  <2> QED  BY <1>1, <2>1, FlattenFacts, Zenon
<1>4. AgreeInTurn(f, g, n)
  <2>1. f[0] = g[0]  BY <1>2, <1>3 DEF Concatenates
  <2>2. ASSUME NEW k \in 1 .. n, f[k - 1] = g[k - 1] PROVE f[k] = g[k]
    <3>1. f[k] = f[k - 1] \o seqs[k]  BY <1>2 DEF Concatenates
    <3>2. g[k] = g[k - 1] \o more[k]
      <4>1. k \in 1 .. n + 1  OBVIOUS
      <4> QED  BY <1>3, <4>1 DEF Concatenates
    <3>3. more[k] = seqs[k]  BY <1>1
    <3> QED  BY <2>2, <3>1, <3>2, <3>3
  <2> QED  BY <2>1, <2>2 DEF AgreeInTurn
<1>5. f[n] = g[n]
  <2>1. Agree(f, g, n)  BY <1>4, RecursionUnique, Zenon
  <2> QED  BY <2>1 DEF Agree
<1>6. g[n + 1] = g[n] \o x
  <2>1. n + 1 \in 1 .. n + 1 /\ (n + 1) - 1 = n  OBVIOUS
  <2> QED  BY <1>1, <1>3, <2>1 DEF Concatenates
<1>7. f[n] \in Seq(A)  BY <1>2
<1>8. f[n] = FlattenSeq(seqs) /\ g[n + 1] = FlattenSeq(more)
  BY <1>2, <1>3 DEF Concatenates
<1> QED  BY <1>5, <1>6, <1>7, <1>8 DEF more

\* What n attempts may have left behind, given up one after the other.
Junk(n) == UNION {[1 .. m -> Remnants] : m \in 0 .. n}
Collected(n) == {FlattenSeq(junk) : junk \in Junk(n)}

\* How the attempts, the retries, the response and the result of a request go
\* together.
Explained(r) ==
  /\ pc[r] \in {"get", "setopt"} => retries[r] = 0
  /\ pc[r] \in {"get", "setopt", "perform", "await"} =>
       /\ retries[r] < MaxRetries
       /\ response[r] \in Collected(retries[r])
       /\ Len(attempts[r]) = IF pc[r] = "await" THEN retries[r] + 1 ELSE retries[r]
  /\ result[r] = "true" => response[r] \in SuccessBuffers(MaxRetries - 1)
  /\ result[r] = "false" => Len(attempts[r]) \in {0, MaxRetries}

ExplainedInv ==
  /\ BatchInv
  /\ retries \in [Requests -> Nat]
  /\ operation = "async" => \A r \in Requests : Explained(r)

LEMMA CollectedFacts ==
  /\ <<>> \in Collected(0)
  /\ \A n \in Nat : \A text \in Collected(n), remnant \in Remnants :
       text \o remnant \in Collected(n + 1)
  /\ \A n \in 0 .. MaxRetries - 1 : \A text \in Collected(n), reply \in Replies :
       text \o reply \in SuccessBuffers(MaxRetries - 1)
<1>1. <<>> \in Collected(0)
  <2>1. <<>> \in [1 .. 0 -> Remnants] /\ 0 \in 0 .. 0  OBVIOUS
  <2>2. FlattenSeq(<<>>) = <<>>  BY DEF FlattenSeq
  <2>3. <<>> \in Junk(0)  BY <2>1 DEF Junk
  <2> QED  BY <2>2, <2>3 DEF Collected
<1>2. ASSUME NEW n \in Nat, NEW text \in Collected(n), NEW remnant \in Remnants
      PROVE  text \o remnant \in Collected(n + 1)
  <2>1. PICK m \in 0 .. n : \E junk \in [1 .. m -> Remnants] : text = FlattenSeq(junk)
    BY DEF Collected, Junk
  <2> PICK junk \in [1 .. m -> Remnants] : text = FlattenSeq(junk)  BY <2>1
  <2>2. /\ junk \in [1 .. m -> Seq(Pieces)] /\ remnant \in Seq(Pieces)
        /\ m \in Nat /\ m + 1 \in 0 .. n + 1
    BY ReplyFacts
  <2>3. FlattenSeq(Append(junk, remnant)) = text \o remnant
    BY <2>1, <2>2, FlattenAppend, Zenon
  <2>4. Append(junk, remnant) \in [1 .. m + 1 -> Remnants]
    <3>1. junk \in Seq(Remnants) /\ Len(junk) = m  OBVIOUS
    <3>2. Append(junk, remnant) \in Seq(Remnants) /\ Len(Append(junk, remnant)) = m + 1
      BY <3>1, AppendProperties
    <3>3. \A longer \in Seq(Remnants) : longer \in [1 .. Len(longer) -> Remnants]
      OBVIOUS
    <3> QED  BY <3>2, <3>3, Zenon
  <2>5. Append(junk, remnant) \in Junk(n + 1)  BY <2>2, <2>4, Zenon DEF Junk
  <2> QED  BY <2>3, <2>5, Zenon DEF Collected
<1>3. ASSUME NEW n \in 0 .. MaxRetries - 1, NEW text \in Collected(n), NEW reply \in Replies
      PROVE  text \o reply \in SuccessBuffers(MaxRetries - 1)
  <2>1. PICK m \in 0 .. n : \E junk \in [1 .. m -> Remnants] : text = FlattenSeq(junk)
    BY DEF Collected, Junk
  <2> PICK junk \in [1 .. m -> Remnants] : text = FlattenSeq(junk)  BY <2>1
  <2>2. m \in 0 .. MaxRetries - 1  BY CurlAssumption
  <2>3. junk \in UNION {[1 .. l -> Remnants] : l \in 0 .. MaxRetries - 1}
    BY <2>2, Zenon
  <2> QED  BY <2>3, SMT DEF SuccessBuffers
<1> QED  BY <1>1, <1>2, <1>3

LEMMA InitExplainedInv == InitBatch => ExplainedInv
<1> SUFFICES ASSUME InitBatch PROVE ExplainedInv
  OBVIOUS
<1>1. ASSUME NEW r \in Requests PROVE Explained(r)
  BY CollectedFacts, CurlAssumption DEF InitBatch, Init, Explained
<1>2. retries \in [Requests -> Nat]  BY DEF InitBatch, Init
<1> QED  BY <1>1, <1>2, InitBatchInv DEF ExplainedInv

\* One step of performCurlRequest.
LEMMA RequestExplained ==
  ASSUME ExplainedInv, NEW r \in Requests, Request(r)
  PROVE  retries' \in [Requests -> Nat] /\ \A q \in Requests : Explained(q)'
<1>1. /\ operation = "async" /\ Perform(r) /\ BatchInv
      /\ Explained(r) /\ \A q \in Requests : Explained(q)
  BY DEF ExplainedInv, Request
<1>2. /\ pc \in [Requests -> Locations]
      /\ response \in [Requests -> Seq(Pieces)]
      /\ result \in [Requests -> {"none", "true", "false"}]
      /\ attempts \in [Requests -> Seq({"sent", "executed"})]
      /\ retries \in [Requests -> Nat]
      /\ pc[r] = "await" => writeTo[handle[r]] = r
      /\ pc[r] \in {"get", "setopt", "perform", "await"} => result[r] = "none"
  BY <1>1 DEF ExplainedInv, BatchInv, IInv, HandleTypeOK, RequestTypeOK, OwnOptions,
              Performing, RequestInv
<1>3. \A q \in Requests \ {r} :
        /\ pc'[q] = pc[q] /\ result'[q] = result[q] /\ retries'[q] = retries[q]
        /\ attempts'[q] = attempts[q] /\ response'[q] = response[q]
  BY <1>1, <1>2
     DEF Perform, GetCurlHandle, Refuse, Prepare, Send, Succeed, Fail, FreeHeaders,
         ReleaseCurlHandle, Goto, Receive
<1>4. \A q \in Requests \ {r} : Explained(q)'
  BY <1>1, <1>3 DEF Explained
<1>5. retries' \in [Requests -> Nat]
  BY <1>1, <1>2
     DEF Perform, GetCurlHandle, Refuse, Prepare, Send, Succeed, Fail, FreeHeaders,
         ReleaseCurlHandle
<1>6. Explained(r)'
  <2>1. CASE GetCurlHandle(r)
    BY <1>1, <1>2, <2>1 DEF GetCurlHandle, Goto, Explained
  <2>2. CASE Refuse(r)
    <3>1. /\ pc[r] = "get" /\ pc'[r] = "done" /\ result'[r] = "false"
          /\ UNCHANGED <<retries, attempts, response>>
      BY <1>2, <2>2 DEF Refuse, Goto
    <3>2. Len(attempts[r]) = 0  BY <1>1, <3>1 DEF Explained
    <3> QED  BY <3>1, <3>2 DEF Explained
  <2>3. CASE Prepare(r)
    BY <1>1, <1>2, <2>3 DEF Prepare, Goto, Explained
  <2>4. CASE Send(r)
    <3>1. /\ pc[r] = "perform" /\ pc'[r] = "await"
          /\ attempts'[r] = Append(attempts[r], "sent")
          /\ UNCHANGED <<retries, result, response>>
      BY <1>2, <2>4 DEF Send, Goto
    <3>2. Len(attempts'[r]) = Len(attempts[r]) + 1  BY <1>2, <3>1
    <3>3. result[r] = "none"  BY <1>2, <3>1
    <3> QED  BY <1>1, <3>1, <3>2, <3>3 DEF Explained
  <2>5. CASE Succeed(r)
    <3>1. PICK reply \in Replies : response' = [response EXCEPT ![r] = @ \o reply]
      BY <1>2, <2>5 DEF Succeed, Receive
    <3>2. /\ pc[r] = "await" /\ pc'[r] = "free" /\ result'[r] = "true"
          /\ response'[r] = response[r] \o reply
      BY <1>2, <2>5, <3>1 DEF Succeed, Goto
    <3>3. retries[r] \in 0 .. MaxRetries - 1 /\ response[r] \in Collected(retries[r])
      BY <1>1, <1>2, <3>2, CurlAssumption DEF Explained
    <3>4. response'[r] \in SuccessBuffers(MaxRetries - 1)
      BY <3>2, <3>3, CollectedFacts
    <3> QED  BY <3>2, <3>4 DEF Explained
  <2>6. CASE Fail(r)
    <3>1. PICK remnant \in Remnants : response' = [response EXCEPT ![r] = @ \o remnant]
      BY <1>2, <2>6 DEF Fail, Receive
    <3>2. /\ pc[r] = "await" /\ result[r] = "none"
          /\ response'[r] = response[r] \o remnant
          /\ retries'[r] = retries[r] + 1 /\ attempts' = attempts
      BY <1>2, <2>6, <3>1 DEF Fail
    <3>3. /\ retries[r] < MaxRetries /\ response[r] \in Collected(retries[r])
          /\ Len(attempts[r]) = retries[r] + 1 /\ retries[r] \in Nat
      BY <1>1, <1>2, <3>2 DEF Explained
    <3>4. response'[r] \in Collected(retries'[r])
      BY <3>2, <3>3, CollectedFacts
    <3>5. CASE retries[r] + 1 < MaxRetries
      <4>1. pc'[r] = "perform" /\ result'[r] = "none"
        BY <1>2, <2>6, <3>2, <3>5 DEF Fail, Goto, RetryAgain
      <4> QED  BY <3>2, <3>3, <3>4, <3>5, <4>1 DEF Explained
    <3>6. CASE ~(retries[r] + 1 < MaxRetries)
      <4>1. pc'[r] = "free" /\ result'[r] = "false"
        BY <1>2, <2>6, <3>2, <3>6 DEF Fail, Goto, RetryAgain
      <4>2. Len(attempts'[r]) = MaxRetries
        BY <3>2, <3>3, <3>6, CurlAssumption
      <4> QED  BY <4>1, <4>2 DEF Explained
    <3> QED  BY <3>5, <3>6
  <2>7. CASE FreeHeaders(r)
    BY <1>1, <1>2, <2>7 DEF FreeHeaders, Goto, Explained
  <2>8. CASE ReleaseCurlHandle(r)
    BY <1>1, <1>2, <2>8 DEF ReleaseCurlHandle, Goto, Explained
  <2> QED  BY <1>1, <2>1, <2>2, <2>3, <2>4, <2>5, <2>6, <2>7, <2>8 DEF Perform
<1> QED  BY <1>4, <1>5, <1>6

LEMMA NextExplainedInv == ExplainedInv /\ [NextBatch]_allVars => ExplainedInv'
<1> SUFFICES ASSUME ExplainedInv, [NextBatch]_allVars PROVE ExplainedInv'
  OBVIOUS
<1>1. BatchInv'  BY NextBatchInv DEF ExplainedInv
<1>2. ASSUME UNCHANGED <<pc, retries, response, result, operation>>,
             \A r \in Requests : Len(attempts'[r]) = Len(attempts[r])
      PROVE  ExplainedInv'
  <2>1. \A r \in Requests : Explained(r) => Explained(r)'  BY <1>2 DEF Explained
  <2> QED  BY <1>1, <1>2, <2>1 DEF ExplainedInv
<1>3. CASE Caller
  <2>1. CASE operation = "async" /\ AsyncStep
    BY <1>2, <2>1 DEF AsyncStep, Return, BeginPushBack, EndPushBack, vars
  <2>2. CASE operation = "multi" /\ MultiStep
    <3>1. operation' = "multi" /\ retries' = retries
      BY <2>2 DEF MultiStep, Start, Transfer, ReturnTrue, multiVars
    <3> QED  BY <1>1, <3>1 DEF ExplainedInv
  <2> QED  BY <1>3, <2>1, <2>2 DEF Caller
<1>4. ASSUME NEW r \in Requests, Request(r) PROVE ExplainedInv'
  BY <1>1, <1>4, RequestExplained DEF ExplainedInv
<1>5. ASSUME NEW r \in Requests, Execute(r), UNCHANGED batchVars PROVE ExplainedInv'
  <2>1. PICK k \in DOMAIN attempts[r] :
          attempts' = [attempts EXCEPT ![r][k] = "executed"]
    BY <1>5 DEF Execute
  <2>2. attempts \in [Requests -> Seq({"sent", "executed"})]
    BY DEF ExplainedInv, BatchInv, RequestTypeOK
  <2>3. \A q \in Requests : Len(attempts'[q]) = Len(attempts[q])
    BY <2>1, <2>2
  <2> QED  BY <1>2, <1>5, <2>3 DEF Execute, batchVars
<1>6. CASE UNCHANGED allVars  BY <1>2, <1>6 DEF allVars, vars, batchVars
<1> QED  BY <1>3, <1>4, <1>5, <1>6 DEF NextBatch

\* Whatever the network loses or delays: true means one whole reply behind what
\* at most maxRetries - 1 given up attempts have left, and if that reply reports
\* a result the last attempt was executed; false means none or maxRetries
\* attempts.
LEMMA ExplainedResults == ExplainedInv => ResultExplained
<1> SUFFICES ASSUME ExplainedInv, NEW r \in Requests
             PROVE  /\ result[r] = "true" =>
                         /\ response[r] \in SuccessBuffers(MaxRetries - 1)
                         /\ Reported(r, response[r])
                    /\ result[r] = "false" => Len(attempts[r]) \in {0, MaxRetries}
  BY DEF ResultExplained
<1>1. /\ operation \in {"async", "multi"}
      /\ result[r] = "true" => Reported(r, response[r])
      /\ operation = "multi" => result[r] = "none"
  BY DEF ExplainedInv, BatchInv, RequestTypeOK, RequestInv, CallInv
<1>2. operation = "async" => Explained(r)  BY DEF ExplainedInv
<1> QED  BY <1>1, <1>2 DEF Explained

THEOREM ResultsAreExplained == SpecBatch => []ResultExplained
BY ExplainedResults, InitExplainedInv, NextExplainedInv, PTL DEF SpecBatch

\* performBatchAsyncCurlRequest leaves every response once; its result true means
\* that every response ends with a whole reply, and those that report a result
\* belong to requests that were executed.
THEOREM BatchIsComplete ==
  ASSUME IsFiniteSet(Requests)
  PROVE  SpecBatch => []BatchOutcome
<1>1. ExplainedInv => BatchOutcome
  <2> SUFFICES ASSUME ExplainedInv, operation = "async", allSuccessful # "none"
               PROVE  BatchOutcome
    BY DEF BatchOutcome
  <2>1. Finished = Requests
    BY DEF ExplainedInv, BatchInv, CallInv, AllFinished, Finished
  <2>2. Len(responses) = Cardinality(Requests) /\ Range(responses) = Requests
    BY <2>1 DEF ExplainedInv, BatchInv, CallInv
  <2>3. allSuccessful = "true" => \A r \in Requests : result[r] = "true"
    BY DEF ExplainedInv, BatchInv, CallInv, AllOf
  <2> QED  BY <2>2, <2>3, ExplainedResults DEF ResultExplained, BatchOutcome
<1> QED  BY <1>1, InitExplainedInv, NextExplainedInv, PTL DEF SpecBatch
=============================================================================
