-------------------------- MODULE TokenManagerProofs --------------------------
(***************************************************************************)
(* TokenManager, for any number of callers, any lifetime and any time: the *)
(* invariant that token_mutex protects, and what it gives the callers.     *)
(***************************************************************************)
EXTENDS TokenManager, TLAPS

\* The mutex makes the fetch in flight the only one, so its token is the
\* newest there is; a cached token is at least as new as any returned.
NewestInv ==
  /\ newest <= issued
  /\ access_token <= issued
  /\ access_token # 0 => access_token >= newest
  /\ \A c \in Callers :
       pc[c] = "store" => readBuffer[c] = issued /\ issued # 0

\* A call about to return has a token, or has itself failed to fetch one.
ReturnInv ==
  \A c \in Callers :
    pc[c] = "return" /\ access_token = 0 => fetched[c] = "failed"

IInv == TypeOK /\ FetchIsNeeded /\ NewestInv /\ ReturnInv

LEMMA InitIInv == Init => IInv
<1> SUFFICES ASSUME Init PROVE IInv
  OBVIOUS
<1>1. TypeOK
  BY TokenAssumption DEF Init, TypeOK, Locked
<1> QED
  BY <1>1 DEF Init, IInv, FetchIsNeeded, Fetching, NewestInv, ReturnInv

LEMMA NextTypeOK ==
  ASSUME TypeOK, [Next]_vars
  PROVE  TypeOK'
<1> USE TokenAssumption DEF TypeOK, Locked, Goto, Unlock
<1>1. CASE Tick  BY <1>1 DEF Tick
<1>2. ASSUME NEW c \in Callers, Call(c) PROVE TypeOK'
  BY <1>2 DEF Call
<1>3. ASSUME NEW c \in Callers, Lock(c) PROVE TypeOK'
  BY <1>3 DEF Lock, MutexFree
<1>4. ASSUME NEW c \in Callers, Check(c) PROVE TypeOK'
  BY <1>4 DEF Check
<1>5. ASSUME NEW c \in Callers, Issue(c) PROVE TypeOK'
  BY <1>5 DEF Issue
<1>6. ASSUME NEW c \in Callers, Store(c) PROVE TypeOK'
  BY <1>6 DEF Store, Renew
<1>7. ASSUME NEW c \in Callers, FetchFails(c) PROVE TypeOK'
  BY <1>7 DEF FetchFails, Renew
<1>8. ASSUME NEW c \in Callers, FetchThrows(c) PROVE TypeOK'
  BY <1>8 DEF FetchThrows
<1>9. ASSUME NEW c \in Callers, Return(c) PROVE TypeOK'
  BY <1>9 DEF Return
<1>10. CASE UNCHANGED vars  BY <1>10 DEF vars
<1> QED
  BY <1>1, <1>2, <1>3, <1>4, <1>5, <1>6, <1>7, <1>8, <1>9, <1>10
     DEF Next, Proceed, Fetch

\* The call that holds the mutex is alone between lock and return.
LEMMA OneLocked ==
  ASSUME TypeOK, NEW c \in Callers, NEW d \in Callers,
         pc[c] \in Locked, pc[d] \in Locked
  PROVE  c = d
BY DEF TypeOK

LEMMA NextIInv ==
  ASSUME IInv, [Next]_vars
  PROVE  IInv'
<1> USE DEF IInv, TypeOK, Goto
<1> DEFINE Rest == FetchIsNeeded /\ NewestInv /\ ReturnInv
<1>1. CASE Tick
  BY <1>1, TokenAssumption, NextTypeOK
     DEF Tick, FetchIsNeeded, Fetching, MustFetch, NewestInv, ReturnInv
<1>2. ASSUME NEW c \in Callers, Call(c) \/ Lock(c) \/ FetchThrows(c)
      PROVE  Rest'
  BY <1>2 DEF Call, Lock, FetchThrows, FetchIsNeeded, Fetching, MustFetch,
              NewestInv, ReturnInv
<1>3. ASSUME NEW c \in Callers, Check(c) PROVE Rest'
  BY <1>3 DEF Check, FetchIsNeeded, Fetching, MustFetch, NewestInv, ReturnInv
<1>4. ASSUME NEW c \in Callers, Issue(c) PROVE Rest'
  <2>1. \A d \in Callers : pc[d] \in Locked => d = c
    BY <1>4, OneLocked DEF Issue, Locked
  <2> QED
    BY <1>4, <2>1, TokenAssumption
       DEF Issue, FetchIsNeeded, Fetching, MustFetch, NewestInv, ReturnInv,
           Locked
<1>5. ASSUME NEW c \in Callers, Store(c) \/ FetchFails(c) PROVE Rest'
  <2>1. \A d \in Callers : pc[d] \in Locked => d = c
    BY <1>5, OneLocked DEF Store, FetchFails, Locked
  <2>2. \A d \in Callers : ~Fetching(d)'
    BY <1>5, <2>1 DEF Store, FetchFails, Fetching, Locked
  <2>3. CASE Store(c)
    BY <2>1, <2>2, <2>3, TokenAssumption
       DEF Store, FetchIsNeeded, Fetching, NewestInv, ReturnInv, Locked
  <2>4. CASE FetchFails(c)
    BY <2>1, <2>2, <2>4, TokenAssumption
       DEF FetchFails, FetchIsNeeded, Fetching, NewestInv, ReturnInv, Locked
  <2> QED  BY <1>5, <2>3, <2>4
<1>6. ASSUME NEW c \in Callers, Return(c) PROVE Rest'
  BY <1>6, TokenAssumption
     DEF Return, FetchIsNeeded, Fetching, MustFetch, NewestInv, ReturnInv
<1>7. CASE UNCHANGED vars
  BY <1>7 DEF vars, FetchIsNeeded, Fetching, MustFetch, NewestInv, ReturnInv
<1>8. TypeOK'
  BY NextTypeOK
<1> QED
  BY <1>1, <1>2, <1>3, <1>4, <1>5, <1>6, <1>7, <1>8 DEF Next, Proceed, Fetch

LEMMA Invariance == Spec => []IInv
BY InitIInv, NextIInv, PTL DEF Spec

\* token_mutex makes the test of the cache and the fetch one step: nobody
\* refreshes the token while a call is fetching.
THEOREM FetchesAreNeeded == Spec => []FetchIsNeeded
BY Invariance, PTL DEF IInv

\* No call returns a token older than one that was returned before.
THEOREM TokensNeverGoBack == Spec => NeverAnOlderToken
<1>1. IInv =>
        \A c \in Callers :
          Return(c) /\ access_token # 0 => access_token >= newest
  BY DEF IInv, NewestInv
<1> QED  BY <1>1, Invariance, PTL DEF NeverAnOlderToken

\* An empty token is returned only by the call whose fetch failed.
THEOREM FailuresAreNotCached == Spec => FailureIsNotCached
<1>1. IInv =>
        \A c \in Callers :
          Return(c) /\ access_token = 0 => fetched[c] = "failed"
  BY DEF IInv, ReturnInv, Return
<1> QED  BY <1>1, Invariance, PTL DEF FailureIsNotCached
=============================================================================
