----------------------------- MODULE TokenManager -----------------------------
(***************************************************************************)
(* TokenManager (token_manager.cpp): one access token cached for all       *)
(* threads, fetched again when it is missing or older than 59 minutes.     *)
(* token_mutex is held during the whole call, the fetch included.          *)
(*                                                                         *)
(* A token is the serial number the server gave it; 0 is the empty string. *)
(***************************************************************************)
EXTENDS Naturals

CONSTANTS
  Callers,    \* the threads that call getAccessToken
  NoCaller,   \* token_mutex is free
  Lifetime,   \* the 59 minutes, in ticks of the clock
  MaxTime,    \* bound: the clock stops here
  MaxTokens   \* bound: tokens the server issues

ASSUME TokenAssumption ==
  /\ NoCaller \notin Callers
  /\ Lifetime \in Nat /\ MaxTime \in Nat /\ MaxTokens \in Nat

VARIABLES
  now,          \* steady_clock
  access_token, \* the member variable
  expiry_time,  \* the member variable
  token_mutex,  \* who holds it
  pc,           \* where each caller is in getAccessToken
  readBuffer,   \* the token in the reply to a caller's fetch, or 0
  fetched,      \* how the caller's fetch ended: "no" fetch, "ok", "failed"
  issued,       \* history: tokens issued by the server
  newest        \* history: the newest token any call has returned

vars == <<now, access_token, expiry_time, token_mutex, pc, readBuffer,
          fetched, issued, newest>>

\* expiry_time starts at the clock's epoch.
Init ==
  /\ now = 0 /\ access_token = 0 /\ expiry_time = 0
  /\ token_mutex = NoCaller
  /\ pc = [c \in Callers |-> "idle"]
  /\ readBuffer = [c \in Callers |-> 0]
  /\ fetched = [c \in Callers |-> "no"]
  /\ issued = 0 /\ newest = 0

Goto(c, l) == pc' = [pc EXCEPT ![c] = l]

-----------------------------------------------------------------------------
Call(c) ==
  /\ pc[c] = "idle"
  /\ Goto(c, "lock")
  /\ fetched' = [fetched EXCEPT ![c] = "no"]
  /\ UNCHANGED <<now, access_token, expiry_time, token_mutex, readBuffer,
                 issued, newest>>

NoExclusion == TRUE            \* mutant: no lock_guard
MutexFree == token_mutex = NoCaller

\* The destructor of lock_guard, however the call ends.
KeepLocked == UNCHANGED token_mutex  \* mutant: the mutex stays locked
Unlock == token_mutex' = NoCaller

Lock(c) ==
  /\ pc[c] = "lock" /\ MutexFree
  /\ token_mutex' = c
  /\ Goto(c, "check")
  /\ UNCHANGED <<now, access_token, expiry_time, readBuffer, fetched, issued,
                 newest>>

\* now() > expiry_time || access_token.empty()
OnlyExpired == now > expiry_time  \* mutant: an empty token is kept
MustFetch == now > expiry_time \/ access_token = 0

Check(c) ==
  /\ pc[c] = "check"
  /\ Goto(c, IF MustFetch THEN "fetch" ELSE "return")
  /\ UNCHANGED <<now, access_token, expiry_time, token_mutex, readBuffer,
                 fetched, issued, newest>>

\* External: the server answers the fetch with a new token.
Issue(c) ==
  /\ pc[c] = "fetch" /\ issued < MaxTokens
  /\ issued' = issued + 1
  /\ readBuffer' = [readBuffer EXCEPT ![c] = issued']
  /\ Goto(c, "store")
  /\ UNCHANGED <<now, access_token, expiry_time, token_mutex, fetched, newest>>

Renew == expiry_time' = now + Lifetime

\* access_token = fetchAccessToken(); expiry_time = now() + minutes(59)
Store(c) ==
  /\ pc[c] = "store"
  /\ access_token' = readBuffer[c]
  /\ Renew
  /\ fetched' = [fetched EXCEPT ![c] = "ok"]
  /\ Goto(c, "return")
  /\ UNCHANGED <<now, token_mutex, readBuffer, issued, newest>>

\* curl_easy_init or curl_easy_perform fails, or the reply has no "result":
\* the fetch yields "", which is stored like a token.
FetchFails(c) ==
  /\ pc[c] = "fetch"
  /\ access_token' = 0
  /\ Renew
  /\ fetched' = [fetched EXCEPT ![c] = "failed"]
  /\ Goto(c, "return")
  /\ UNCHANGED <<now, token_mutex, readBuffer, issued, newest>>

\* json::parse or the conversion of "access_token" throws: the call ends by
\* the exception, lock_guard unlocks, nothing was assigned.
FetchThrows(c) ==
  /\ pc[c] = "fetch"
  /\ Unlock
  /\ Goto(c, "idle")
  /\ UNCHANGED <<now, access_token, expiry_time, readBuffer, fetched, issued,
                 newest>>

Return(c) ==
  /\ pc[c] = "return"
  /\ newest' = IF access_token > newest THEN access_token ELSE newest
  /\ Unlock
  /\ Goto(c, "idle")
  /\ UNCHANGED <<now, access_token, expiry_time, readBuffer, fetched, issued>>

\* Time passes, also during a fetch: it has no time limit.
Tick ==
  /\ now < MaxTime
  /\ now' = now + 1
  /\ UNCHANGED <<access_token, expiry_time, token_mutex, pc, readBuffer,
                 fetched, issued, newest>>

-----------------------------------------------------------------------------
Fetch(c) == Issue(c) \/ FetchFails(c) \/ FetchThrows(c)
Proceed(c) == Lock(c) \/ Check(c) \/ Store(c) \/ Return(c)

Next == Tick \/ \E c \in Callers : Call(c) \/ Proceed(c) \/ Fetch(c)

Spec == Init /\ [][Next]_vars

\* Threads that can run do.  Nothing is assumed of a fetch, which sets no
\* CURLOPT_TIMEOUT, and nothing of the order in which the mutex is granted.
FairSpec == Spec /\ \A c \in Callers : WF_vars(Proceed(c))

-----------------------------------------------------------------------------
Fetching(c) == pc[c] \in {"fetch", "store"}
Locked == {"check", "fetch", "store", "return"}

\* Every variable has its type, and token_mutex is held exactly by the call
\* that is past its lock_guard.
TypeOK ==
  /\ now \in 0 .. MaxTime
  /\ access_token \in 0 .. MaxTokens
  /\ expiry_time \in 0 .. MaxTime + Lifetime
  /\ token_mutex \in Callers \cup {NoCaller}
  /\ pc \in [Callers -> {"idle", "lock"} \cup Locked]
  /\ readBuffer \in [Callers -> 0 .. MaxTokens]
  /\ fetched \in [Callers -> {"no", "ok", "failed"}]
  /\ issued \in 0 .. MaxTokens
  /\ newest \in 0 .. MaxTokens
  /\ \A c \in Callers : pc[c] \in Locked <=> token_mutex = c

\* As long as a call fetches, the cached token remains missing or expired: no
\* other call refreshes it meanwhile, so a token in use is never fetched for
\* a second time and never replaced by an older one.
FetchIsNeeded == \A c \in Callers : Fetching(c) => MustFetch

\* Tokens never go back: a call does not return an older token than another
\* call has returned before it.
NeverAnOlderToken ==
  [][\A c \in Callers :
       Return(c) /\ access_token # 0 => access_token >= newest]_vars

\* A failed fetch is not cached although it sets expiry_time: a call returns
\* the empty token only if its own fetch failed.
FailureIsNotCached ==
  [][\A c \in Callers :
       Return(c) /\ access_token = 0 => fetched[c] = "failed"]_vars

\* Only a fetch that never ends keeps token_mutex locked: if every fetch ends,
\* by a token, a failure or an exception, the mutex always comes free again.
LockedOnlyByHungFetch ==
  (\A c \in Callers : Fetching(c) ~> ~Fetching(c))
    => []<>(token_mutex = NoCaller)
=============================================================================
