------------------------- MODULE WebSocketServerProofs -------------------------
(***************************************************************************)
(* Proofs about WebSocketServer and MarketDataFeed, for any number of      *)
(* connections, messages and updates: which connections m_subscriptions    *)
(* has an entry for; the server of the feed is WebSocketServer; clients    *)
(* neither lose nor repeat an update.                                      *)
(***************************************************************************)
EXTENDS MarketDataFeed, FiniteSetTheorems, TLAPS

\* The entry of a connection is there from the end of on_open to the end of
\* on_close, whatever the detached threads do.
Subscribed ==
  \A c \in Connections :
    link[c] \in {"open", "closed"} /\ io # [at |-> "opening", conn |-> c]
      => c \in m_subscriptions

\* A loop has ended only after on_close.
LeftIsOver == \A m \in Messages : pc[m] = "left" => link[of[m]] \in Over

\* Every other entry was made by a late thread.
NothingStale ==
  /\ \A k \in m_subscriptions :
       (k \in Connections /\ link[k] \in {"open", "closed"}) \/ MadeLate(k)
  /\ \A m \in late : Started(m)

IInv == TypeOK /\ Subscribed /\ LeftIsOver /\ NothingStale

-----------------------------------------------------------------------------
(* The initial states.                                                     *)

LEMMA InitIInv == Init => IInv
<1> SUFFICES ASSUME Init PROVE IInv
  OBVIOUS
<1> USE DEF Init
<1>1. TypeOK  BY DEF TypeOK, Idle, Over, Started
<1>2. Subscribed  BY DEF Subscribed
<1>3. LeftIsOver /\ NothingStale  BY DEF LeftIsOver, NothingStale
<1> QED  BY <1>1, <1>2, <1>3 DEF IInv

-----------------------------------------------------------------------------
(* The handlers and what ends a connection.                                *)

LEMMA OnOpenIInv ==
  ASSUME IInv, NEW c \in Connections, OnOpen(c), raced' \in BOOLEAN
  PROVE  IInv'
<1> USE DEF IInv, OnOpen, HandlerEnters, HandlerFree
<1>1. TypeOK'  BY DEF TypeOK, Idle, Over, Started
<1>2. Subscribed'  BY DEF TypeOK, Subscribed, Idle
<1>3. LeftIsOver'  BY DEF TypeOK, LeftIsOver, Over, Started
<1>4. NothingStale'  BY DEF TypeOK, NothingStale, MadeLate, Over, Started
<1> QED  BY <1>1, <1>2, <1>3, <1>4

LEMMA OpenedIInv ==
  ASSUME IInv, Opened, raced' \in BOOLEAN
  PROVE  IInv'
<1> USE ServerAssumption DEF IInv, Opened
<1>0. io = [at |-> "opening", conn |-> io.conn] /\ io.conn \in Connections
  BY DEF TypeOK, Idle
<1>1. TypeOK'  BY <1>0 DEF TypeOK, Idle, Over, Started
<1>2. Subscribed'  BY <1>0 DEF TypeOK, Subscribed, Idle
<1>3. LeftIsOver'  BY DEF LeftIsOver, Over
<1>4. NothingStale'  BY <1>0 DEF TypeOK, NothingStale, MadeLate, Over, Started
<1> QED  BY <1>1, <1>2, <1>3, <1>4

LEMMA DisconnectIInv ==
  ASSUME IInv, NEW c \in Connections, Disconnect(c), raced' \in BOOLEAN
  PROVE  IInv'
<1> USE DEF IInv, Disconnect, HandlerFree
<1>1. TypeOK'  BY DEF TypeOK, Idle, Over, Started
<1>2. Subscribed'  BY DEF TypeOK, Subscribed, Idle
<1>3. LeftIsOver'  BY DEF TypeOK, LeftIsOver, Over, Started
<1>4. NothingStale'  BY DEF TypeOK, NothingStale, MadeLate, Over, Started
<1> QED  BY <1>1, <1>2, <1>3, <1>4

LEMMA OnCloseIInv ==
  ASSUME IInv, NEW c \in Connections, OnClose(c), raced' \in BOOLEAN
  PROVE  IInv'
<1> USE DEF IInv, OnClose, HandlerEnters, HandlerFree
<1>1. TypeOK'  BY DEF TypeOK, Idle, Over, Started
<1>2. Subscribed'  BY DEF TypeOK, Subscribed, Idle
<1>3. LeftIsOver' /\ NothingStale'  BY DEF LeftIsOver, NothingStale, MadeLate, Started
<1> QED  BY <1>1, <1>2, <1>3

LEMMA ClosedIInv ==
  ASSUME IInv, Closed, raced' \in BOOLEAN
  PROVE  IInv'
<1> USE ServerAssumption DEF IInv, Closed, Erase
<1>0. io = [at |-> "closing", conn |-> io.conn] /\ io.conn \in Connections
  BY DEF TypeOK, Idle
<1>1. TypeOK'  BY <1>0 DEF TypeOK, Idle, Over, Started
<1>2. Subscribed'  BY <1>0 DEF TypeOK, Subscribed, Idle
<1>3. LeftIsOver'  BY <1>0 DEF TypeOK, LeftIsOver, Over, Started
<1>4. NothingStale'  BY <1>0 DEF TypeOK, NothingStale, MadeLate, Over, Started
<1> QED  BY <1>1, <1>2, <1>3, <1>4

LEMMA DestroyIInv ==
  ASSUME IInv, NEW c \in Connections, Destroy(c), raced' \in BOOLEAN
  PROVE  IInv'
<1> USE DEF IInv, Destroy, HandlerFree
<1>1. TypeOK'  BY DEF TypeOK, Idle, Over, Started
<1>2. Subscribed'  BY DEF TypeOK, Subscribed, Idle
<1>3. LeftIsOver'  BY DEF TypeOK, LeftIsOver, Over, Started
<1>4. NothingStale'  BY DEF TypeOK, NothingStale, MadeLate, Over, Started
<1> QED  BY <1>1, <1>2, <1>3, <1>4

LEMMA OnMessageIInv ==
  ASSUME IInv, NEW m \in Messages, NEW c \in Connections, OnMessage(m, c),
         raced' \in BOOLEAN
  PROVE  IInv'
<1> USE ServerAssumption DEF IInv, OnMessage, HandlerFree
<1>1. TypeOK'  BY DEF TypeOK, Idle, Over, Started
<1>2. Subscribed'  BY DEF TypeOK, Subscribed, Idle
<1>3. LeftIsOver'  BY DEF TypeOK, LeftIsOver, Over, Started
<1>4. NothingStale'  BY DEF NothingStale, MadeLate, Started
<1> QED  BY <1>1, <1>2, <1>3, <1>4

-----------------------------------------------------------------------------
(* The detached threads.                                                   *)

LEMMA SubscribeIInv ==
  ASSUME IInv, NEW m \in Messages, Subscribe(m), raced' \in BOOLEAN
  PROVE  IInv'
<1> USE DEF IInv, Subscribe, Goto
<1>0. of[m] \in Connections /\ link[of[m]] # "none"
  BY DEF TypeOK, Started
<1>1. TypeOK'  BY <1>0 DEF TypeOK, Key, Over, Started
<1>2. Subscribed'  BY DEF Subscribed
<1>3. LeftIsOver'  BY DEF TypeOK, LeftIsOver
<1>4. NothingStale'
  <2>1. /\ \A k \in m_subscriptions : MadeLate(k) => MadeLate(k)'
        /\ \A n \in late' : Started(n)'
    BY DEF TypeOK, NothingStale, MadeLate, Started
  <2>2. CASE link[of[m]] \in {"open", "closed"}
    <3>1. Key(of[m]) = of[m]  BY <2>2 DEF Key
    <3> QED  BY <1>0, <2>1, <2>2, <3>1 DEF NothingStale
  <2>3. CASE link[of[m]] \in Over
    <3>1. m \in late'  BY <2>3 DEF Over
    <3>2. \E n \in late' :
            \/ Key(of[m]) = of[n]
            \/ Key(of[m]) = Expired /\ link[of[n]] = "gone"
      BY <3>1 DEF Key
    <3>3. MadeLate(Key(of[m]))'  BY <3>2 DEF MadeLate, Key
    <3> QED  BY <2>1, <3>3 DEF NothingStale, Key
  <2> QED  BY <1>0, <2>2, <2>3 DEF TypeOK
<1> QED  BY <1>1, <1>2, <1>3, <1>4

LEMMA LoopIInv ==
  ASSUME IInv, NEW m \in Messages, Loop(m), raced' \in BOOLEAN
  PROVE  IInv'
<1> USE DEF IInv, Loop, Goto
<1>0. of[m] \in Connections /\ link[of[m]] # "none"
      /\ io # [at |-> "opening", conn |-> of[m]]
  BY DEF TypeOK, Started
<1>1. TypeOK'  BY <1>0 DEF TypeOK, Over, Started
<1>2. Subscribed'  BY DEF Subscribed
<1>3. LeftIsOver'
  <2>1. ~Count(of[m]) => link[of[m]] \in Over
    BY <1>0 DEF TypeOK, Count, Key, Subscribed, Over
  <2> QED  BY <2>1 DEF TypeOK, LeftIsOver
<1>4. NothingStale'  BY DEF NothingStale, MadeLate, Started
<1> QED  BY <1>1, <1>2, <1>3, <1>4

\* The steps of a thread that leave the map alone.
LEMMA OtherThreadStepIInv ==
  ASSUME IInv, NEW m \in Messages, Parse(m) \/ GetOrderBook(m) \/ Send(m),
         raced' \in BOOLEAN
  PROVE  IInv'
<1> USE DEF IInv, Parse, GetOrderBook, Send, Goto, EndProcess
<1>1. TypeOK'  BY DEF TypeOK, Over, Started
<1>2. Subscribed'  BY DEF Subscribed
<1>3. LeftIsOver'  BY DEF TypeOK, LeftIsOver
<1>4. NothingStale'
  <2>1. UNCHANGED <<link, m_subscriptions, of, late>>  OBVIOUS
  <2>2. \A n \in late : Started(n)'
    BY DEF TypeOK, NothingStale, Started
  <2> QED  BY <2>1, <2>2 DEF NothingStale, MadeLate
<1> QED  BY <1>1, <1>2, <1>3, <1>4

-----------------------------------------------------------------------------
LEMMA StutterIInv == ASSUME IInv, UNCHANGED vars PROVE IInv'
BY DEF IInv, vars, TypeOK, Subscribed, LeftIsOver, NothingStale, MadeLate,
       Over, Started

LEMMA NextIInv == ASSUME IInv, [Next]_vars PROVE IInv'
<1> SUFFICES ASSUME Next PROVE IInv'
  BY StutterIInv
<1>0. raced' \in BOOLEAN  BY DEF Next, Step, Collision
<1>1. ASSUME NEW c \in Connections,
             OnOpen(c) \/ Disconnect(c) \/ OnClose(c) \/ Destroy(c)
      PROVE  IInv'
  BY <1>0, <1>1, OnOpenIInv, DisconnectIInv, OnCloseIInv, DestroyIInv
<1>2. ASSUME NEW m \in Messages, NEW c \in Connections, OnMessage(m, c)
      PROVE  IInv'
  BY <1>0, <1>2, OnMessageIInv
<1>3. ASSUME HandlerEnds PROVE IInv'
  BY <1>0, <1>3, OpenedIInv, ClosedIInv DEF HandlerEnds
<1>4. ASSUME NEW m \in Messages, ThreadStep(m) PROVE IInv'
  BY <1>0, <1>4, SubscribeIInv, LoopIInv, OtherThreadStepIInv DEF ThreadStep
<1> QED  BY <1>1, <1>2, <1>3, <1>4 DEF Next, Step

LEMMA AlwaysIInv == Spec => []IInv
BY InitIInv, NextIInv, PTL DEF Spec

\* Types, the handler inside the map, and the connection of every thread.
THEOREM TypeCorrect == Spec => []TypeOK
<1>1. IInv => TypeOK  BY DEF IInv
<1> QED  BY AlwaysIInv, <1>1, PTL

\* A client gets updates as long as it is connected.
THEOREM ServedUntilClose == Spec => []UpdatesUntilClose
<1>1. IInv => UpdatesUntilClose  BY DEF IInv, LeftIsOver, UpdatesUntilClose
<1> QED  BY AlwaysIInv, <1>1, PTL

\* What on_close has erased comes back only through a late thread.
THEOREM ErasedStaysErased == Spec => []StaleOnlyByLate
<1>1. IInv => StaleOnlyByLate
  BY DEF IInv, NothingStale, StaleOnlyByLate, Over
<1> QED  BY AlwaysIInv, <1>1, PTL

-----------------------------------------------------------------------------
(* MarketDataFeed.                                                         *)

Update_ == [nth : Nat, reads : {"well", "ill"}]

FeedTypeOK ==
  /\ sent \in [Connections -> Seq(Update_)]
  /\ channel \in [Connections -> Seq(Update_)]
  /\ displayed \in [Connections -> Seq(Update_)]
  /\ handling \in [Connections -> SUBSET Update_]
  /\ dropped \in [Connections -> SUBSET Update_]
  /\ \A c \in Connections : IsFiniteSet(handling[c]) /\ IsFiniteSet(dropped[c])
  /\ IsFiniteSet(AllSent)

\* No update is sent twice: the numbers sent so far are at most their count.
SentOnce ==
  /\ \A c \in Connections : \A k \in DOMAIN sent[c] : sent[c][k].nth <= Updates
  /\ \A c \in Connections : \A i, j \in DOMAIN sent[c] :
       sent[c][i] = sent[c][j] => i = j

\* What a client has dropped was read ill and is in no hands any more.
DroppedRight ==
  \A c \in Connections :
    /\ \A u \in dropped[c] : u.reads = "ill"
    /\ handling[c] \cap dropped[c] = {}

FeedInv == IInv /\ FeedTypeOK /\ SentOnce /\ DroppedRight /\ NothingLost

-----------------------------------------------------------------------------
(* Sequences.                                                              *)

LEMMA SeqFacts ==
  ASSUME NEW S, NEW q \in Seq(S)
  PROVE  Len(q) \in Nat /\ DOMAIN q = 1 .. Len(q) /\ \A k \in DOMAIN q : q[k] \in S
OBVIOUS

LEMMA AppendFacts ==
  ASSUME NEW S, NEW q \in Seq(S), NEW e \in S
  PROVE  /\ Append(q, e) \in Seq(S)
         /\ Len(Append(q, e)) = Len(q) + 1
         /\ \A k \in 1 .. Len(q) : Append(q, e)[k] = q[k]
         /\ Append(q, e)[Len(q) + 1] = e
         /\ Range(Append(q, e)) = Range(q) \cup {e}
<1>1. /\ Append(q, e) \in Seq(S) /\ Len(q) \in Nat
      /\ Len(Append(q, e)) = Len(q) + 1
      /\ \A k \in 1 .. Len(q) : Append(q, e)[k] = q[k]
      /\ Append(q, e)[Len(q) + 1] = e
      /\ DOMAIN q = 1 .. Len(q) /\ DOMAIN Append(q, e) = 1 .. Len(q) + 1
  OBVIOUS
<1>2. Range(Append(q, e)) = Range(q) \cup {e}
  <2>1. \A k \in DOMAIN Append(q, e) : k \in DOMAIN q \/ k = Len(q) + 1
    BY <1>1
  <2>2. Range(Append(q, e)) \subseteq Range(q) \cup {e}
    BY <1>1, <2>1 DEF Range
  <2>3. Range(q) \cup {e} \subseteq Range(Append(q, e))
    <3>1. \A k \in DOMAIN q : k \in DOMAIN Append(q, e)  BY <1>1
    <3>2. Len(q) + 1 \in DOMAIN Append(q, e)  BY <1>1
    <3> QED  BY <1>1, <3>1, <3>2 DEF Range
  <2> QED  BY <2>2, <2>3
<1> QED  BY <1>1, <1>2

LEMMA TailFacts ==
  ASSUME NEW S, NEW q \in Seq(S), q # <<>>
  PROVE  /\ Len(q) > 0 /\ Head(q) = q[1]
         /\ Tail(q) \in Seq(S) /\ Len(Tail(q)) = Len(q) - 1
         /\ \A k \in 1 .. Len(q) - 1 : Tail(q)[k] = q[k + 1]
OBVIOUS

-----------------------------------------------------------------------------
(* The server of the feed is WebSocketServer.                              *)

LEMMA InitFeedInv == InitFeed => FeedInv
<1> SUFFICES ASSUME InitFeed PROVE FeedInv
  OBVIOUS
<1>1. IInv  BY InitIInv DEF InitFeed
<1>2. AllSent = {}  BY DEF InitFeed, AllSent, Range
<1>3. FeedTypeOK  BY <1>2, FS_EmptySet DEF InitFeed, FeedTypeOK
<1>4. SentOnce  BY DEF InitFeed, SentOnce
<1>5. NothingLost
  <2> SUFFICES ASSUME NEW c \in Connections
               PROVE  /\ Range(displayed[c]) \cup handling[c] \cup dropped[c]
                           = {sent[c][k] : k \in 1 .. 0}
                      /\ Len(displayed[c]) + Cardinality(handling[c])
                           + Cardinality(dropped[c]) = 0
    BY DEF InitFeed, NothingLost
  <2>1. 1 .. 0 = {}  OBVIOUS
  <2> QED  BY <2>1, FS_EmptySet DEF InitFeed, Range
<1>6. DroppedRight  BY DEF InitFeed, DroppedRight
<1> QED  BY <1>1, <1>3, <1>4, <1>5, <1>6 DEF FeedInv

LEMMA FeedStepIsServerStep == [NextFeed]_allVars => [Next]_vars
<1> SUFFICES ASSUME NextFeed PROVE Next \/ UNCHANGED vars
  BY DEF allVars
<1>1. ASSUME NEW m \in Messages, ServerThread(m) PROVE Next
  <2>1. Step(Send(m)) \/ Step(GetOrderBook(m))
        \/ Step(Parse(m) \/ Subscribe(m) \/ Loop(m))
    BY <1>1 DEF ServerThread, SendUpdate, FetchUpdate
  <2>2. Step(ThreadStep(m))  BY <2>1 DEF Step, ThreadStep
  <2> QED  BY <2>2 DEF Next
<1>2. ASSUME ServerHandlers PROVE Next
  BY <1>2 DEF ServerHandlers, Next, Step
<1>3. ASSUME NEW c \in Connections,
             OnReceive(c) \/ ClientThread(c) \/ ClientEnds(c)
      PROVE  UNCHANGED vars
  BY <1>3 DEF OnReceive, ClientThread, DisplayOrderBook, CatchException, ClientEnds
<1> QED  BY <1>1, <1>2, <1>3 DEF NextFeed

-----------------------------------------------------------------------------
(* What NothingLost says of one client, who has received r updates: sq was *)
(* sent, ch is on its way, ds displayed, hs in the hands of threads and xs *)
(* dropped.                                                                *)

Delivered(sq, ch, ds, hs, xs, r) ==
  /\ Len(sq) = r + Len(ch)
  /\ \A k \in DOMAIN ch : ch[k] = sq[r + k]
  /\ Range(ds) \cup hs \cup xs = {sq[k] : k \in 1 .. r}
  /\ Len(ds) + Cardinality(hs) + Cardinality(xs) = r

LEMMA DeliveredIsReceived ==
  ASSUME NEW S, NEW sq \in Seq(S), NEW ch \in Seq(S), NEW ds \in Seq(S),
         NEW hs, IsFiniteSet(hs), NEW xs, IsFiniteSet(xs)
  PROVE  (/\ \A k \in DOMAIN ch : ch[k] = sq[(Len(sq) - Len(ch)) + k]
          /\ Range(ds) \cup hs \cup xs = {sq[k] : k \in 1 .. Len(sq) - Len(ch)}
          /\ Len(ds) + Cardinality(hs) + Cardinality(xs) = Len(sq) - Len(ch))
         <=> \E r \in Nat : Delivered(sq, ch, ds, hs, xs, r)
<1> DEFINE r0 == Len(sq) - Len(ch)
<1>1. Len(sq) \in Nat /\ Len(ch) \in Nat /\ Len(ds) \in Nat
      /\ Cardinality(hs) \in Nat /\ Cardinality(xs) \in Nat
  BY SeqFacts, FS_CardinalityType
<1>2. ASSUME Len(ds) + Cardinality(hs) + Cardinality(xs) = r0
      PROVE  r0 \in Nat /\ Len(sq) = r0 + Len(ch)
  BY <1>1, <1>2
<1>3. ASSUME NEW r \in Nat, Len(sq) = r + Len(ch) PROVE r = r0
  BY <1>1, <1>3
<1> HIDE DEF r0
<1>4. (/\ \A k \in DOMAIN ch : ch[k] = sq[r0 + k]
       /\ Range(ds) \cup hs \cup xs = {sq[k] : k \in 1 .. r0}
       /\ Len(ds) + Cardinality(hs) + Cardinality(xs) = r0)
      => Delivered(sq, ch, ds, hs, xs, r0)
  BY <1>2 DEF Delivered
<1>5. ASSUME NEW r \in Nat, Delivered(sq, ch, ds, hs, xs, r)
      PROVE  /\ \A k \in DOMAIN ch : ch[k] = sq[r0 + k]
             /\ Range(ds) \cup hs \cup xs = {sq[k] : k \in 1 .. r0}
             /\ Len(ds) + Cardinality(hs) + Cardinality(xs) = r0
  BY <1>3, <1>5 DEF Delivered
<1>6. (/\ \A k \in DOMAIN ch : ch[k] = sq[r0 + k]
       /\ Range(ds) \cup hs \cup xs = {sq[k] : k \in 1 .. r0}
       /\ Len(ds) + Cardinality(hs) + Cardinality(xs) = r0)
      <=> \E r \in Nat : Delivered(sq, ch, ds, hs, xs, r)
  BY <1>2, <1>4, <1>5
<1> QED  BY <1>6 DEF r0

\* The server sends e.
LEMMA DeliveredSend ==
  ASSUME NEW S, NEW sq \in Seq(S), NEW ch \in Seq(S), NEW ds, NEW hs, NEW xs,
         NEW e \in S, NEW r \in Nat, Delivered(sq, ch, ds, hs, xs, r)
  PROVE  Delivered(Append(sq, e), Append(ch, e), ds, hs, xs, r)
<1> DEFINE sq1 == Append(sq, e)
           ch1 == Append(ch, e)
<1>1. /\ Len(sq) \in Nat /\ Len(ch) \in Nat /\ Len(sq) = r + Len(ch)
      /\ DOMAIN ch = 1 .. Len(ch)
  BY SeqFacts DEF Delivered
<1>2. /\ Len(sq1) = Len(sq) + 1 /\ Len(ch1) = Len(ch) + 1
      /\ DOMAIN ch1 = 1 .. Len(ch) + 1
      /\ \A k \in 1 .. Len(sq) : sq1[k] = sq[k]
      /\ \A k \in 1 .. Len(ch) : ch1[k] = ch[k]
      /\ sq1[Len(sq) + 1] = e /\ ch1[Len(ch) + 1] = e
  <2>1. ch1 \in Seq(S)  BY AppendFacts
  <2> QED  BY <2>1, AppendFacts, SeqFacts
<1> HIDE DEF sq1, ch1
<1>3. ASSUME NEW k \in DOMAIN ch1 PROVE ch1[k] = sq1[r + k]
  <2>1. CASE k = Len(ch) + 1
    <3>1. r + k = Len(sq) + 1  BY <2>1, <1>1
    <3> QED  BY <3>1, <2>1, <1>2
  <2>2. CASE k \in 1 .. Len(ch)
    <3>1. r + k \in 1 .. Len(sq)  BY <2>2, <1>1
    <3>2. ch[k] = sq[r + k]  BY <2>2, <1>1 DEF Delivered
    <3> QED  BY <3>1, <3>2, <2>2, <1>2
  <2> QED  BY <2>1, <2>2, <1>1, <1>2
<1>4. {sq1[k] : k \in 1 .. r} = {sq[k] : k \in 1 .. r}
  <2>1. \A k \in 1 .. r : k \in 1 .. Len(sq)  BY <1>1
  <2>2. \A k \in 1 .. r : sq1[k] = sq[k]  BY <2>1, <1>2
  <2> QED  BY <2>2
<1>5. Len(sq1) = r + Len(ch1)  BY <1>1, <1>2
<1>6. Delivered(sq1, ch1, ds, hs, xs, r)  BY <1>3, <1>4, <1>5 DEF Delivered
<1> QED  BY <1>6 DEF sq1, ch1

\* A thread of the client gets the first update on its way.
LEMMA DeliveredReceive ==
  ASSUME NEW S, NEW sq \in Seq(S), NEW ch \in Seq(S), NEW ds \in Seq(S), NEW hs,
         IsFiniteSet(hs), NEW xs, IsFiniteSet(xs), NEW r \in Nat,
         Delivered(sq, ch, ds, hs, xs, r), ch # <<>>,
         \A i, j \in DOMAIN sq : sq[i] = sq[j] => i = j
  PROVE  /\ Delivered(sq, Tail(ch), ds, hs \cup {Head(ch)}, xs, r + 1)
         /\ Head(ch) \notin xs
<1> DEFINE ch1 == Tail(ch)
           e == Head(ch)
<1>1. /\ Len(sq) \in Nat /\ Len(ch) \in Nat /\ Len(ch) > 0 /\ Len(ds) \in Nat
      /\ Len(sq) = r + Len(ch)
      /\ DOMAIN ch = 1 .. Len(ch) /\ DOMAIN sq = 1 .. Len(sq)
  BY SeqFacts, TailFacts DEF Delivered
<1>2. /\ e = ch[1] /\ Len(ch1) = Len(ch) - 1 /\ DOMAIN ch1 = 1 .. Len(ch) - 1
      /\ \A k \in 1 .. Len(ch) - 1 : ch1[k] = ch[k + 1]
  <2>1. ch1 \in Seq(S)  BY TailFacts
  <2> QED  BY <2>1, TailFacts, SeqFacts
<1> HIDE DEF ch1, e
<1>3. e = sq[r + 1] /\ r + 1 \in DOMAIN sq
  <2>1. 1 \in DOMAIN ch /\ r + 1 \in DOMAIN sq  BY <1>1
  <2> QED  BY <2>1, <1>2 DEF Delivered
<1>4. e \notin hs \cup xs
  <2>1. \A k \in 1 .. r : k \in DOMAIN sq /\ k # r + 1  BY <1>1
  <2>2. \A k \in 1 .. r : sq[k] # sq[r + 1]  BY <2>1, <1>3
  <2>3. e \notin {sq[k] : k \in 1 .. r}  BY <2>2, <1>3
  <2> QED  BY <2>3 DEF Delivered
<1>5. ASSUME NEW k \in DOMAIN ch1 PROVE ch1[k] = sq[(r + 1) + k]
  <2>1. k + 1 \in DOMAIN ch /\ r + (k + 1) = (r + 1) + k  BY <1>1, <1>2
  <2>2. ch[k + 1] = sq[r + (k + 1)]  BY <2>1 DEF Delivered
  <2> QED  BY <2>1, <2>2, <1>2
<1>6. Range(ds) \cup (hs \cup {e}) \cup xs = {sq[k] : k \in 1 .. r + 1}
  <2>1. \A k : k \in 1 .. r + 1 <=> k \in 1 .. r \/ k = r + 1
    OBVIOUS
  <2>2. {sq[k] : k \in 1 .. r + 1} = {sq[k] : k \in 1 .. r} \cup {sq[r + 1]}
    BY <2>1
  <2> QED  BY <2>2, <1>3 DEF Delivered
<1>7. /\ Cardinality(hs \cup {e}) = Cardinality(hs) + 1
      /\ Cardinality(hs) \in Nat /\ Cardinality(xs) \in Nat
  BY <1>4, FS_AddElement, FS_CardinalityType
<1>8. Len(ds) + Cardinality(hs \cup {e}) + Cardinality(xs) = r + 1
  <2>1. Len(ds) + Cardinality(hs) + Cardinality(xs) = r  BY DEF Delivered
  <2> QED  BY <2>1, <1>1, <1>7
<1>9. Len(sq) = (r + 1) + Len(ch1)  BY <1>1, <1>2
<1>10. Delivered(sq, ch1, ds, hs \cup {e}, xs, r + 1)
  BY <1>5, <1>6, <1>8, <1>9 DEF Delivered
<1> QED  BY <1>4, <1>10 DEF ch1, e

\* A thread of the client displays u.
LEMMA DeliveredDisplay ==
  ASSUME NEW S, NEW sq, NEW ch, NEW ds \in Seq(S), NEW hs, IsFiniteSet(hs),
         NEW xs, IsFiniteSet(xs), NEW u \in S, u \in hs, NEW r \in Nat,
         Delivered(sq, ch, ds, hs, xs, r)
  PROVE  Delivered(sq, ch, Append(ds, u), hs \ {u}, xs, r)
<1>1. /\ Len(Append(ds, u)) = Len(ds) + 1 /\ Len(ds) \in Nat
      /\ Range(Append(ds, u)) = Range(ds) \cup {u}
  BY AppendFacts, SeqFacts
<1>2. /\ Cardinality(hs \ {u}) = Cardinality(hs) - 1
      /\ Cardinality(hs) \in Nat /\ Cardinality(xs) \in Nat
  BY FS_RemoveElement, FS_CardinalityType
<1>3. Range(Append(ds, u)) \cup (hs \ {u}) \cup xs = Range(ds) \cup hs \cup xs
  BY <1>1
<1>4. Len(Append(ds, u)) + Cardinality(hs \ {u}) + Cardinality(xs)
        = Len(ds) + Cardinality(hs) + Cardinality(xs)
  BY <1>1, <1>2
<1> QED  BY <1>3, <1>4 DEF Delivered

\* A thread of the client drops u.
LEMMA DeliveredDrop ==
  ASSUME NEW S, NEW sq \in Seq(S), NEW ch, NEW ds \in Seq(S),
         NEW hs, IsFiniteSet(hs), NEW xs, IsFiniteSet(xs), NEW u, u \in hs,
         NEW r \in Nat, Delivered(sq, ch, ds, hs, xs, r), u \notin xs
  PROVE  Delivered(sq, ch, ds, hs \ {u}, xs \cup {u}, r)
<1>1. /\ Cardinality(hs \ {u}) = Cardinality(hs) - 1
      /\ Cardinality(xs \cup {u}) = Cardinality(xs) + 1
      /\ Cardinality(hs) \in Nat /\ Cardinality(xs) \in Nat /\ Len(ds) \in Nat
  BY FS_RemoveElement, FS_AddElement, FS_CardinalityType, SeqFacts
<1>2. Range(ds) \cup (hs \ {u}) \cup (xs \cup {u}) = Range(ds) \cup hs \cup xs
  OBVIOUS
<1>3. Len(ds) + Cardinality(hs \ {u}) + Cardinality(xs \cup {u})
        = Len(ds) + Cardinality(hs) + Cardinality(xs)
  BY <1>1
<1> QED  BY <1>2, <1>3 DEF Delivered

-----------------------------------------------------------------------------
Received(c) ==
  \E r \in Nat : Delivered(sent[c], channel[c], displayed[c], handling[c], dropped[c], r)

LEMMA LostIsReceived ==
  /\ FeedTypeOK /\ DroppedRight =>
       (NothingLost <=> \A c \in Connections \ ended : Received(c))
  /\ FeedTypeOK' /\ DroppedRight' =>
       (NothingLost' <=> \A c \in Connections \ ended' : Received(c)')
<1>1. ASSUME FeedTypeOK, DroppedRight
      PROVE  NothingLost <=> \A c \in Connections \ ended : Received(c)
  <2>1. ASSUME NEW c \in Connections
        PROVE  (LET received == Len(sent[c]) - Len(channel[c])
                IN  /\ \A k \in DOMAIN channel[c] :
                         channel[c][k] = sent[c][received + k]
                    /\ Range(displayed[c]) \cup handling[c] \cup dropped[c]
                         = {sent[c][k] : k \in 1 .. received}
                    /\ Len(displayed[c]) + Cardinality(handling[c])
                         + Cardinality(dropped[c]) = received)
               <=> Received(c)
    BY <1>1, DeliveredIsReceived DEF FeedTypeOK, Received
  <2>2. \A c \in Connections : \A u \in dropped[c] : u.reads = "ill"
    BY <1>1 DEF DroppedRight
  <2> QED  BY <2>1, <2>2, Zenon DEF NothingLost
<1>2. ASSUME FeedTypeOK', DroppedRight'
      PROVE  NothingLost' <=> \A c \in Connections \ ended' : Received(c)'
  <2>1. ASSUME NEW c \in Connections
        PROVE  (LET received == Len(sent'[c]) - Len(channel'[c])
                IN  /\ \A k \in DOMAIN channel'[c] :
                         channel'[c][k] = sent'[c][received + k]
                    /\ Range(displayed'[c]) \cup handling'[c] \cup dropped'[c]
                         = {sent'[c][k] : k \in 1 .. received}
                    /\ Len(displayed'[c]) + Cardinality(handling'[c])
                         + Cardinality(dropped'[c]) = received)
               <=> Received(c)'
    BY <1>2, DeliveredIsReceived DEF FeedTypeOK, Received
  <2>2. \A c \in Connections : \A u \in dropped'[c] : u.reads = "ill"
    BY <1>2 DEF DroppedRight
  <2> QED  BY <2>1, <2>2, Zenon DEF NothingLost
<1> QED  BY <1>1, <1>2

LEMMA ReceivedBy ==
  ASSUME FeedInv, NEW c \in Connections \ ended PROVE Received(c)
BY LostIsReceived DEF FeedInv

LEMMA SameReceived ==
  ASSUME NEW c, Received(c), sent'[c] = sent[c], channel'[c] = channel[c],
         displayed'[c] = displayed[c], handling'[c] = handling[c],
         dropped'[c] = dropped[c]
  PROVE  Received(c)'
BY Zenon DEF Received

LEMMA UnchangedFeed ==
  ASSUME FeedInv, IInv', UNCHANGED feedVars
  PROVE  FeedInv'
<1> USE DEF feedVars
<1>0. AllSent' = AllSent /\ Updates' = Updates  BY DEF AllSent, Updates
<1>1. FeedTypeOK' /\ SentOnce' /\ DroppedRight'
  BY <1>0 DEF FeedInv, FeedTypeOK, SentOnce, DroppedRight
<1>2. ASSUME NEW c \in Connections \ ended PROVE Received(c)'
  BY ReceivedBy, SameReceived
<1>3. NothingLost'  BY <1>1, <1>2, LostIsReceived
<1> QED  BY <1>1, <1>3 DEF FeedInv

-----------------------------------------------------------------------------
(* The steps of the feed.                                                  *)

\* An update that is being sent is a new one.
LEMMA SentIsNew ==
  ASSUME FeedInv, NEW x \in {"well", "ill"}, NEW c \in Connections,
         sent' = [sent EXCEPT ![c] = Append(@, Update(x))]
  PROVE  /\ Update(x) \in Update_ /\ Update(x) \notin AllSent
         /\ sent' \in [Connections -> Seq(Update_)]
         /\ IsFiniteSet(AllSent') /\ SentOnce'
<1> DEFINE u == Update(x)
<1> USE DEF FeedInv
<1>1. Updates \in Nat  BY FS_CardinalityType DEF FeedTypeOK, AllSent, Updates
<1>2. u \in Update_ /\ u.nth = Updates + 1  BY <1>1 DEF Update, Update_
<1>3. \A d \in Connections : \A k \in DOMAIN sent[d] :
        sent[d][k] \in Update_ /\ sent[d][k].nth <= Updates
  BY SeqFacts DEF FeedTypeOK, SentOnce
<1>4. \A d \in Connections : \A k \in DOMAIN sent[d] : sent[d][k] # u
  BY <1>1, <1>2, <1>3 DEF Update_
<1>5. u \notin AllSent  BY <1>4 DEF AllSent, Range
<1>6. sent' \in [Connections -> Seq(Update_)]
  BY <1>2, AppendFacts DEF FeedTypeOK
<1>7. \A d \in Connections : d # c => sent'[d] = sent[d]
  BY DEF FeedTypeOK
<1>8. sent'[c] = Append(sent[c], u) /\ sent[c] \in Seq(Update_)
  BY DEF FeedTypeOK
<1>9. AllSent' = AllSent \cup {u}
  <2>1. Range(sent'[c]) = Range(sent[c]) \cup {u}
    BY <1>2, <1>8, AppendFacts
  <2>2. \A d \in Connections : d # c => Range(sent'[d]) = Range(sent[d])
    BY <1>7
  <2>3. AllSent' = UNION {Range(sent'[d]) : d \in Connections}
    BY DEF AllSent
  <2>4. ASSUME NEW v PROVE v \in AllSent' <=> v \in AllSent \cup {u}
    <3>1. v \in AllSent' <=> \E d \in Connections : v \in Range(sent'[d])
      BY <2>3
    <3>2. v \in AllSent <=> \E d \in Connections : v \in Range(sent[d])
      BY DEF AllSent
    <3> QED  BY <2>1, <2>2, <3>1, <3>2
  <2> QED  BY <2>4
<1>10. IsFiniteSet(AllSent') /\ Updates' = Updates + 1
  <2>1. IsFiniteSet(AllSent)  BY DEF FeedTypeOK
  <2>2. IsFiniteSet(AllSent \cup {u})
        /\ Cardinality(AllSent \cup {u}) = Cardinality(AllSent) + 1
    BY <2>1, <1>5, FS_AddElement
  <2>3. Updates = Cardinality(AllSent) /\ Updates' = Cardinality(AllSent')
    BY DEF Updates, AllSent
  <2> QED  BY <2>2, <2>3, <1>9
<1>11. SentOnce'
  <2>1. ASSUME NEW d \in Connections, d # c
        PROVE  /\ \A k \in DOMAIN sent'[d] : sent'[d][k].nth <= Updates'
               /\ \A i, j \in DOMAIN sent'[d] : sent'[d][i] = sent'[d][j] => i = j
    <3>1. sent'[d] = sent[d]  BY <1>7, <2>1
    <3>2. \A k \in DOMAIN sent[d] : sent[d][k].nth \in Nat
      BY <1>3 DEF Update_
    <3>3. \A k \in DOMAIN sent[d] : sent[d][k].nth <= Updates + 1
      BY <3>2, <1>1, <1>3
    <3>4. \A i, j \in DOMAIN sent[d] : sent[d][i] = sent[d][j] => i = j
      BY DEF SentOnce
    <3> QED  BY <3>1, <3>3, <3>4, <1>10
  <2>2. /\ \A k \in DOMAIN sent'[c] : sent'[c][k].nth <= Updates'
        /\ \A i, j \in DOMAIN sent'[c] : sent'[c][i] = sent'[c][j] => i = j
    <3> DEFINE q == sent[c]
               n == Len(q)
    <3>1. /\ n \in Nat /\ DOMAIN q = 1 .. n
          /\ DOMAIN sent'[c] = 1 .. n + 1
          /\ \A k \in 1 .. n : sent'[c][k] = q[k]
          /\ sent'[c][n + 1] = u
      BY <1>2, <1>8, AppendFacts, SeqFacts
    <3>2. \A k \in 1 .. n : q[k].nth \in Nat /\ q[k].nth <= Updates /\ q[k] # u
      BY <3>1, <1>3, <1>4 DEF Update_
    <3>3. \A k \in DOMAIN sent'[c] : sent'[c][k].nth <= Updates'
      <4> SUFFICES ASSUME NEW k \in 1 .. n + 1
                   PROVE  sent'[c][k].nth <= Updates + 1
        BY <3>1, <1>10
      <4>1. CASE k = n + 1  BY <4>1, <3>1, <1>1, <1>2
      <4>2. CASE k \in 1 .. n  BY <4>2, <3>1, <3>2, <1>1
      <4> QED  BY <3>1, <4>1, <4>2
    <3>4. \A i, j \in 1 .. n : q[i] = q[j] => i = j
      BY <3>1 DEF SentOnce
    <3>5. \A k \in DOMAIN sent'[c] : k \in 1 .. n \/ k = n + 1
      BY <3>1
    <3>6. \A i, j \in DOMAIN sent'[c] : sent'[c][i] = sent'[c][j] => i = j
      BY <3>1, <3>2, <3>4, <3>5
    <3> QED  BY <3>3, <3>6
  <2> QED  BY <2>1, <2>2 DEF SentOnce
<1> QED  BY <1>2, <1>5, <1>6, <1>10, <1>11

LEMMA ServerThreadFeedInv ==
  ASSUME FeedInv, IInv', NEW m \in Messages, ServerThread(m)
  PROVE  FeedInv'
<1>1. CASE UNCHANGED feedVars
  BY <1>1, UnchangedFeed
<1>2. CASE SendUpdate(m) /\ pc'[m] = "counting"
  <2> DEFINE c == of[m]
  <2>1. c \in Connections
    BY <1>2 DEF SendUpdate, Step, Send, FeedInv, IInv, TypeOK, Started
  <2>2. PICK x \in {"well", "ill"} :
          /\ sent' = [sent EXCEPT ![c] = Append(@, Update(x))]
          /\ channel' = IF c \in ended THEN channel
                        ELSE [channel EXCEPT ![c] = Append(@, Update(x))]
          /\ UNCHANGED <<handling, displayed, dropped, ended>>
    BY <1>2 DEF SendUpdate
  <2> DEFINE u == Update(x)
  <2> HIDE DEF c
  <2>3. /\ u \in Update_ /\ sent' \in [Connections -> Seq(Update_)]
        /\ IsFiniteSet(AllSent') /\ SentOnce'
    BY <2>1, <2>2, SentIsNew
  <2> HIDE DEF u
  <2>4. channel' \in [Connections -> Seq(Update_)]
    BY <2>1, <2>2, <2>3, AppendFacts DEF FeedInv, FeedTypeOK, u
  <2>5. FeedTypeOK' /\ DroppedRight'
    BY <2>2, <2>3, <2>4 DEF FeedInv, FeedTypeOK, DroppedRight
  <2>6. ASSUME NEW d \in Connections \ ended PROVE Received(d)'
    <3>1. CASE d # c
      <4>1. sent'[d] = sent[d] /\ channel'[d] = channel[d]
        BY <2>2, <3>1 DEF FeedInv, FeedTypeOK
      <4> QED  BY <4>1, <2>2, ReceivedBy, SameReceived
    <3>2. CASE d = c
      <4>1. /\ sent'[d] = Append(sent[d], u) /\ channel'[d] = Append(channel[d], u)
            /\ sent[d] \in Seq(Update_) /\ channel[d] \in Seq(Update_)
        BY <2>2, <3>2 DEF FeedInv, FeedTypeOK, u
      <4>2. PICK r \in Nat :
              Delivered(sent[d], channel[d], displayed[d], handling[d], dropped[d], r)
        BY ReceivedBy DEF Received
      <4>3. Delivered(sent'[d], channel'[d], displayed[d], handling[d], dropped[d], r)
        BY <4>1, <4>2, <2>3, DeliveredSend
      <4> QED  BY <4>3, <2>2 DEF Received
    <3> QED  BY <3>1, <3>2
  <2>7. NothingLost'  BY <2>2, <2>5, <2>6, LostIsReceived
  <2> QED  BY <2>3, <2>5, <2>7 DEF FeedInv
<1> QED  BY <1>1, <1>2 DEF ServerThread, SendUpdate, feedVars

LEMMA ReceiveFeedInv ==
  ASSUME FeedInv, IInv', NEW c \in Connections, OnReceive(c)
  PROVE  FeedInv'
<1> USE DEF OnReceive
<1>1. /\ sent[c] \in Seq(Update_) /\ channel[c] \in Seq(Update_)
      /\ displayed[c] \in Seq(Update_)
      /\ handling[c] \subseteq Update_ /\ IsFiniteSet(handling[c])
      /\ IsFiniteSet(dropped[c])
  BY DEF FeedInv, FeedTypeOK
<1>2. /\ channel'[c] = Tail(channel[c])
      /\ handling'[c] = handling[c] \cup {Head(channel[c])}
      /\ \A d \in Connections : d # c =>
           channel'[d] = channel[d] /\ handling'[d] = handling[d]
  BY DEF FeedInv, FeedTypeOK
<1>3. Tail(channel[c]) \in Seq(Update_) /\ Head(channel[c]) \in Update_
  <2>1. Head(channel[c]) = channel[c][1] /\ 1 \in DOMAIN channel[c]
    BY <1>1, TailFacts, SeqFacts
  <2> QED  BY <2>1, <1>1, TailFacts, SeqFacts
<1>4. FeedTypeOK'
  <2>1. channel' \in [Connections -> Seq(Update_)]
    BY <1>3 DEF FeedInv, FeedTypeOK
  <2>2. handling' \in [Connections -> SUBSET Update_]
    BY <1>1, <1>3 DEF FeedInv, FeedTypeOK
  <2>3. \A d \in Connections : IsFiniteSet(handling'[d])
    BY <1>1, <1>2, FS_AddElement DEF FeedInv, FeedTypeOK
  <2>4. AllSent' = AllSent  BY DEF AllSent
  <2> QED  BY <2>1, <2>2, <2>3, <2>4 DEF FeedInv, FeedTypeOK
<1>5. SentOnce'  BY DEF FeedInv, SentOnce, Updates, AllSent
<1>6. PICK r \in Nat :
        Delivered(sent[c], channel[c], displayed[c], handling[c], dropped[c], r)
  BY ReceivedBy DEF Received
<1>7. /\ Delivered(sent[c], channel'[c], displayed[c], handling'[c], dropped[c], r + 1)
      /\ Head(channel[c]) \notin dropped[c]
  <2>1. \A i, j \in DOMAIN sent[c] : sent[c][i] = sent[c][j] => i = j
    BY DEF FeedInv, SentOnce
  <2>2. channel[c] # <<>>  OBVIOUS
  <2>3. /\ Delivered(sent[c], Tail(channel[c]), displayed[c],
                     handling[c] \cup {Head(channel[c])}, dropped[c], r + 1)
        /\ Head(channel[c]) \notin dropped[c]
    BY <1>1, <1>6, <2>1, <2>2, DeliveredReceive
  <2> QED  BY <1>2, <2>3
<1>8. DroppedRight'
  BY <1>2, <1>7 DEF FeedInv, DroppedRight
<1>9. ASSUME NEW d \in Connections \ ended PROVE Received(d)'
  <2>1. CASE d # c
    BY <2>1, <1>2, ReceivedBy, SameReceived
  <2>2. CASE d = c
    <3>1. r + 1 \in Nat  OBVIOUS
    <3> QED  BY <1>7, <2>2, <3>1 DEF Received
  <2> QED  BY <2>1, <2>2
<1>10. NothingLost'  BY <1>4, <1>8, <1>9, LostIsReceived
<1> QED  BY <1>4, <1>5, <1>8, <1>10 DEF FeedInv

LEMMA DisplayFeedInv ==
  ASSUME FeedInv, IInv', NEW c \in Connections, DisplayOrderBook(c)
  PROVE  FeedInv'
<1> USE DEF DisplayOrderBook, MayDisplay
<1>1. PICK u \in handling[c] :
        /\ displayed' = [displayed EXCEPT ![c] = Append(@, u)]
        /\ handling' = [handling EXCEPT ![c] = handling[c] \ {u}]
  BY DEF Finish
<1>2. /\ displayed[c] \in Seq(Update_) /\ u \in Update_
      /\ handling[c] \subseteq Update_ /\ IsFiniteSet(handling[c])
      /\ IsFiniteSet(dropped[c])
  BY DEF FeedInv, FeedTypeOK
<1>3. /\ displayed'[c] = Append(displayed[c], u)
      /\ handling'[c] = handling[c] \ {u}
      /\ \A d \in Connections : d # c =>
           displayed'[d] = displayed[d] /\ handling'[d] = handling[d]
  BY <1>1 DEF FeedInv, FeedTypeOK
<1>4. FeedTypeOK'
  <2>1. displayed' \in [Connections -> Seq(Update_)]
    BY <1>1, <1>2, AppendFacts DEF FeedInv, FeedTypeOK
  <2>2. handling' \in [Connections -> SUBSET Update_]
    BY <1>1, <1>2 DEF FeedInv, FeedTypeOK
  <2>3. \A d \in Connections : IsFiniteSet(handling'[d])
    <3>1. IsFiniteSet(handling'[c])  BY <1>2, <1>3, FS_RemoveElement
    <3> QED  BY <3>1, <1>3 DEF FeedInv, FeedTypeOK
  <2>4. AllSent' = AllSent  BY DEF AllSent
  <2> QED  BY <2>1, <2>2, <2>3, <2>4 DEF FeedInv, FeedTypeOK
<1>5. SentOnce'  BY DEF FeedInv, SentOnce, Updates, AllSent
<1>6. ASSUME NEW d \in Connections \ ended PROVE Received(d)'
  <2>1. CASE d # c
    BY <2>1, <1>3, ReceivedBy, SameReceived
  <2>2. CASE d = c
    <3>1. PICK r \in Nat :
            Delivered(sent[c], channel[c], displayed[c], handling[c], dropped[c], r)
      BY <2>2, ReceivedBy DEF Received
    <3>2. Delivered(sent[c], channel[c], displayed'[c], handling'[c], dropped[c], r)
      BY <1>2, <1>3, <3>1, DeliveredDisplay
    <3> QED  BY <2>2, <3>2 DEF Received
  <2> QED  BY <2>1, <2>2
<1>7. DroppedRight'  BY <1>3 DEF FeedInv, DroppedRight
<1>8. NothingLost'  BY <1>4, <1>6, <1>7, LostIsReceived
<1> QED  BY <1>4, <1>5, <1>7, <1>8 DEF FeedInv

LEMMA CatchFeedInv ==
  ASSUME FeedInv, IInv', NEW c \in Connections, CatchException(c)
  PROVE  FeedInv'
<1> USE DEF CatchException
<1>1. PICK u \in handling[c] :
        /\ u.reads = "ill"
        /\ dropped' = [dropped EXCEPT ![c] = @ \cup {u}]
        /\ handling' = [handling EXCEPT ![c] = handling[c] \ {u}]
  BY DEF Finish
<1>2. /\ displayed[c] \in Seq(Update_) /\ u \in Update_
      /\ handling[c] \subseteq Update_ /\ IsFiniteSet(handling[c])
      /\ IsFiniteSet(dropped[c])
  BY DEF FeedInv, FeedTypeOK
<1>3. /\ dropped'[c] = dropped[c] \cup {u}
      /\ handling'[c] = handling[c] \ {u}
      /\ \A d \in Connections : d # c =>
           dropped'[d] = dropped[d] /\ handling'[d] = handling[d]
  BY <1>1 DEF FeedInv, FeedTypeOK
<1>4. FeedTypeOK'
  <2>1. dropped' \in [Connections -> SUBSET Update_]
    BY <1>1, <1>2 DEF FeedInv, FeedTypeOK
  <2>2. handling' \in [Connections -> SUBSET Update_]
    BY <1>1, <1>2 DEF FeedInv, FeedTypeOK
  <2>3. \A d \in Connections : IsFiniteSet(handling'[d]) /\ IsFiniteSet(dropped'[d])
    <3>1. IsFiniteSet(handling'[c]) /\ IsFiniteSet(dropped'[c])
      BY <1>2, <1>3, FS_RemoveElement, FS_AddElement
    <3> QED  BY <3>1, <1>3 DEF FeedInv, FeedTypeOK
  <2>4. AllSent' = AllSent  BY DEF AllSent
  <2> QED  BY <2>1, <2>2, <2>3, <2>4 DEF FeedInv, FeedTypeOK
<1>5. SentOnce'  BY DEF FeedInv, SentOnce, Updates, AllSent
<1>6. ASSUME NEW d \in Connections \ ended PROVE Received(d)'
  <2>1. CASE d # c
    BY <2>1, <1>3, ReceivedBy, SameReceived
  <2>2. CASE d = c
    <3>1. PICK r \in Nat :
            Delivered(sent[c], channel[c], displayed[c], handling[c], dropped[c], r)
      BY <2>2, ReceivedBy DEF Received
    <3>2. u \notin dropped[c] /\ sent[c] \in Seq(Update_)
      BY <1>1 DEF FeedInv, FeedTypeOK, DroppedRight
    <3>3. Delivered(sent[c], channel[c], displayed[c], handling'[c], dropped'[c], r)
      BY <1>2, <1>3, <3>1, <3>2, DeliveredDrop
    <3> QED  BY <2>2, <3>3 DEF Received
  <2> QED  BY <2>1, <2>2
<1>7. DroppedRight'  BY <1>1, <1>3 DEF FeedInv, DroppedRight
<1>8. NothingLost'  BY <1>4, <1>6, <1>7, LostIsReceived
<1> QED  BY <1>4, <1>5, <1>7, <1>8 DEF FeedInv

LEMMA EndFeedInv ==
  ASSUME FeedInv, IInv', NEW c \in Connections, ClientEnds(c)
  PROVE  FeedInv'
<1> USE DEF ClientEnds
<1>1. FeedTypeOK'
  <2>1. AllSent' = AllSent  BY DEF AllSent
  <2> QED  BY <2>1, FS_EmptySet DEF FeedInv, FeedTypeOK
<1>2. SentOnce'  BY DEF FeedInv, SentOnce, Updates, AllSent
<1>3. ASSUME NEW d \in Connections \ ended' PROVE Received(d)'
  <2>1. d \in Connections \ ended /\ d # c  OBVIOUS
  <2>2. channel'[d] = channel[d] /\ handling'[d] = handling[d]
        /\ displayed'[d] = displayed[d] /\ sent'[d] = sent[d]
        /\ dropped'[d] = dropped[d]
    BY <2>1 DEF FeedInv, FeedTypeOK
  <2> QED  BY <2>1, <2>2, ReceivedBy, SameReceived
<1>4. DroppedRight'  BY DEF FeedInv, FeedTypeOK, DroppedRight
<1>5. NothingLost'  BY <1>1, <1>3, <1>4, LostIsReceived
<1> QED  BY <1>1, <1>2, <1>4, <1>5 DEF FeedInv

-----------------------------------------------------------------------------
LEMMA NextFeedInv == ASSUME FeedInv, [NextFeed]_allVars PROVE FeedInv'
<1>1. IInv'  BY FeedStepIsServerStep, NextIInv DEF FeedInv
<1>2. CASE UNCHANGED allVars  BY <1>1, <1>2, UnchangedFeed DEF allVars
<1>3. ASSUME NEW m \in Messages, ServerThread(m) PROVE FeedInv'
  BY <1>1, <1>3, ServerThreadFeedInv
<1>4. ASSUME ServerHandlers, UNCHANGED feedVars PROVE FeedInv'
  BY <1>1, <1>4, UnchangedFeed
<1>5. ASSUME NEW c \in Connections,
             OnReceive(c) \/ ClientThread(c) \/ ClientEnds(c)
      PROVE  FeedInv'
  BY <1>1, <1>5, ReceiveFeedInv, DisplayFeedInv, CatchFeedInv, EndFeedInv
     DEF ClientThread
<1> QED  BY <1>2, <1>3, <1>4, <1>5 DEF NextFeed

\* Between client threads that overtake each other no update is lost, none is
\* displayed twice, and only what an update itself holds makes a client drop it.
THEOREM FeedLosesNothing == FairFeed => []NothingLost
<1>1. FeedInv => NothingLost  BY DEF FeedInv
<1> QED  BY InitFeedInv, NextFeedInv, <1>1, PTL DEF FairFeed

\* The server among its clients behaves as WebSocketServer does.
THEOREM FeedHasServer == FairFeed => Spec
<1>1. InitFeed => Init  BY DEF InitFeed
<1> QED  BY <1>1, FeedStepIsServerStep, PTL DEF FairFeed, Spec
=============================================================================
