----------------------------- MODULE MarketDataFeed -----------------------------
(***************************************************************************)
(* WebSocketServer and WebSocketClient (websocket_client.cpp) with the     *)
(* channel between them.  Each connection leads to one client process,     *)
(* which starts a detached thread for every message it receives and ends,  *)
(* whatever those threads do, when its connection ends.                    *)
(*                                                                         *)
(* An update is its number and how a client reads it.  The server passes   *)
(* on whatever object the exchange answers with: the client reads it well, *)
(* or ill.  Read ill is an update that throws an exception, such as one    *)
(* with a side that is no list of lists, and one for which the JSON        *)
(* library has no defined behaviour, with a side missing or a level too    *)
(* short.                                                                  *)
(***************************************************************************)
EXTENDS WebSocketServer, Sequences, Functions

CONSTANTS
  MaxUpdates,  \* how many updates are ever sent, and
  MaxIll       \* how many of them are read ill; bound the runs

ASSUME FeedAssumption == MaxUpdates \in Nat /\ MaxIll \in Nat

VARIABLES
  channel,    \* per connection: what the client has not received yet
  handling,   \* per client: the updates its threads have in hand
  displayed,  \* per client: the updates on its screen, in order
  dropped,    \* per client: the updates it has not shown, or not whole
  ended,      \* the clients whose process has ended
  sent        \* history: per connection, the updates sent

feedVars == <<channel, handling, displayed, dropped, ended, sent>>
allVars == <<vars, feedVars>>

InitFeed ==
  /\ Init
  /\ channel = [c \in Connections |-> <<>>]
  /\ handling = [c \in Connections |-> {}]
  /\ displayed = [c \in Connections |-> <<>>]
  /\ dropped = [c \in Connections |-> {}]
  /\ ended = {}
  /\ sent = [c \in Connections |-> <<>>]

-----------------------------------------------------------------------------
(* The server.                                                             *)

AllSent == UNION {Range(sent[c]) : c \in Connections}
Updates == Cardinality(AllSent)
Update(r) == [nth |-> Updates + 1, reads |-> r]

SendUpdate(m) ==
  /\ Step(Send(m))
  /\ IF pc'[m] = "counting"
     THEN \E r \in {"well", "ill"} :
            LET c == of[m]
                u == Update(r)
            IN  /\ r = "ill" =>
                     Cardinality({v \in AllSent : v.reads = "ill"}) < MaxIll
                /\ sent' = [sent EXCEPT ![c] = Append(@, u)]
                /\ channel' = IF c \in ended THEN channel
                              ELSE [channel EXCEPT ![c] = Append(@, u)]
     ELSE UNCHANGED <<sent, channel>>
  /\ UNCHANGED <<handling, displayed, dropped, ended>>

\* The bound: later fetches fail.
FetchUpdate(m) ==
  /\ Step(GetOrderBook(m))
  /\ pc'[m] = "send" =>
       Updates + Cardinality({n \in Messages : pc[n] = "send"}) < MaxUpdates

ServerThread(m) ==
  \/ SendUpdate(m)
  \/ /\ FetchUpdate(m) \/ Step(Parse(m) \/ Subscribe(m) \/ Loop(m))
     /\ UNCHANGED feedVars

-----------------------------------------------------------------------------
(* The client.                                                             *)

\* on_message: the detached thread keeps the message.
OnReceive(c) ==
  /\ c \notin ended /\ channel[c] # <<>>
  /\ handling' = [handling EXCEPT ![c] = @ \cup {Head(channel[c])}]
  /\ channel' = [channel EXCEPT ![c] = Tail(@)]
  /\ UNCHANGED <<vars, displayed, dropped, ended, sent>>

\* The thread ends.
Keep(c, u) == handling[c]  \* mutant: the update is displayed again and again
Finish(c, u) == handling[c] \ {u}

OneAtATime(c) == c \notin ended /\ Cardinality(handling[c]) = 1  \* mutant
MayDisplay(c) == c \notin ended

DisplayOrderBook(c) ==
  /\ MayDisplay(c)
  /\ \E u \in handling[c] :
       /\ u.reads = "well"
       /\ displayed' = [displayed EXCEPT ![c] = Append(@, u)]
       /\ handling' = [handling EXCEPT ![c] = Finish(c, u)]
  /\ UNCHANGED <<vars, channel, dropped, ended, sent>>

\* The thread has displayed some levels at most, or what is none, when it
\* catches and logs the exception; the client goes on without the update.
CatchException(c) ==
  /\ c \notin ended
  /\ \E u \in handling[c] :
       /\ u.reads = "ill"
       /\ dropped' = [dropped EXCEPT ![c] = @ \cup {u}]
       /\ handling' = [handling EXCEPT ![c] = Finish(c, u)]
  /\ UNCHANGED <<vars, channel, displayed, ended, sent>>

ClientThread(c) == DisplayOrderBook(c) \/ CatchException(c)

\* run() returns when the connection ends, then main does, and the threads end
\* with the process, whatever they have in hand.  An update read ill may end it
\* too, by a failed assertion of the JSON library.
ClientEnds(c) ==
  /\ link[c] # "none" /\ c \notin ended
  /\ \/ link[c] # "open" \/ ~Running
     \/ \E u \in handling[c] : u.reads = "ill"
  /\ ended' = ended \cup {c}
  /\ channel' = [channel EXCEPT ![c] = <<>>]
  /\ handling' = [handling EXCEPT ![c] = {}]
  /\ displayed' = [displayed EXCEPT ![c] = <<>>]
  /\ dropped' = [dropped EXCEPT ![c] = {}]
  /\ UNCHANGED <<vars, sent>>

-----------------------------------------------------------------------------
ServerHandlers ==
  \/ Step(HandlerEnds)
  \/ \E c \in Connections :
       Step(\/ OnOpen(c) \/ Disconnect(c) \/ OnClose(c) \/ Destroy(c)
            \/ \E m \in Messages : OnMessage(m, c))

NextFeed ==
  \/ \E m \in Messages : ServerThread(m)
  \/ ServerHandlers /\ UNCHANGED feedVars
  \/ \E c \in Connections :
       OnReceive(c) \/ ClientThread(c) \/ ClientEnds(c)

\* The threads of both programs go on, a fetch ending after ten seconds
\* (websocket_server.cpp:146), and a channel delivers while its client lives.
\* Nothing is owed by the handlers, or by those who connect and leave.
FairFeed ==
  /\ InitFeed /\ [][NextFeed]_allVars
  /\ \A m \in Messages : WF_vars(Step(ThreadStep(m)))
  /\ \A c \in Connections :
       WF_allVars(OnReceive(c)) /\ WF_allVars(ClientThread(c))

-----------------------------------------------------------------------------
\* Of the updates sent, a client has a prefix: each displayed once, in the
\* hands of one thread, or dropped because it was read ill, in any order; the
\* rest is on its way.  Threads that overtake each other neither lose nor
\* repeat one, and only what an update itself holds makes a client drop it.
NothingLost ==
  \A c \in Connections \ ended :
    LET received == Len(sent[c]) - Len(channel[c])
    IN  /\ \A k \in DOMAIN channel[c] : channel[c][k] = sent[c][received + k]
        /\ Range(displayed[c]) \cup handling[c] \cup dropped[c]
             = {sent[c][k] : k \in 1 .. received}
        /\ Len(displayed[c]) + Cardinality(handling[c]) + Cardinality(dropped[c])
             = received
        /\ \A u \in dropped[c] : u.reads = "ill"

\* Every update sent that reads well is displayed, unless the client has ended:
\* one that throws an exception takes no other one with it.
Awaited(c) ==
  {k \in DOMAIN sent[c] :
     sent[c][k].reads = "well" /\ sent[c][k] \notin Range(displayed[c])}
EveryUpdateIsDisplayed ==
  \A c \in Connections : Awaited(c) # {} ~> Awaited(c) = {} \/ c \in ended
=============================================================================
