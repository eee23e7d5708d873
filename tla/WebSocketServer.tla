---------------------------- MODULE WebSocketServer ----------------------------
(***************************************************************************)
(* WebSocketServer (websocket_project/src/websocket_server.cpp): the       *)
(* handlers of the connections, which one thread runs one after the other, *)
(* and a detached thread per message, which subscribes its connection and  *)
(* sends it order books as long as m_subscriptions has an entry for it.    *)
(*                                                                         *)
(* Nothing guards m_subscriptions.  Every access of it begins and ends, so *)
(* that accesses can overlap; what follows once two of them have met that  *)
(* may not meet is undefined, and the behaviour ends there (raced).        *)
(*                                                                         *)
(* The map's values are never read, hence it is the set of its keys.  A    *)
(* key is a weak pointer: hash and comparison lock it, so that every       *)
(* handle whose connection is destroyed is the same key.                   *)
(***************************************************************************)
EXTENDS Naturals, FiniteSets

CONSTANTS
  Connections,
  Messages,     \* the messages received, each with its detached thread
  Expired,      \* the key that all handles of destroyed connections are
  NoConnection  \* a message not received yet; the idle handler thread

ASSUME ServerAssumption ==
  Expired \notin Connections /\ NoConnection \notin Connections

VARIABLES
  link,            \* per connection: none, open, closed, erased, gone
  m_subscriptions,
  io,              \* which handler is inside the map, for which connection
  pc,              \* where each detached thread is
  of,              \* the connection its message came from
  cause,           \* what ended the process, or "none"
  raced,           \* history: two accesses of the map have collided
  late             \* history: threads that subscribed after on_close

vars == <<link, m_subscriptions, io, pc, of, cause, raced, late>>

Idle == [at |-> "idle", conn |-> NoConnection]

Init ==
  /\ link = [c \in Connections |-> "none"]
  /\ m_subscriptions = {}
  /\ io = Idle
  /\ pc = [m \in Messages |-> "none"]
  /\ of = [m \in Messages |-> NoConnection]
  /\ cause = "none"
  /\ raced = FALSE
  /\ late = {}

-----------------------------------------------------------------------------
(* The map.                                                                *)

Key(c) == IF link[c] = "gone" THEN Expired ELSE c

InMap(m) == pc[m] \in {"subscribing", "counting"}
Inserting(m) == pc[m] = "subscribing" /\ Key(of[m]) \notin m_subscriptions

\* Inserting and erasing collide with every other access, two assignments
\* collide if they are to the same entry.
Collision ==
  \/ io # Idle /\ \E m \in Messages : InMap(m)
  \/ \E m, n \in Messages :
       /\ m # n /\ InMap(m) /\ InMap(n)
       /\ \/ Inserting(m)
          \/ pc[m] = pc[n] /\ pc[m] = "subscribing" /\ of[m] = of[n]

KeepCounting(c) == TRUE  \* mutant: while (true)
Count(c) == Key(c) \in m_subscriptions

-----------------------------------------------------------------------------
(* The handler thread.                                                     *)

\* One thread runs the endpoint's event loop.
TwoHandlerThreads == TRUE  \* mutant: run() is called by two threads
HandlerFree == io = Idle

HandlerEnters(at, c) ==
  /\ HandlerFree
  /\ io' = [at |-> at, conn |-> c]
  /\ UNCHANGED <<m_subscriptions, pc, of, cause, late>>

OnOpen(c) ==
  /\ link[c] = "none"
  /\ link' = [link EXCEPT ![c] = "open"]
  /\ HandlerEnters("opening", c)

Opened ==
  /\ io.at = "opening"
  /\ m_subscriptions' = m_subscriptions \cup {io.conn}
  /\ io' = Idle
  /\ UNCHANGED <<link, pc, of, cause, late>>

\* The session ends, by the peer or by an error; on_close follows.
Disconnect(c) ==
  /\ HandlerFree /\ link[c] = "open"
  /\ link' = [link EXCEPT ![c] = "closed"]
  /\ UNCHANGED <<m_subscriptions, io, pc, of, cause, late>>

OnClose(c) ==
  /\ link[c] = "closed"
  /\ HandlerEnters("closing", c)
  /\ UNCHANGED link

KeepEntry(c) == m_subscriptions  \* mutant: on_close does not erase
EraseAll(c) == {}                \* mutant: clear() in place of erase
Erase(c) == m_subscriptions \ {c}

Closed ==
  /\ io.at = "closing"
  /\ m_subscriptions' = Erase(io.conn)
  /\ io' = Idle
  /\ link' = [link EXCEPT ![io.conn] = "erased"]
  /\ UNCHANGED <<pc, of, cause, late>>

\* The endpoint drops the last reference to the connection.
Destroy(c) ==
  /\ HandlerFree /\ link[c] = "erased"
  /\ link' = [link EXCEPT ![c] = "gone"]
  /\ UNCHANGED <<m_subscriptions, io, pc, of, cause, late>>

\* on_message starts the thread and returns.
OnMessage(m, c) ==
  /\ HandlerFree /\ link[c] = "open" /\ pc[m] = "none"
  /\ pc' = [pc EXCEPT ![m] = "parse"]
  /\ of' = [of EXCEPT ![m] = c]
  /\ UNCHANGED <<link, m_subscriptions, io, cause, late>>

-----------------------------------------------------------------------------
(* A detached thread.  An exception that leaves it ends the process.       *)

Goto(m, l) == pc' = [pc EXCEPT ![m] = l] /\ UNCHANGED cause
EndProcess(m, c) == cause' = c /\ UNCHANGED pc

\* The message has a symbol, has none, or has a member of an unexpected type.
Parse(m) ==
  /\ pc[m] = "parse"
  /\ Goto(m, "subscribing") \/ Goto(m, "ignored") \/ EndProcess(m, "type")
  /\ UNCHANGED <<link, m_subscriptions, io, of, late>>

\* m_subscriptions[hdl] = symbol
Subscribe(m) ==
  /\ pc[m] = "subscribing"
  /\ m_subscriptions' = m_subscriptions \cup {Key(of[m])}
  /\ late' = IF link[of[m]] \in {"erased", "gone"} THEN late \cup {m} ELSE late
  /\ Goto(m, "fetch")
  /\ UNCHANGED <<link, io, of>>

\* getOrderBook within ten seconds: a book, {}, or a type_error for a reply
\* that is JSON and has not the members the code assigns to.
GetOrderBook(m) ==
  /\ pc[m] = "fetch"
  /\ Goto(m, "send") \/ Goto(m, "counting") \/ EndProcess(m, "reply")
  /\ UNCHANGED <<link, m_subscriptions, io, of, late>>

\* This overload of send throws if the connection is not open.
Send(m) ==
  /\ pc[m] = "send"
  /\ IF link[of[m]] = "open" THEN Goto(m, "counting")
                             ELSE EndProcess(m, "send")
  /\ UNCHANGED <<link, m_subscriptions, io, of, late>>

\* while (m_subscriptions.count(hdl)) sleep a second and fetch again
Loop(m) ==
  /\ pc[m] = "counting"
  /\ Goto(m, IF Count(of[m]) THEN "fetch" ELSE "left")
  /\ UNCHANGED <<link, m_subscriptions, io, of, late>>

-----------------------------------------------------------------------------
ThreadStep(m) ==
  Parse(m) \/ Subscribe(m) \/ GetOrderBook(m) \/ Send(m) \/ Loop(m)
HandlerEnds == Opened \/ Closed

Running == cause = "none" /\ ~raced
Step(A) == Running /\ A /\ raced' = Collision'

Next ==
  \/ \E c \in Connections :
       \/ Step(OnOpen(c)) \/ Step(Disconnect(c)) \/ Step(OnClose(c))
       \/ Step(Destroy(c)) \/ \E m \in Messages : Step(OnMessage(m, c))
  \/ Step(HandlerEnds)
  \/ \E m \in Messages : Step(ThreadStep(m))

Spec == Init /\ [][Next]_vars

-----------------------------------------------------------------------------
Over == {"erased", "gone"}
Started(m) == pc[m] # "none"

\* Every variable has its type; a thread belongs to a connection whose on_open
\* has ended, and a handler is inside the map for the connection it handles.
TypeOK ==
  /\ link \in [Connections -> {"none", "open", "closed"} \cup Over]
  /\ m_subscriptions \subseteq Connections \cup {Expired}
  /\ io \in {Idle} \cup [at : {"opening", "closing"}, conn : Connections]
  /\ io.at = "opening" => link[io.conn] = "open"
  /\ io.at = "closing" => link[io.conn] = "closed"
  /\ pc \in [Messages -> {"none", "parse", "ignored", "subscribing", "fetch",
                          "send", "counting", "left"}]
  /\ of \in [Messages -> Connections \cup {NoConnection}]
  /\ \A m \in Messages :
       Started(m) => /\ of[m] \in Connections /\ link[of[m]] # "none"
                     /\ io # [at |-> "opening", conn |-> of[m]]
  /\ cause \in {"none", "type", "reply", "send"}
  /\ raced \in BOOLEAN
  /\ late \subseteq Messages

\* A client gets updates as long as it is connected: whatever other
\* connections do, the loop of a thread ends only after on_close has erased
\* its own connection.
UpdatesUntilClose ==
  ~raced => \A m \in Messages : pc[m] = "left" => link[of[m]] \in Over

\* A thread has made the entry after on_close, for its connection or, when that
\* was destroyed, for all that are.
MadeLate(k) ==
  \E m \in late : k = of[m] \/ (k = Expired /\ link[of[m]] = "gone")

\* What on_close has erased stays erased, unless a thread of that connection
\* comes late and makes an entry again (line 103).
StaleOnlyByLate ==
  ~raced => \A k \in m_subscriptions :
              \/ k \in Connections /\ link[k] \notin Over
              \/ MadeLate(k)

\* The threads of a closed connection end, also while every fetch fails: nobody
\* serves a client that has left, unless one of its own threads comes late, or
\* one of a destroyed connection.
LoopsEnd ==
  \A m \in Messages :
    Started(m) /\ link[of[m]] \in Over
      ~> \/ pc[m] \in {"ignored", "left"} \/ cause # "none" \/ raced
         \/ \E n \in late : of[n] = of[m] \/ link[of[n]] = "gone"

\* "on_close: Handles client disconnections" (websocket_project/readme.md:63):
\* a client that disconnects does not end the server.
DisconnectIsSurvived == cause # "send"
=============================================================================
