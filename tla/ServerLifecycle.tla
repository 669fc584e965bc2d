-------------------------- MODULE ServerLifecycle --------------------------
(***************************************************************************)
(* The life of the server process: main() of server/server.cpp and         *)
(* Server::run and Server::stop of core/Server.h on the main thread, the   *)
(* uWebSockets loop of Server::startWsServer on another.                   *)
(*                                                                         *)
(* main() waits on a latch that the signal handler counts down, and then   *)
(* stops the server while the loop still runs; the destructor of Server    *)
(* stops it again.  The two threads share the set of clients, the          *)
(* websockets and the handlers without a lock.  Where one uses what the    *)
(* other has freed the behaviour is undefined: `fault' names the case, and *)
(* nothing is said of the process after it.                                *)
(***************************************************************************)
EXTENDS Integers

CONSTANTS
  Client,      \* connections clients open
  MaxSignals   \* bound on the signals sent

ASSUME MaxSignalsAssumption == MaxSignals \in Nat
ASSUME ClientAssumption == "none" \notin Client

VARIABLES
  main,       \* the step the main thread is at
  runLatch,   \* the latch `run' of server.cpp
  m_run, m_clients,
  handlers,   \* the handlers of the Server object: "none", "alive", "destroyed"
  listening,  \* the listen socket is open
  loop,       \* the loop's thread: "none", "running" or "ended"
  socket,     \* of each client: "none", "accepted", "open" or "closed"
  busy,       \* the client whose message is being handled, or "none"
  stops,      \* the calls of Server::stop
  toEnd,      \* the clients Server::stop has not ended yet
  signals,    \* history: the signals sent
  fault,      \* history: the first undefined behaviour
  late        \* history: what clients did while the server stopped

serverVars == <<m_run, m_clients, handlers>>
loopVars == <<listening, loop, socket, busy>>
stopVars == <<stops, toEnd>>
historyVars == <<signals, fault, late>>
vars == <<main, runLatch, serverVars, loopVars, stopVars, historyVars>>

Open == {c \in Client : socket[c] = "open"}

Running == fault = "none"

-----------------------------------------------------------------------------
(* The main thread: Server::run.                                           *)

At(step) == Running /\ main = step

\* Server::init, and the thread for the loop.
Run ==
  /\ At("init") /\ main' = "starting"
  /\ handlers' = "alive"
  /\ loop' = "running"
  /\ UNCHANGED <<runLatch, m_run, m_clients, listening, socket, busy, stopVars,
                 historyVars>>

\* Server::run answers false, and main() counts the latch down itself.
Fails ==
  /\ main' = "stopping"
  /\ runLatch' = runLatch - 1
  /\ UNCHANGED <<serverVars, listening, socket, busy, stopVars, historyVars>>

\* The persist path cannot be written, or the save to load is not valid.
RunFails == At("init") /\ Fails /\ UNCHANGED loop

\* listen() of the loop, which counts startLatch down.
Listen ==
  /\ At("starting") /\ main' = "pinning"
  /\ listening' = TRUE
  /\ UNCHANGED <<runLatch, serverVars, loop, socket, busy, stopVars, historyVars>>

\* The port is in use: startLatch is counted down all the same, and the loop,
\* which has nothing to poll, returns.
ListenFails == At("starting") /\ loop' = "ended" /\ Fails

\* The thread of the loop is given the core of the settings.
Started ==
  /\ At("pinning") /\ main' = "waiting"
  /\ UNCHANGED <<runLatch, serverVars, loopVars, stopVars, historyVars>>

\* There is no such core for the process.  Clients may have come by now.
PinFails == At("pinning") /\ Fails /\ UNCHANGED loop

\* kvSigHandle: SIGINT or SIGTERM.
Signal ==
  /\ Running /\ main # "exited" /\ signals < MaxSignals
  /\ signals' = signals + 1
  /\ runLatch' = runLatch - 1
  /\ UNCHANGED <<main, serverVars, loopVars, stopVars, fault, late>>

\* run.wait() returns when it reads 0.
Wake ==
  /\ At("waiting") /\ runLatch = 0 /\ main' = "stopping"
  /\ UNCHANGED <<runLatch, serverVars, loopVars, stopVars, historyVars>>

-----------------------------------------------------------------------------
(* The main thread: Server::stop, and the destructors.                     *)

\* (Plausible bug: m_clients is cleared before it is walked.)
StopClearsFirst ==
  /\ At("stopping") /\ main' = "ending"
  /\ m_run' = FALSE
  /\ stops' = stops + 1
  /\ m_clients' = {} /\ toEnd' = {}
  /\ UNCHANGED <<runLatch, handlers, loopVars, historyVars>>

Stop ==
  /\ At("stopping") /\ main' = "ending"
  /\ m_run' = FALSE
  /\ stops' = stops + 1
  /\ toEnd' = m_clients
  /\ UNCHANGED <<runLatch, m_clients, handlers, loopVars, historyVars>>

\* ws->end of one client; the close handler it calls leaves m_clients alone.  A
\* client that has closed since m_run was cleared is still in m_clients, but its
\* websocket is gone.  One whose message the loop is handling may be torn.
EndClient(c) ==
  /\ At("ending") /\ c \in toEnd
  /\ toEnd' = toEnd \ {c}
  /\ \/ /\ socket[c] = "open"
        /\ socket' = [socket EXCEPT ![c] = "closed"]
        /\ UNCHANGED fault
     \/ /\ socket[c] # "open" \/ busy = c
        /\ fault' = "websocket"
        /\ UNCHANGED socket
  /\ UNCHANGED <<main, runLatch, serverVars, listening, loop, busy, stops, signals,
                 late>>

\* main() stops the server, and ~Server() does again.
AfterStop == IF stops = 1 THEN "stopping" ELSE "destroying"

\* (Plausible bug: the listen socket is forgotten.)
CloseSocketsForgets ==
  /\ At("ending") /\ toEnd = {} /\ main' = AfterStop
  /\ m_clients' = {}
  /\ UNCHANGED <<runLatch, m_run, handlers, loopVars, stopVars, historyVars>>

\* The listen socket is closed and the sets are cleared.
CloseSockets ==
  /\ At("ending") /\ toEnd = {} /\ main' = AfterStop
  /\ listening' = FALSE
  /\ m_clients' = {}
  /\ UNCHANGED <<runLatch, m_run, handlers, loop, socket, busy, stopVars, historyVars>>

\* The members of Server are destroyed in the reverse of their order: the
\* handlers, then m_clients, and the thread of the loop last.
Destroy ==
  /\ At("destroying") /\ main' = "joining"
  /\ handlers' = IF handlers = "alive" THEN "destroyed" ELSE handlers
  /\ fault' = IF busy # "none" THEN "handler" ELSE fault
  /\ UNCHANGED <<runLatch, m_run, m_clients, loopVars, stopVars, signals, late>>

\* The destructor of the std::jthread joins.
Exit ==
  /\ At("joining") /\ loop # "running" /\ main' = "exited"
  /\ UNCHANGED <<runLatch, serverVars, loopVars, stopVars, historyVars>>

-----------------------------------------------------------------------------
(* The loop's thread.                                                      *)

\* Clients that come, go or ask while the server stops.
Notes(what) == late' = IF m_run THEN late ELSE late \cup {what}

LoopFree == Running /\ loop = "running" /\ busy = "none"

\* A connection that has not been upgraded to a websocket yet.
Accept(c) ==
  /\ LoopFree /\ listening /\ socket[c] = "none"
  /\ socket' = [socket EXCEPT ![c] = "accepted"]
  /\ UNCHANGED <<main, runLatch, serverVars, listening, loop, busy, stopVars,
                 historyVars>>

\* One that never is: the client leaves, or uWebSockets gives up waiting.
Dropped(c) ==
  /\ LoopFree /\ socket[c] = "accepted"
  /\ socket' = [socket EXCEPT ![c] = "closed"]
  /\ UNCHANGED <<main, runLatch, serverVars, listening, loop, busy, stopVars,
                 historyVars>>

\* The open handler.  While Server::stop walks m_clients the walk may come
\* across the client, or not, or be torn; later m_clients has been destroyed.
ClientOpens(c) ==
  /\ LoopFree /\ socket[c] = "accepted"
  /\ socket' = [socket EXCEPT ![c] = "open"]
  /\ m_clients' = m_clients \cup {c}
  /\ \/ main # "joining" /\ UNCHANGED <<toEnd, fault>>
     \/ main = "ending" /\ toEnd' = toEnd \cup {c} /\ UNCHANGED fault
     \/ main \in {"ending", "joining"} /\ fault' = "m_clients" /\ UNCHANGED toEnd
  /\ Notes("opens")
  /\ UNCHANGED <<main, runLatch, m_run, handlers, listening, loop, busy, stops, signals>>

\* (Plausible bug: the close handler always leaves m_clients alone.)
ClientClosesUnseen(c) ==
  /\ LoopFree /\ socket[c] = "open"
  /\ socket' = [socket EXCEPT ![c] = "closed"]
  /\ Notes("closes")
  /\ UNCHANGED <<main, runLatch, serverVars, listening, loop, busy, stopVars, signals,
                 fault>>

\* The close handler.  It may have read m_run just before Server::stop cleared
\* it, and take the client out of m_clients during the walk.
ClientCloses(c) ==
  /\ LoopFree /\ socket[c] = "open"
  /\ socket' = [socket EXCEPT ![c] = "closed"]
  /\ m_clients' = IF m_run THEN m_clients \ {c} ELSE m_clients
  /\ \/ UNCHANGED fault
     \/ main = "ending" /\ stops = 1 /\ c \in m_clients /\ fault' = "m_clients"
  /\ Notes("closes")
  /\ UNCHANGED <<main, runLatch, m_run, handlers, listening, loop, busy, stopVars,
                 signals>>

\* The message handler: onMessage calls one of the handlers ...
MessageBegins(c) ==
  /\ LoopFree /\ socket[c] = "open"
  /\ busy' = c
  /\ fault' = IF handlers = "destroyed" THEN "handler" ELSE fault
  /\ Notes("asks")
  /\ UNCHANGED <<main, runLatch, serverVars, listening, loop, socket, stopVars, signals>>

\* ... and sends its response.
MessageEnds ==
  /\ Running /\ busy # "none"
  /\ busy' = "none"
  /\ UNCHANGED <<main, runLatch, serverVars, listening, loop, socket, stopVars,
                 historyVars>>

\* The loop returns when it has no socket left to poll.
LoopEnds ==
  /\ LoopFree /\ main # "starting" /\ ~listening
  /\ \A c \in Client : socket[c] \in {"none", "closed"}
  /\ loop' = "ended"
  /\ UNCHANGED <<main, runLatch, serverVars, listening, socket, busy, stopVars,
                 historyVars>>

Init ==
  /\ main = "init" /\ runLatch = 1
  /\ m_run = TRUE /\ m_clients = {} /\ handlers = "none"
  /\ listening = FALSE /\ loop = "none"
  /\ socket = [c \in Client |-> "none"] /\ busy = "none"
  /\ stops = 0 /\ toEnd = {}
  /\ signals = 0 /\ fault = "none" /\ late = {}

StopNext ==
  \/ Wake \/ Stop \/ (\E c \in Client : EndClient(c)) \/ CloseSockets \/ Destroy
  \/ Exit

MainNext ==
  \/ Run \/ RunFails \/ Listen \/ ListenFails \/ Started \/ PinFails
  \/ StopNext

ClientNext ==
  \E c \in Client :
    Accept(c) \/ Dropped(c) \/ ClientOpens(c) \/ ClientCloses(c) \/ MessageBegins(c)

Next == MainNext \/ MessageEnds \/ LoopEnds \/ ClientNext \/ Signal

\* Both threads run on, and a connection that is never upgraded is given up (a
\* timeout of uWebSockets).  No client has to do anything, no signal to come.
Fairness ==
  /\ WF_vars(MainNext) /\ WF_vars(MessageEnds) /\ WF_vars(LoopEnds)
  /\ \A c \in Client : WF_vars(Dropped(c))

Spec == Init /\ [][Next]_vars /\ Fairness

-----------------------------------------------------------------------------
(* Properties.                                                             *)

TypeOK ==
  /\ main \in {"init", "starting", "pinning", "waiting", "stopping", "ending",
               "destroying", "joining", "exited"}
  /\ runLatch \in -MaxSignals..1
  /\ m_run \in BOOLEAN /\ m_clients \subseteq Client
  /\ handlers \in {"none", "alive", "destroyed"}
  /\ listening \in BOOLEAN /\ loop \in {"none", "running", "ended"}
  /\ socket \in [Client -> {"none", "accepted", "open", "closed"}]
  /\ busy \in Client \cup {"none"}
  /\ stops \in 0..2 /\ toEnd \subseteq Client
  /\ signals \in 0..MaxSignals
  /\ fault \in {"none", "websocket", "m_clients", "handler"}
  /\ late \subseteq {"opens", "closes", "asks"}

\* Until the server stops, the clients Server::stop is going to end are those
\* with an open websocket, whatever the order in which clients came and went.
ClientsTracked == Running /\ m_run => m_clients = Open

\* When the loop is about to be waited for, it has nothing left to poll but clients
\* that completed their handshake while the server stopped, and connections that
\* never did: Server::stop has ended everyone else, or they have left.
StopEndsClients ==
  Running /\ main \in {"destroying", "joining"} /\ "opens" \notin late =>
    Open = {} /\ ~listening

\* Stopping frees what the loop uses only if a client does something while the
\* server stops, or if a message is being handled at that moment.
FaultsAreLate ==
  [][fault' # "none" /\ Running => late' # {} \/ busy' # "none"]_vars

\* A signal ends the process, if it is the only one, and if no client completes
\* its handshake while the server stops.
ShutdownEnds ==
  main = "waiting" /\ signals > 0 ~>
    main = "exited" \/ signals > 1 \/ fault # "none" \/ "opens" \in late

-----------------------------------------------------------------------------
(* What the comments say and the code does not do.                         *)

\* "when we shutdown, we have to call ws->end() to close each client otherwise
\* uWS loop doesn't return" (Server.h): once the loop is waited for, it returns.
LoopReturns == main = "joining" ~> main = "exited" \/ fault # "none"
=============================================================================
