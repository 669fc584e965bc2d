---------------------------- MODULE PyConnection ----------------------------
(***************************************************************************)
(* The connection of the Python client (apis/python/ndb/connection.py):    *)
(* the coroutine start(), the task open() it creates, and the tasks of     *)
(* query(), which share one event, rspEvt, and one slot, message.          *)
(*                                                                         *)
(* An action runs from one await to the next, as asyncio does.  The        *)
(* websockets library, the network and the server are external: a server   *)
(* answers the requests of a connection in their order, until the          *)
(* connection is lost or closed.                                           *)
(***************************************************************************)
EXTENDS Integers, Sequences

CONSTANTS
  Caller,      \* tasks that call NdbClient.sendCmd, and so Connection.query
  MaxQueries,  \* bound on the queries made, which are numbered
  MaxSessions  \* bound on the calls of NdbClient.open

ASSUME BoundsAssumption == MaxQueries \in Nat /\ MaxSessions \in Nat

VARIABLES
  \* Connection
  opened, userClosed, rspEvt, message,
  connectedSem,
  ws,         \* self.ws: "none", "live" or "closed"
  \* its tasks
  starter,    \* start(): "idle", "acquiring", "returned" or "raised"
  listen,     \* open(): "none", "connecting", "receiving" or "ended"
  refused,    \* open() ended in an exception it does not handle
  caller,     \* query(): the step each caller is at
  \* the connection to the server
  requests, replies,
  \* history
  session,    \* how often start() was called
  queries,    \* how many queries were made
  disturbed   \* in this session queries overlapped, or one was cancelled

connVars == <<opened, userClosed, rspEvt, message, connectedSem, ws>>
taskVars == <<starter, listen, refused>>
wireVars == <<requests, replies>>
historyVars == <<session, queries, disturbed>>
vars == <<connVars, taskVars, caller, wireVars, historyVars>>

Idle == [at |-> "idle", query |-> 0, got |-> 0, evt |-> 0]

\* Where a caller may be; `evt' tells the event of which session it waits for.
At(c, step) == caller[c].at = step

InQuery(c) == caller[c].at \in {"sending", "waiting", "woken"}

\* Tasks are run in the order they become ready.  rspEvt.set() readies the
\* queries that wait for it before open() creates its next task.
NoneWoken == \A c \in Caller : ~At(c, "woken")

-----------------------------------------------------------------------------
(* start() and open().                                                     *)

\* start() is called again only when the task of an earlier call is over.
Start ==
  /\ starter # "acquiring" /\ listen \in {"none", "ended"}
  /\ session < MaxSessions
  /\ session' = session + 1
  /\ userClosed' = FALSE /\ opened' = FALSE
  /\ ws' = "none" /\ rspEvt' = FALSE /\ connectedSem' = 0
  /\ starter' = "acquiring" /\ listen' = "connecting" /\ refused' = FALSE
  /\ requests' = <<>> /\ replies' = <<>>
  /\ disturbed' = \E c \in Caller : InQuery(c) /\ ~At(c, "waiting")
  /\ UNCHANGED <<message, caller, queries>>

\* connectedSem.acquire() returns.
Acquired ==
  /\ starter = "acquiring" /\ connectedSem > 0
  /\ connectedSem' = connectedSem - 1
  /\ starter' = IF opened THEN "returned" ELSE "raised"
  /\ UNCHANGED <<opened, userClosed, rspEvt, message, ws, listen, refused, caller,
                 wireVars, historyVars>>

Connected ==
  /\ listen = "connecting"
  /\ ws' = "live" /\ opened' = TRUE
  /\ connectedSem' = connectedSem + 1
  /\ listen' = "receiving"
  /\ UNCHANGED <<userClosed, rspEvt, message, starter, refused, caller, wireVars,
                 historyVars>>

\* (Plausible bug: the semaphore is not released when connecting fails.)
ConnectFailsSilently ==
  /\ listen = "connecting"
  /\ rspEvt' = FALSE /\ opened' = FALSE
  /\ listen' = "ended"
  /\ UNCHANGED <<userClosed, message, connectedSem, ws, starter, refused, caller,
                 wireVars, historyVars>>

\* connect() raises an OSError: no server, or a timeout.
ConnectFails ==
  /\ listen = "connecting"
  /\ connectedSem' = IF connectedSem = 0 THEN 1 ELSE connectedSem
  /\ rspEvt' = FALSE /\ opened' = FALSE
  /\ listen' = "ended"
  /\ UNCHANGED <<userClosed, message, ws, starter, refused, caller, wireVars,
                 historyVars>>

\* connect() raises something else, as when the handshake is refused.
ConnectRefused ==
  /\ listen = "connecting"
  /\ rspEvt' = FALSE /\ opened' = FALSE
  /\ listen' = "ended" /\ refused' = TRUE
  /\ UNCHANGED <<userClosed, message, connectedSem, ws, starter, caller, wireVars,
                 historyVars>>

\* What rspEvt.set() does to the queries that wait for it.
Woken ==
  [c \in Caller |-> IF At(c, "waiting") /\ caller[c].evt = session
                    THEN [caller[c] EXCEPT !.at = "woken"] ELSE caller[c]]

\* (Plausible bug: the event is set and cleared at once.)
ReceivePulses ==
  /\ listen = "receiving" /\ replies # <<>> /\ NoneWoken
  /\ message' = Head(replies)
  /\ replies' = Tail(replies)
  /\ rspEvt' = FALSE
  /\ caller' = Woken
  /\ UNCHANGED <<opened, userClosed, connectedSem, ws, taskVars, requests,
                 historyVars>>

\* recv() gives the next response, also one that came before the connection was
\* lost.
Receive ==
  /\ listen = "receiving" /\ replies # <<>> /\ NoneWoken
  /\ message' = Head(replies)
  /\ replies' = Tail(replies)
  /\ rspEvt' = TRUE
  /\ caller' = Woken
  /\ UNCHANGED <<opened, userClosed, connectedSem, ws, taskVars, requests,
                 historyVars>>

\* recv() raises ConnectionClosed.
ListenEnds ==
  /\ listen = "receiving" /\ ws = "closed" /\ replies = <<>> /\ NoneWoken
  /\ rspEvt' = FALSE /\ opened' = FALSE
  /\ listen' = "ended"
  /\ UNCHANGED <<userClosed, message, connectedSem, ws, starter, refused, caller,
                 wireVars, historyVars>>

-----------------------------------------------------------------------------
(* query() and close().                                                    *)

Answered(c) == [caller[c] EXCEPT !.at = "answered", !.got = message]

Failed(c) == [caller[c] EXCEPT !.at = "failed"]

\* Up to the await in ws.send().
Query(c) ==
  /\ ~InQuery(c) /\ starter = "returned" /\ queries < MaxQueries
  /\ queries' = queries + 1
  /\ \/ /\ ws = "live"
        /\ caller' = [caller EXCEPT ![c] = [Idle EXCEPT !.at = "sending",
                                                        !.query = queries + 1]]
        /\ requests' = Append(requests, queries + 1)
        /\ disturbed' = (disturbed \/ \E d \in Caller : InQuery(d)
                           /\ ~(At(d, "waiting") /\ caller[d].evt # session))
     \/ /\ ws = "closed"
        /\ caller' = [caller EXCEPT ![c] = [Idle EXCEPT !.at = "failed",
                                                        !.query = queries + 1]]
        /\ UNCHANGED <<requests, disturbed>>
  /\ UNCHANGED <<connVars, taskVars, replies, session>>

\* ws.send() returns, or raises if the connection was lost meanwhile.  An event
\* that is set already does not make rspEvt.wait() wait.
Sent(c) ==
  /\ At(c, "sending")
  /\ \/ /\ rspEvt
        /\ caller' = [caller EXCEPT ![c] = Answered(c)]
        /\ rspEvt' = FALSE
     \/ /\ ~rspEvt
        /\ caller' = [caller EXCEPT ![c].at = "waiting", ![c].evt = session]
        /\ UNCHANGED rspEvt
     \/ /\ ws # "live"
        /\ caller' = [caller EXCEPT ![c] = Failed(c)]
        /\ UNCHANGED rspEvt
  /\ UNCHANGED <<opened, userClosed, message, connectedSem, ws, taskVars, wireVars,
                 historyVars>>

\* (Plausible bug: the event is not cleared.)
ReadsOnly(c) ==
  /\ At(c, "woken")
  /\ caller' = [caller EXCEPT ![c] = Answered(c)]
  /\ UNCHANGED <<connVars, taskVars, wireVars, historyVars>>

\* rspEvt.wait() returns.
Reads(c) ==
  /\ At(c, "woken")
  /\ caller' = [caller EXCEPT ![c] = Answered(c)]
  /\ rspEvt' = FALSE
  /\ UNCHANGED <<opened, userClosed, message, connectedSem, ws, taskVars, wireVars,
                 historyVars>>

\* The caller is cancelled, by a timeout of its own: query() catches that, and
\* raises because it has no response to return.
Cancel(c) ==
  /\ InQuery(c)
  /\ caller' = [caller EXCEPT ![c] = Failed(c)]
  /\ disturbed' = TRUE
  /\ UNCHANGED <<connVars, taskVars, wireVars, session, queries>>

\* (Plausible bug: the connection is left to the server to close.)
CloseMarksOnly ==
  /\ starter = "returned" /\ ~userClosed
  /\ userClosed' = TRUE
  /\ UNCHANGED <<opened, rspEvt, message, connectedSem, ws, taskVars, caller,
                 wireVars, historyVars>>

\* What a closed connection still gives to read.
Drops ==
  /\ requests' = <<>>
  /\ \E k \in 0..Len(replies) : replies' = SubSeq(replies, 1, k)

Close ==
  /\ starter = "returned" /\ ~userClosed
  /\ userClosed' = TRUE
  /\ ws' = "closed"
  /\ Drops
  /\ UNCHANGED <<opened, rspEvt, message, connectedSem, taskVars, caller,
                 historyVars>>

-----------------------------------------------------------------------------
(* The server and the network.                                             *)

\* Server::send ignores what ws->send returns: behind responses the client has not
\* read yet, more than maxBackpressure of them, uWebSockets drops the next one.
Serve ==
  /\ requests # <<>>
  /\ requests' = Tail(requests)
  /\ \/ replies' = Append(replies, Head(requests))
     \/ replies # <<>> /\ UNCHANGED replies
  /\ UNCHANGED <<connVars, taskVars, caller, historyVars>>

Disconnect ==
  /\ ws = "live"
  /\ ws' = "closed"
  /\ Drops
  /\ UNCHANGED <<opened, userClosed, rspEvt, message, connectedSem, taskVars, caller,
                 historyVars>>

Init ==
  /\ opened = FALSE /\ userClosed = FALSE /\ rspEvt = FALSE /\ message = 0
  /\ connectedSem = 0 /\ ws = "none"
  /\ starter = "idle" /\ listen = "none" /\ refused = FALSE
  /\ caller = [c \in Caller |-> Idle]
  /\ requests = <<>> /\ replies = <<>>
  /\ session = 0 /\ queries = 0 /\ disturbed = FALSE

Next ==
  \/ Start \/ Acquired \/ Connected \/ ConnectFails \/ ConnectRefused
  \/ Receive \/ ListenEnds \/ Close
  \/ \E c \in Caller : Query(c) \/ Sent(c) \/ Reads(c) \/ Cancel(c)
  \/ Serve \/ Disconnect

\* The event loop runs every task that is ready, connecting ends one way or
\* another (it has a timeout), and a connected server answers.  Nobody has to
\* call anything, and nothing has to fail.
Fairness ==
  /\ WF_vars(Acquired)
  /\ WF_vars(Connected \/ ConnectFails \/ ConnectRefused)
  /\ WF_vars(Receive) /\ WF_vars(ListenEnds)
  /\ \A c \in Caller : WF_vars(Sent(c)) /\ WF_vars(Reads(c))
  /\ WF_vars(Serve)

Spec == Init /\ [][Next]_vars /\ Fairness
-----------------------------------------------------------------------------
(* Properties.                                                             *)

Step == {"idle", "sending", "waiting", "woken", "answered", "failed"}

TypeOK ==
  /\ opened \in BOOLEAN /\ userClosed \in BOOLEAN /\ rspEvt \in BOOLEAN
  /\ message \in 0..MaxQueries /\ connectedSem \in 0..1
  /\ ws \in {"none", "live", "closed"}
  /\ starter \in {"idle", "acquiring", "returned", "raised"}
  /\ listen \in {"none", "connecting", "receiving", "ended"}
  /\ refused \in BOOLEAN
  /\ caller \in [Caller -> [at : Step, query : 0..MaxQueries, got : 0..MaxQueries,
                            evt : 0..MaxSessions]]
  /\ requests \in Seq(1..MaxQueries) /\ replies \in Seq(1..MaxQueries)
  /\ session \in 0..MaxSessions /\ queries \in 0..MaxQueries
  /\ disturbed \in BOOLEAN

\* One event and one slot are enough for one query at a time: as long as no two
\* queries overlapped and none was cancelled since the connection was opened,
\* a query returns the response to its own request, whatever was in flight when
\* an earlier connection was lost.
AnswersMatch ==
  [][\A c \in Caller : At(c, "answered")' /\ ~At(c, "answered") /\ ~disturbed' =>
       caller'[c].got = caller'[c].query]_vars

\* Nobody waits for what nobody will give: start() waits for a semaphore that
\* is free or that the task connecting releases, close() leaves the task that
\* listens a socket that ends, and a query that is waiting, in an undisturbed
\* session, has its request with the server or its response on the way to a
\* task that listens.
WaitersAreWoken ==
  /\ starter = "acquiring" /\ ~refused => connectedSem > 0 \/ listen = "connecting"
  /\ userClosed /\ opened => ws = "closed" /\ listen = "receiving"
  /\ \A c \in Caller :
       At(c, "waiting") /\ caller[c].evt = session /\ ~disturbed /\ ws = "live" =>
         listen = "receiving" /\ (requests # <<>> \/ replies # <<>>)

\* Used that way a query ends, unless the connection does.
QueryEnds ==
  \A c \in Caller :
    InQuery(c) /\ caller[c].evt \in {0, session} ~>
      ~InQuery(c) \/ disturbed \/ ws # "live"

\* start() comes back whether connecting succeeds or fails, unless connecting
\* raises what open() does not handle.
StartEnds == starter = "acquiring" ~> starter # "acquiring" \/ refused

\* close() ends the task that listens, also with responses still to read.
CloseEnds == userClosed /\ opened ~> listen = "ended" /\ ~opened

-----------------------------------------------------------------------------
(* What the comments say and the code does not do.                         *)

\* "if there is an active query when we are disconnected, the query task is
\* cancelled, raising an exception" (connection.py).
DisconnectEndsQueries ==
  \A c \in Caller : At(c, "waiting") /\ listen = "ended" ~> ~At(c, "waiting")
=============================================================================
