------------------------ MODULE PyConnection_proofs ------------------------
(***************************************************************************)
(* Proofs about PyConnection: its types, that a query that did not overlap *)
(* another returns the response to its own request, and that no wakeup is  *)
(* lost, for any number of callers, queries and sessions.                  *)
(***************************************************************************)
EXTENDS PyConnection, SequenceTheorems, TLAPS

\* A query that uses the connection of this session.  One left behind by an
\* earlier session waits for an event that nobody sets any more.
Active(c) == InQuery(c) /\ ~(At(c, "waiting") /\ caller[c].evt # session)

Unanswered == requests = <<>> /\ replies = <<>>

\* Where open() is tells what it has made of the connection, and a caller can
\* only wait for the event of a session that was started.
TasksAgree ==
  /\ opened => listen = "receiving"
  /\ ws = "live" => listen = "receiving"
  /\ starter = "returned" => listen \in {"receiving", "ended"}
  /\ listen = "connecting" => connectedSem = 0 /\ Unanswered /\ ~rspEvt
  /\ \A c \in Caller : caller[c].evt <= session

\* Where the one answer to the query of c is: still to come, in the replies, in
\* the slot with the event set, or in the slot with c woken - or it is lost.
Answering(c) ==
  LET q == caller[c].query
  IN  IF At(c, "woken") THEN Unanswered /\ message = q
      ELSE \/ requests = <<q>> /\ replies = <<>> /\ ~rspEvt
           \/ requests = <<>> /\ replies = <<q>> /\ ~rspEvt
           \/ Unanswered /\ At(c, "sending") /\ rspEvt /\ message = q
           \/ Unanswered /\ ~rspEvt /\ ws # "live"

\* Undisturbed, at most one query is in flight, and nothing but its request
\* and its response: a live connection without a query has nothing to give.
OneInFlight ==
  ~disturbed =>
    /\ \A c, d \in Caller : Active(c) /\ Active(d) => c = d
    /\ \A c \in Caller : Active(c) => listen # "connecting" /\ Answering(c)
    /\ ws = "live" /\ (\A c \in Caller : ~Active(c)) => Unanswered /\ ~rspEvt

IInv == TypeOK /\ TasksAgree /\ OneInFlight

-----------------------------------------------------------------------------
(* Sequences.                                                              *)

\* A queue with one element: how it comes about, and what is left of it.
LEMMA OneElement ==
  ASSUME NEW x
  PROVE  /\ Append(<<>>, x) = <<x>>
         /\ <<x>> # <<>> /\ Head(<<x>>) = x /\ Tail(<<x>>) = <<>>
  OBVIOUS

\* What a lost connection leaves to read are replies, in their order (Close,
\* Disconnect).
LEMMA WhatIsLeft ==
  ASSUME replies \in Seq(1..MaxQueries), Drops
  PROVE  /\ requests' = <<>>
         /\ replies' \in Seq(1..MaxQueries)
         /\ replies = <<>> => replies' = <<>>
         /\ \A q : replies = <<q>> => replies' \in {<<>>, <<q>>}
<1>1. PICK k \in 0..Len(replies) : replies' = SubSeq(replies, 1, k)
  BY DEF Drops
<1>2. Len(replies) \in Nat
  BY LenProperties
<1>3. \A i \in 1..k : replies[i] \in 1..MaxQueries
  <2>1. replies \in [1..Len(replies) -> 1..MaxQueries]
    BY LenProperties
  <2>. QED  BY <1>2, <2>1
<1>4. SubSeq(replies, 1, k) \in Seq(1..MaxQueries)
  BY <1>2, <1>3, SubSeqProperties
<1>5. replies = <<>> => replies' = <<>>
  BY <1>1, <1>2, SubSeqEmpty
<1>6. ASSUME NEW q, replies = <<q>> PROVE replies' \in {<<>>, <<q>>}
  <2>1. k \in {0, 1}
    BY <1>6
  <2>2. CASE k = 0
    BY <1>1, <2>2, SubSeqEmpty
  <2>3. CASE k = 1
    BY <1>1, <1>2, <1>6, <2>3, SubSeqFull
  <2>. QED  BY <2>1, <2>2, <2>3
<1>. QED  BY <1>1, <1>4, <1>5, <1>6 DEF Drops

-----------------------------------------------------------------------------
(* Types and tasks.                                                        *)

USE BoundsAssumption

\* What a caller's record may be.
CallerRecord ==
  [at : Step, query : 0..MaxQueries, got : 0..MaxQueries, evt : 0..MaxSessions]

\* A step of a query changes the record of its caller (Query, Sent, Reads,
\* Cancel).
LEMMA CallerStep ==
  ASSUME TypeOK, TasksAgree, NEW c \in Caller,
         Query(c) \/ Sent(c) \/ Reads(c) \/ Cancel(c)
  PROVE  \E r \in CallerRecord :
           caller' = [caller EXCEPT ![c] = r] /\ r.evt <= session
<1>. USE DEF CallerRecord, Step
<1>1. caller \in [Caller -> CallerRecord] /\ caller[c].evt <= session
  BY DEF TypeOK, TasksAgree
<1>2. session \in 0..MaxSessions /\ message \in 0..MaxQueries
  BY DEF TypeOK
<1>3. /\ [caller[c] EXCEPT !.at = "failed"] \in CallerRecord
      /\ [caller[c] EXCEPT !.at = "failed"].evt = caller[c].evt
  BY <1>1
<1>4. /\ [caller[c] EXCEPT !.at = "answered", !.got = message] \in CallerRecord
      /\ [caller[c] EXCEPT !.at = "answered", !.got = message].evt = caller[c].evt
  BY <1>1, <1>2
<1>5. CASE Query(c)
  <2>1. PICK step \in {"sending", "failed"} :
          caller' = [caller EXCEPT ![c] = [Idle EXCEPT !.at = step,
                                                       !.query = queries + 1]]
    BY <1>5 DEF Query
  <2>2. queries + 1 \in 0..MaxQueries
    BY <1>5 DEF Query, TypeOK
  <2>3. Idle \in CallerRecord /\ Idle.evt = 0
    BY DEF Idle
  <2>4. /\ [Idle EXCEPT !.at = step, !.query = queries + 1] \in CallerRecord
        /\ [Idle EXCEPT !.at = step, !.query = queries + 1].evt = 0
    BY <2>2, <2>3
  <2>5. PICK r : r = [Idle EXCEPT !.at = step, !.query = queries + 1]
    OBVIOUS
  <2>6. caller' = [caller EXCEPT ![c] = r] /\ r \in CallerRecord /\ r.evt <= session
    BY <1>2, <2>1, <2>4, <2>5
  <2>. QED  BY <2>6
<1>6. CASE Sent(c)
  <2>1. CASE caller' = [caller EXCEPT ![c].at = "waiting", ![c].evt = session]
    <3>1. [caller[c] EXCEPT !.at = "waiting", !.evt = session] \in CallerRecord
          /\ [caller[c] EXCEPT !.at = "waiting", !.evt = session].evt = session
      BY <1>1, <1>2
    <3>2. caller' = [caller EXCEPT ![c] =
                       [caller[c] EXCEPT !.at = "waiting", !.evt = session]]
      BY <1>1, <2>1
    <3>3. PICK r : r = [caller[c] EXCEPT !.at = "waiting", !.evt = session]
      OBVIOUS
    <3>4. caller' = [caller EXCEPT ![c] = r] /\ r \in CallerRecord /\ r.evt <= session
      BY <1>2, <3>1, <3>2, <3>3
    <3>. QED  BY <3>4
  <2>2. CASE caller' = [caller EXCEPT ![c] = Answered(c)]
    BY <1>1, <1>4, <2>2 DEF Answered
  <2>3. CASE caller' = [caller EXCEPT ![c] = Failed(c)]
    BY <1>1, <1>3, <2>3 DEF Failed
  <2>. QED  BY <1>6, <2>1, <2>2, <2>3, Zenon DEF Sent
<1>7. CASE Reads(c)
  BY <1>1, <1>4, <1>7 DEF Reads, Answered
<1>8. CASE Cancel(c)
  BY <1>1, <1>3, <1>8 DEF Cancel, Failed
<1>. QED  BY <1>5, <1>6, <1>7, <1>8

\* So the records of the callers stay in their type.
LEMMA CallerType ==
  ASSUME TypeOK, TasksAgree, NEW c \in Caller,
         Query(c) \/ Sent(c) \/ Reads(c) \/ Cancel(c)
  PROVE  caller' \in [Caller -> CallerRecord]
<1>1. PICK r \in CallerRecord : caller' = [caller EXCEPT ![c] = r]
  BY CallerStep
<1>2. caller \in [Caller -> CallerRecord]
  BY DEF TypeOK, CallerRecord
<1>. QED  BY ONLY <1>1, <1>2

\* Every step keeps every variable in its type.
LEMMA TypeStep == TypeOK /\ TasksAgree /\ [Next]_vars => TypeOK'
<1>. SUFFICES ASSUME TypeOK, TasksAgree, [Next]_vars PROVE TypeOK'
  OBVIOUS
<1>c. ASSUME NEW c \in Caller, Query(c) \/ Sent(c) \/ Reads(c) \/ Cancel(c)
      PROVE  caller' \in [Caller -> CallerRecord]
  BY <1>c, CallerType
<1>. USE DEF TypeOK, Step, connVars, taskVars, wireVars, historyVars
<1>1. CASE Start
  <2>1. session' \in 0..MaxSessions /\ requests' \in Seq(1..MaxQueries)
        /\ replies' \in Seq(1..MaxQueries)
    BY <1>1, EmptySeq DEF Start
  <2>2. disturbed' \in BOOLEAN
    BY <1>1, Zenon DEF Start
  <2>3. /\ opened' = FALSE /\ userClosed' = FALSE /\ rspEvt' = FALSE
        /\ connectedSem' = 0 /\ ws' = "none" /\ starter' = "acquiring"
        /\ listen' = "connecting" /\ refused' = FALSE
        /\ UNCHANGED <<message, caller, queries>>
    BY <1>1 DEF Start
  <2>4. connectedSem' \in 0..1
    BY <2>3
  <2>. QED  BY <2>1, <2>2, <2>3, <2>4, Zenon
<1>2. CASE Acquired
  BY <1>2 DEF Acquired
<1>3. CASE Connected
  BY <1>3 DEF Connected, TasksAgree
<1>11. CASE ConnectFails
  <2>1. connectedSem' \in 0..1
    BY <1>11 DEF ConnectFails
  <2>. QED  BY <1>11, <2>1 DEF ConnectFails
<1>12. CASE ConnectRefused
  BY <1>12 DEF ConnectRefused
<1>4. CASE Receive
  <2>1. Head(replies) \in 1..MaxQueries /\ Tail(replies) \in Seq(1..MaxQueries)
    BY <1>4, HeadTailProperties DEF Receive
  <2>2. caller' \in [Caller -> CallerRecord]
    BY <1>4 DEF Receive, Woken, CallerRecord
  <2>. QED  BY <1>4, <2>1, <2>2 DEF Receive, CallerRecord
<1>5. CASE ListenEnds
  BY <1>5 DEF ListenEnds
<1>6. CASE Close \/ Disconnect
  <2>1. requests' \in Seq(1..MaxQueries) /\ replies' \in Seq(1..MaxQueries)
    BY <1>6, WhatIsLeft, EmptySeq DEF Close, Disconnect
  <2>2. ws' = "closed" /\ (userClosed' = TRUE \/ UNCHANGED userClosed)
    BY <1>6 DEF Close, Disconnect
  <2>3. UNCHANGED <<opened, rspEvt, message, connectedSem, taskVars, caller, historyVars>>
    BY <1>6 DEF Close, Disconnect
  <2>. QED  BY <2>1, <2>2, <2>3, Zenon
<1>7. ASSUME NEW c \in Caller, Query(c) PROVE TypeOK'
  <2>1. queries < MaxQueries /\ queries' = queries + 1
        /\ (requests' = requests \/ requests' = Append(requests, queries + 1))
    BY <1>7, Zenon DEF Query
  <2>2. queries \in 0..MaxQueries /\ requests \in Seq(1..MaxQueries)
    OBVIOUS
  <2>3. queries + 1 \in 1..MaxQueries /\ queries' \in 0..MaxQueries
    BY ONLY <2>1, <2>2, BoundsAssumption
  <2>4. requests' \in Seq(1..MaxQueries)
    <3>1. PICK id : id = queries + 1
      OBVIOUS
    <3>2. PICK Ids : Ids = 1..MaxQueries
      OBVIOUS
    <3>3. Append(requests, id) \in Seq(Ids)
      <4>1. id \in Ids /\ requests \in Seq(Ids)
        BY ONLY <2>2, <2>3, <3>1, <3>2
      <4>. QED  BY ONLY <4>1, AppendProperties
    <3>. QED  BY ONLY <2>1, <2>2, <3>1, <3>2, <3>3
  <2>5. caller' \in [Caller -> CallerRecord]
    BY ONLY <1>c, <1>7, c \in Caller
  <2>6. disturbed' \in BOOLEAN
    BY <1>7, Zenon DEF Query
  <2>7. UNCHANGED <<connVars, taskVars, replies, session>>
    BY <1>7, Zenon DEF Query
  <2>8. UNCHANGED <<opened, userClosed, rspEvt, message, connectedSem, ws,
                    starter, listen, refused>>
    BY <2>7, Zenon
  <2>. QED  BY ONLY TypeOK, <2>3, <2>4, <2>5, <2>6, <2>7, <2>8, Zenon DEF TypeOK, CallerRecord, Step
<1>8. ASSUME NEW c \in Caller, Sent(c) \/ Reads(c) \/ Cancel(c) PROVE TypeOK'
  <2>1. caller' \in [Caller -> CallerRecord]
    BY ONLY <1>c, <1>8, c \in Caller
  <2>2. rspEvt' \in BOOLEAN /\ disturbed' \in BOOLEAN
    BY <1>8, Zenon DEF Sent, Reads, Cancel
  <2>3. UNCHANGED <<opened, userClosed, message, connectedSem, ws, taskVars, wireVars,
                    session, queries>>
    BY <1>8, Zenon DEF Sent, Reads, Cancel
  <2>4. UNCHANGED <<starter, listen, refused, requests, replies>>
    BY <2>3, Zenon
  <2>. QED  BY ONLY TypeOK, <2>1, <2>2, <2>3, <2>4, Zenon DEF TypeOK, CallerRecord, Step
<1>9. CASE Serve
  <2>1. /\ Tail(requests) \in Seq(1..MaxQueries)
        /\ Append(replies, Head(requests)) \in Seq(1..MaxQueries)
    BY <1>9, HeadTailProperties, AppendProperties DEF Serve
  <2>2. requests' \in Seq(1..MaxQueries) /\ replies' \in Seq(1..MaxQueries)
    BY <1>9, <2>1 DEF Serve
  <2>3. UNCHANGED <<connVars, taskVars, caller, historyVars>>
    BY <1>9, Zenon DEF Serve
  <2>. QED  BY <2>2, <2>3, Zenon
<1>10. CASE UNCHANGED vars
  BY <1>10 DEF vars
<1>. QED
  BY <1>1, <1>2, <1>3, <1>4, <1>5, <1>6, <1>7, <1>8, <1>9, <1>10, <1>11,
     <1>12 DEF Next

\* Every step keeps the tasks in agreement.
LEMMA TasksStep == TypeOK /\ TasksAgree /\ [Next]_vars => TasksAgree'
<1>. SUFFICES ASSUME TypeOK, TasksAgree, [Next]_vars PROVE TasksAgree'
  OBVIOUS
<1>. USE DEF TypeOK, TasksAgree, Unanswered, connVars, taskVars, wireVars, historyVars
<1>1. CASE Start
  BY <1>1 DEF Start
<1>2. CASE Acquired \/ Connected \/ ConnectFails \/ ConnectRefused
  BY <1>2 DEF Acquired, Connected, ConnectFails, ConnectRefused
<1>3. CASE Receive \/ ListenEnds
  <2>1. \A c \in Caller : caller'[c].evt = caller[c].evt
    BY <1>3 DEF Receive, ListenEnds, Woken, CallerRecord
  <2>. QED  BY <1>3, <2>1 DEF Receive, ListenEnds
<1>4. CASE Close \/ Disconnect
  BY <1>4, WhatIsLeft DEF Close, Disconnect
<1>5. ASSUME NEW c \in Caller, Query(c) \/ Sent(c) \/ Reads(c) \/ Cancel(c)
      PROVE  TasksAgree'
  <2>1. \A d \in Caller : caller'[d].evt <= session
    BY <1>5, CallerStep DEF CallerRecord
  <2>2. UNCHANGED <<opened, ws, starter, listen, connectedSem, session>>
    BY <1>5 DEF Query, Sent, Reads, Cancel
  <2>3. listen = "connecting" => UNCHANGED <<requests, replies>> /\ ~rspEvt'
    BY <1>5 DEF Query, Sent, Reads, Cancel
  <2>. QED  BY <2>1, <2>2, <2>3
<1>6. CASE Serve
  BY <1>6 DEF Serve
<1>7. CASE UNCHANGED vars
  BY <1>7 DEF vars
<1>. QED
  BY <1>1, <1>2, <1>3, <1>4, <1>5, <1>6, <1>7 DEF Next

-----------------------------------------------------------------------------
(* One query in flight.                                                    *)

\* The steps of open() keep the one answer where it can be found.
LEMMA OpenStep ==
  ASSUME IInv,
         Start \/ Acquired \/ Connected \/ ConnectFails \/ ConnectRefused
           \/ ListenEnds
  PROVE  OneInFlight'
<1>. USE DEF IInv, TypeOK, TasksAgree, OneInFlight, Active, InQuery, At, Answering,
             Unanswered, connVars, taskVars, wireVars, historyVars
<1>1. CASE Start
  <2>1. ASSUME ~disturbed', NEW c \in Caller PROVE ~Active(c)'
    <3>1. caller[c].evt <= session /\ caller[c].evt \in 0..MaxSessions
      OBVIOUS
    <3>2. caller' = caller /\ session' = session + 1 /\ session \in Nat
      BY <1>1 DEF Start
    <3>3. InQuery(c) => At(c, "waiting")
      BY <1>1, <2>1 DEF Start
    <3>. QED  BY <3>1, <3>2, <3>3
  <2>. QED  BY <1>1, <2>1 DEF Start
<1>2. CASE Acquired
  BY <1>2 DEF Acquired
<1>3. CASE Connected \/ ConnectFails \/ ConnectRefused
  BY <1>3 DEF Connected, ConnectFails, ConnectRefused
<1>4. CASE ListenEnds
  BY <1>4 DEF ListenEnds, NoneWoken
<1>. QED  BY <1>1, <1>2, <1>3, <1>4

\* A response is put into the slot of the one query it can be for.
LEMMA ReceiveStep == IInv /\ Receive => OneInFlight'
<1>. SUFFICES ASSUME IInv, Receive, ~disturbed' PROVE OneInFlight'
  BY DEF OneInFlight
<1>. USE DEF IInv, TypeOK, OneInFlight, Active, InQuery, At, Answering, Unanswered,
             taskVars, historyVars
<1>1. ASSUME NEW c \in Caller
      PROVE  /\ Active(c)' <=> Active(c)
             /\ caller'[c].query = caller[c].query
             /\ caller'[c].at \in {caller[c].at, "woken"}
             /\ Active(c) => caller'[c].at # "waiting"
             /\ caller'[c].at = "woken" => Active(c)
  BY DEF Receive, Woken, NoneWoken
<1>2. ASSUME NEW c \in Caller, Active(c) PROVE listen' # "connecting" /\ Answering(c)'
  <2>1. ~At(c, "woken") /\ replies # <<>>
    BY DEF Receive, NoneWoken
  <2>2. requests = <<>> /\ replies = <<caller[c].query>>
    BY <1>2, <2>1 DEF Receive
  <2>3. message' = caller[c].query /\ replies' = <<>> /\ rspEvt' /\ requests' = <<>>
    BY <2>2, OneElement DEF Receive
  <2>4. At(c, "woken")' \/ At(c, "sending")'
    BY <1>1, <1>2, <2>1
  <2>. QED  BY <1>1, <2>3, <2>4 DEF Receive
<1>3. ws # "live" \/ \E c \in Caller : Active(c)
  BY DEF Receive
<1>. QED  BY <1>1, <1>2, <1>3 DEF Receive

\* The server moves the answer from the requests to the replies; what is lost
\* with the connection is not read any more.
LEMMA WireStep == IInv /\ (Close \/ Disconnect \/ Serve) => OneInFlight'
<1>. SUFFICES ASSUME IInv, Close \/ Disconnect \/ Serve, ~disturbed'
     PROVE  OneInFlight'
  BY DEF OneInFlight
<1>. USE DEF IInv, TypeOK, OneInFlight, Active, InQuery, At, Answering, Unanswered,
             connVars, taskVars, historyVars
<1>1. CASE Close \/ Disconnect
  <2>1. /\ requests' = <<>> /\ ws' = "closed"
        /\ replies = <<>> => replies' = <<>>
        /\ \A q : replies = <<q>> => replies' \in {<<>>, <<q>>}
    BY <1>1, WhatIsLeft DEF Close, Disconnect
  <2>2. UNCHANGED <<rspEvt, message, listen, caller, session, disturbed>>
    BY <1>1 DEF Close, Disconnect
  <2>. QED  BY <2>1, <2>2
<1>2. CASE Serve
  <2>1. UNCHANGED <<rspEvt, message, ws, listen, caller, session, disturbed>>
    BY <1>2 DEF Serve
  <2>2. ASSUME NEW c \in Caller, Active(c) PROVE Answering(c)'
    <3>1. CASE requests = <<caller[c].query>> /\ replies = <<>> /\ ~rspEvt
      <4>1. requests' = <<>> /\ replies' = <<caller[c].query>>
        BY <1>2, <3>1, OneElement DEF Serve
      <4>. QED  BY <2>1, <2>2, <3>1, <4>1
    <3>2. CASE requests = <<>>
      BY <1>2, <3>2 DEF Serve
    <3>. QED  BY <2>1, <2>2, <3>1, <3>2
  <2>3. ws # "live" \/ \E c \in Caller : Active(c)
    BY <1>2 DEF Serve
  <2>. QED  BY <2>1, <2>2, <2>3
<1>. QED  BY <1>1, <1>2

\* A query that finds the connection undisturbed finds it without a query.
LEMMA QueryStep ==
  ASSUME IInv, NEW c \in Caller, Query(c)
  PROVE  OneInFlight'
<1>. SUFFICES ASSUME ~disturbed' PROVE OneInFlight'
  BY DEF OneInFlight
<1>. USE DEF IInv, TypeOK, TasksAgree, OneInFlight, Active, InQuery, At, Answering,
             Unanswered, connVars, taskVars, Idle
<1>1. PICK r : caller' = [caller EXCEPT ![c] = r]
               /\ \/ /\ ws = "live" /\ r.at = "sending" /\ r.query = queries + 1
                     /\ requests' = Append(requests, queries + 1)
                     /\ \A d \in Caller : ~Active(d)
                  \/ /\ ws = "closed" /\ r.at = "failed"
                     /\ UNCHANGED requests
  <2>1. CASE ws = "live"
    <3>1. PICK r : r = [Idle EXCEPT !.at = "sending", !.query = queries + 1]
      OBVIOUS
    <3>2. r.at = "sending" /\ r.query = queries + 1
      BY <3>1
    <3>. QED  BY <2>1, <3>1, <3>2 DEF Query
  <2>2. CASE ws # "live"
    <3>1. PICK r : r = [Idle EXCEPT !.at = "failed", !.query = queries + 1]
      OBVIOUS
    <3>2. r.at = "failed"
      BY <3>1
    <3>. QED  BY <2>2, <3>1, <3>2 DEF Query
  <2>. QED  BY <2>1, <2>2
<1>2. /\ UNCHANGED <<rspEvt, message, ws, listen, replies, session>>
      /\ ~disturbed /\ ~Active(c)
  BY DEF Query
<1>3. CASE ws = "live" /\ r.at = "sending"
  <2>1. \A d \in Caller : Active(d)' => d = c
    BY <1>1, <1>2, <1>3
  <2>2. requests' = <<r.query>> /\ Unanswered /\ ~rspEvt
    BY <1>1, <1>2, <1>3, OneElement
  <2>3. caller'[c].query = r.query /\ caller'[c].at = "sending"
    BY <1>1, <1>3
  <2>4. Active(c)'
    BY <2>3
  <2>. QED  BY <1>2, <1>3, <2>1, <2>2, <2>3, <2>4
<1>4. CASE ws = "closed" /\ r.at = "failed" /\ UNCHANGED requests
  <2>1. \A d \in Caller : Active(d)' <=> Active(d)
    BY <1>1, <1>2, <1>4
  <2>2. \A d \in Caller : Active(d) => caller'[d] = caller[d]
    BY <1>1, <1>2
  <2>. QED  BY <1>2, <1>4, <2>1, <2>2
<1>. QED  BY <1>1, <1>3, <1>4

\* A query that ends takes its answer out of the slot; one that was sent waits
\* for it.
LEMMA AnswerStep ==
  ASSUME IInv, NEW c \in Caller, Sent(c) \/ Reads(c)
  PROVE  OneInFlight'
<1>. SUFFICES ASSUME ~disturbed' PROVE OneInFlight'
  BY DEF OneInFlight
<1>. USE DEF IInv, TypeOK, TasksAgree, OneInFlight, Active, InQuery, At, Answering,
             Unanswered, connVars, taskVars, wireVars, historyVars
<1>1. /\ Active(c) /\ Answering(c) /\ ~disturbed /\ listen # "connecting"
      /\ \A d \in Caller : Active(d) => d = c
  BY DEF Sent, Reads
<1>2. UNCHANGED <<message, ws, listen, requests, replies, session, disturbed>>
  BY DEF Sent, Reads
<1>3. CASE caller' \in {[caller EXCEPT ![c] = Answered(c)], [caller EXCEPT ![c] = Failed(c)]}
  <2>0. /\ caller'[c].at \in {"answered", "failed"}
        /\ \A d \in Caller \ {c} : caller'[d] = caller[d]
    BY <1>3 DEF Answered, Failed
  <2>1. \A d \in Caller : ~Active(d)'
    BY <1>1, <1>2, <2>0
  <2>2. ws = "live" => Unanswered /\ ~rspEvt'
    <3>1. CASE Sent(c)
      BY <1>1, <1>3, <2>0, <3>1 DEF Sent
    <3>2. CASE Reads(c)
      BY <1>1, <3>2 DEF Reads
    <3>. QED  BY <3>1, <3>2
  <2>. QED  BY <1>2, <2>1, <2>2
<1>4. CASE ~rspEvt /\ UNCHANGED rspEvt /\ At(c, "sending")
           /\ caller' = [caller EXCEPT ![c].at = "waiting", ![c].evt = session]
  <2>1. /\ caller'[c].at = "waiting" /\ caller'[c].evt = session
        /\ caller'[c].query = caller[c].query
        /\ \A d \in Caller \ {c} : caller'[d] = caller[d]
    BY <1>4
  <2>2. Active(c)' /\ \A d \in Caller : Active(d)' => d = c
    BY <1>1, <1>2, <2>1
  <2>. QED  BY <1>1, <1>2, <1>4, <2>1, <2>2
<1>. QED  BY <1>3, <1>4 DEF Sent, Reads

\* Every step keeps the invariant.
LEMMA InvStep == IInv /\ [Next]_vars => IInv'
<1>. SUFFICES ASSUME IInv, [Next]_vars PROVE OneInFlight'
  BY TypeStep, TasksStep DEF IInv
<1>1. CASE Start \/ Acquired \/ Connected \/ ConnectFails \/ ConnectRefused
           \/ ListenEnds
  BY <1>1, OpenStep
<1>2. CASE Receive
  BY <1>2, ReceiveStep
<1>3. CASE Close \/ Disconnect \/ Serve
  BY <1>3, WireStep
<1>4. ASSUME NEW c \in Caller, Query(c) PROVE OneInFlight'
  BY <1>4, QueryStep
<1>5. ASSUME NEW c \in Caller, Sent(c) \/ Reads(c) PROVE OneInFlight'
  BY <1>5, AnswerStep
<1>6. ASSUME NEW c \in Caller, Cancel(c) PROVE OneInFlight'
  BY <1>6 DEF Cancel, OneInFlight
<1>7. CASE UNCHANGED vars
  BY <1>7 DEF vars, connVars, taskVars, wireVars, historyVars, IInv, OneInFlight,
              Active, InQuery, At, Answering, Unanswered
<1>. QED  BY <1>1, <1>2, <1>3, <1>4, <1>5, <1>6, <1>7 DEF Next

\* The state a connection starts from.
LEMMA InvInit == Init => IInv
<1>. SUFFICES ASSUME Init PROVE IInv
  OBVIOUS
<1>1. Idle \in CallerRecord
  BY DEF Idle, CallerRecord, Step
<1>2. TypeOK
  <2>1. caller \in [Caller -> CallerRecord]
    BY <1>1 DEF Init
  <2>2. requests \in Seq(1..MaxQueries) /\ replies \in Seq(1..MaxQueries)
    BY EmptySeq DEF Init
  <2>3. 0 \in 0..MaxQueries /\ 0 \in 0..MaxSessions /\ 0 \in 0..1
    OBVIOUS
  <2>. QED  BY <2>1, <2>2, <2>3, Zenon DEF Init, TypeOK, CallerRecord
<1>3. TasksAgree
  BY DEF Init, TasksAgree, Idle
<1>4. OneInFlight
  BY DEF Init, OneInFlight, Active, InQuery, At, Idle
<1>. QED  BY <1>2, <1>3, <1>4 DEF IInv

LEMMA Invariance == Spec => []IInv
  BY InvInit, InvStep, PTL DEF Spec

\* Every variable of the connection stays in its type (connection.py).
THEOREM TypeCorrect == Spec => []TypeOK
<1>1. IInv => TypeOK
  BY DEF IInv
<1>. QED  BY <1>1, Invariance, PTL

\* A query that returns, in a session in which no two queries overlapped and
\* none was cancelled, returns the response to its own request - whatever was
\* in flight when an earlier connection was lost (query, open and start of
\* connection.py).
THEOREM AnswersAreOwn == Spec => AnswersMatch
<1>1. ASSUME IInv, [Next]_vars, NEW c \in Caller,
             At(c, "answered")', ~At(c, "answered"), ~disturbed'
      PROVE  caller'[c].got = caller'[c].query
  <2>1. Sent(c) \/ Reads(c)
    <3>1. ASSUME NEW d \in Caller, Query(d) \/ Cancel(d) PROVE FALSE
      BY <1>1, <3>1 DEF Query, Cancel, Failed, At, Idle, IInv, TypeOK
    <3>2. ASSUME NEW d \in Caller, d # c, Sent(d) \/ Reads(d) PROVE FALSE
      BY <1>1, <3>2 DEF Sent, Reads, Answered, Failed, At, IInv, TypeOK
    <3>3. CASE Receive
      BY <1>1, <3>3 DEF Receive, Woken, At, IInv, TypeOK
    <3>. QED
      BY <1>1, <3>1, <3>2, <3>3
         DEF Next, vars, Start, Acquired, Connected, ConnectFails, ConnectRefused,
             ListenEnds, Close, Serve, Disconnect, At
  <2>2. Active(c) /\ Answering(c)
    BY <1>1, <2>1 DEF Sent, Reads, Active, InQuery, At, IInv, OneInFlight,
                      historyVars
  <2>3. caller' = [caller EXCEPT ![c] = Answered(c)] /\ (At(c, "woken") \/ rspEvt)
    BY <1>1, <2>1 DEF Sent, Reads, Answered, Failed, At, IInv, TypeOK
  <2>4. message = caller[c].query
    BY <2>2, <2>3 DEF Answering
  <2>5. caller[c] \in CallerRecord /\ caller'[c] = Answered(c)
    BY <1>1, <2>3 DEF IInv, TypeOK, CallerRecord
  <2>6. Answered(c).got = message /\ Answered(c).query = caller[c].query
    BY <2>5 DEF Answered, CallerRecord
  <2>. QED  BY <2>4, <2>5, <2>6
<1>2. IInv /\ [Next]_vars =>
        [\A c \in Caller : At(c, "answered")' /\ ~At(c, "answered") /\ ~disturbed' =>
           caller'[c].got = caller'[c].query]_vars
  BY <1>1
<1>. QED  BY <1>2, Invariance, PTL DEF Spec, AnswersMatch

-----------------------------------------------------------------------------
(* Nobody waits for what nobody will give.                                 *)

\* What start() waits for, and what close() has left of the connection.
Released ==
  /\ starter = "acquiring" /\ ~refused => connectedSem > 0 \/ listen = "connecting"
  /\ userClosed => ws = "closed" /\ listen \in {"receiving", "ended"}

\* Every step keeps that.
LEMMA ReleasedStep == TypeOK /\ TasksAgree /\ Released /\ [Next]_vars => Released'
<1>. SUFFICES ASSUME TypeOK, TasksAgree, Released, [Next]_vars PROVE Released'
  OBVIOUS
<1>. USE DEF TypeOK, TasksAgree, Released
<1>1. CASE Start
  BY <1>1 DEF Start
<1>2. CASE Acquired
  <2>1. starter' # "acquiring" /\ UNCHANGED <<userClosed, ws, listen>>
    BY <1>2 DEF Acquired
  <2>. QED  BY <2>1
<1>3. CASE Connected \/ ConnectFails \/ ConnectRefused
  BY <1>3 DEF Connected, ConnectFails, ConnectRefused
<1>4. CASE Receive \/ ListenEnds
  BY <1>4 DEF Receive, ListenEnds, taskVars
<1>5. CASE Close \/ Disconnect
  BY <1>5 DEF Close, Disconnect, taskVars
<1>6. ASSUME NEW c \in Caller, Query(c) \/ Sent(c) \/ Reads(c) \/ Cancel(c)
      PROVE  UNCHANGED <<userClosed, connectedSem, ws, starter, listen, refused>>
  BY <1>6 DEF Query, Sent, Reads, Cancel, connVars, taskVars
<1>7. CASE Serve
  BY <1>7 DEF Serve, connVars, taskVars
<1>8. CASE UNCHANGED vars
  BY <1>8 DEF vars, connVars, taskVars
<1>. QED
  BY <1>1, <1>2, <1>3, <1>4, <1>5, <1>6, <1>7, <1>8 DEF Next

\* No wakeup is lost: whoever waits in start(), or for the end of close(), or in
\* a query of an undisturbed session on a live connection, waits for something
\* that is there or that another task has still to give (connection.py).
THEOREM NoWakeupIsLost == Spec => []WaitersAreWoken
<1>1. Init => Released
  BY DEF Init, Released
<1>2. IInv /\ Released /\ [Next]_vars => Released'
  BY ReleasedStep DEF IInv
<1>3. IInv /\ Released => WaitersAreWoken
  <2>. SUFFICES ASSUME IInv, Released PROVE WaitersAreWoken
    OBVIOUS
  <2>1. ASSUME NEW c \in Caller, At(c, "waiting"), caller[c].evt = session,
               ~disturbed, ws = "live"
        PROVE  listen = "receiving" /\ (requests # <<>> \/ replies # <<>>)
    <3>1. Active(c) /\ ~At(c, "woken") /\ ~At(c, "sending")
      BY <2>1 DEF Active, InQuery, At
    <3>2. Answering(c)
      BY <2>1, <3>1 DEF IInv, OneInFlight
    <3>3. requests # <<>> \/ replies # <<>>
      BY <2>1, <3>1, <3>2, OneElement DEF Answering
    <3>. QED  BY <2>1, <3>3 DEF IInv, TasksAgree
  <2>2. userClosed /\ opened => ws = "closed" /\ listen = "receiving"
    BY DEF IInv, TasksAgree, Released
  <2>. QED  BY <2>1, <2>2 DEF WaitersAreWoken, Released
<1>. QED  BY <1>1, <1>2, <1>3, Invariance, PTL DEF Spec
=============================================================================
