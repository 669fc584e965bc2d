----------------------- MODULE ServerLifecycle_proofs -----------------------
(***************************************************************************)
(* Proofs about ServerLifecycle: its types, the set of clients that        *)
(* Server::stop ends, and what it takes for the two threads to use what    *)
(* the other has freed, for any number of clients and signals.  Then about *)
(* Startup: it implements ServerLifecycle, so that what is proved of the   *)
(* server holds of a server that was configured, and it serves only with   *)
(* what the configuration asks for.                                        *)
(***************************************************************************)
EXTENDS Startup, TLAPS

\* The latch has been counted down by every signal, and once by main() itself
\* when the server did not start.
LatchCounts ==
  /\ runLatch \in {1 - signals, -signals}
  /\ main \in {"init", "starting", "pinning"} => runLatch = 1 - signals

\* Where the main thread is tells how often it has stopped the server, and
\* m_run is cleared by the first time.
StopsCounted ==
  /\ main \in {"init", "starting", "pinning", "waiting"} => stops = 0
  /\ main = "stopping" => stops \in {0, 1}
  /\ main \in {"ending", "destroying", "joining", "exited"} => stops \in {1, 2}
  /\ m_run <=> stops = 0

\* While no client has done anything since the server began to stop, the clients
\* still to end are open, and none is left once they have been ended.
EndsAreOpen ==
  Running /\ late = {} =>
    /\ main = "ending" => toEnd \subseteq Open
    /\ main = "stopping" /\ stops = 1 => m_clients = {}

IInv == TypeOK /\ LatchCounts /\ StopsCounted /\ ClientsTracked /\ EndsAreOpen

-----------------------------------------------------------------------------

THEOREM InitInv == Init => IInv
<1> SUFFICES ASSUME Init PROVE IInv
  OBVIOUS
<1> USE MaxSignalsAssumption, ClientAssumption DEF Init
<1>1. TypeOK
  <2>1. runLatch \in -MaxSignals..1 /\ signals \in 0..MaxSignals /\ stops \in 0..2
    OBVIOUS
  <2>2. socket \in [Client -> {"none", "accepted", "open", "closed"}]
    OBVIOUS
  <2>. QED  BY <2>1, <2>2 DEF TypeOK
<1>2. LatchCounts /\ StopsCounted
  BY DEF LatchCounts, StopsCounted
<1>3. ClientsTracked /\ EndsAreOpen
  BY DEF ClientsTracked, EndsAreOpen, Open, Running
<1> QED
  BY <1>1, <1>2, <1>3 DEF IInv

-----------------------------------------------------------------------------
(* Each step keeps the invariant.                                          *)

LEMMA StepInv == IInv /\ [Next]_vars => IInv'
<1> SUFFICES ASSUME IInv, [Next]_vars PROVE IInv'
  OBVIOUS
<1> USE MaxSignalsAssumption, ClientAssumption
<1> USE DEF IInv, vars, serverVars, loopVars, stopVars, historyVars, At
<1>0. CASE UNCHANGED vars
  BY <1>0 DEF TypeOK, LatchCounts, StopsCounted, ClientsTracked, EndsAreOpen,
              Open, Running
<1>1. CASE Run
  <2>1. TypeOK'
    BY <1>1 DEF Run, TypeOK, Running
  <2>2. LatchCounts'
    BY <1>1 DEF Run, LatchCounts, TypeOK, Running
  <2>3. StopsCounted'
    BY <1>1 DEF Run, StopsCounted, TypeOK, Running
  <2>4. ClientsTracked'
    BY <1>1 DEF Run, ClientsTracked, StopsCounted, Open, TypeOK, Running
  <2>5. EndsAreOpen'
    BY <1>1 DEF Run, EndsAreOpen, ClientsTracked, StopsCounted, Open, TypeOK, Running
  <2>. QED  BY <2>1, <2>2, <2>3, <2>4, <2>5
<1>2. CASE RunFails
  <2>1. TypeOK'
    BY <1>2 DEF RunFails, Fails, TypeOK, LatchCounts, Running
  <2>2. LatchCounts'
    BY <1>2 DEF RunFails, Fails, LatchCounts, TypeOK, Running
  <2>3. StopsCounted'
    BY <1>2 DEF RunFails, Fails, StopsCounted, TypeOK, Running
  <2>4. ClientsTracked'
    BY <1>2 DEF RunFails, Fails, ClientsTracked, StopsCounted, Open, TypeOK, Running
  <2>5. EndsAreOpen'
    BY <1>2 DEF RunFails, Fails, EndsAreOpen, ClientsTracked, StopsCounted, Open, TypeOK, Running
  <2>. QED  BY <2>1, <2>2, <2>3, <2>4, <2>5
<1>3. CASE Listen
  <2>1. TypeOK'
    BY <1>3 DEF Listen, TypeOK, Running
  <2>2. LatchCounts'
    BY <1>3 DEF Listen, LatchCounts, TypeOK, Running
  <2>3. StopsCounted'
    BY <1>3 DEF Listen, StopsCounted, TypeOK, Running
  <2>4. ClientsTracked'
    BY <1>3 DEF Listen, ClientsTracked, StopsCounted, Open, TypeOK, Running
  <2>5. EndsAreOpen'
    BY <1>3 DEF Listen, EndsAreOpen, ClientsTracked, StopsCounted, Open, TypeOK, Running
  <2>. QED  BY <2>1, <2>2, <2>3, <2>4, <2>5
<1>4. CASE ListenFails
  <2>1. TypeOK'
    BY <1>4 DEF ListenFails, Fails, TypeOK, LatchCounts, Running
  <2>2. LatchCounts'
    BY <1>4 DEF ListenFails, Fails, LatchCounts, TypeOK, Running
  <2>3. StopsCounted'
    BY <1>4 DEF ListenFails, Fails, StopsCounted, TypeOK, Running
  <2>4. ClientsTracked'
    BY <1>4 DEF ListenFails, Fails, ClientsTracked, StopsCounted, Open, TypeOK, Running
  <2>5. EndsAreOpen'
    BY <1>4 DEF ListenFails, Fails, EndsAreOpen, ClientsTracked, StopsCounted, Open, TypeOK, Running
  <2>. QED  BY <2>1, <2>2, <2>3, <2>4, <2>5
<1>5. CASE Started
  <2>1. TypeOK'
    BY <1>5 DEF Started, TypeOK, Running
  <2>2. LatchCounts'
    BY <1>5 DEF Started, LatchCounts, TypeOK, Running
  <2>3. StopsCounted'
    BY <1>5 DEF Started, StopsCounted, TypeOK, Running
  <2>4. ClientsTracked'
    BY <1>5 DEF Started, ClientsTracked, StopsCounted, Open, TypeOK, Running
  <2>5. EndsAreOpen'
    BY <1>5 DEF Started, EndsAreOpen, ClientsTracked, StopsCounted, Open, TypeOK, Running
  <2>. QED  BY <2>1, <2>2, <2>3, <2>4, <2>5
<1>6. CASE PinFails
  <2>1. TypeOK'
    BY <1>6 DEF PinFails, Fails, TypeOK, LatchCounts, Running
  <2>2. LatchCounts'
    BY <1>6 DEF PinFails, Fails, LatchCounts, TypeOK, Running
  <2>3. StopsCounted'
    BY <1>6 DEF PinFails, Fails, StopsCounted, TypeOK, Running
  <2>4. ClientsTracked'
    BY <1>6 DEF PinFails, Fails, ClientsTracked, StopsCounted, Open, TypeOK, Running
  <2>5. EndsAreOpen'
    BY <1>6 DEF PinFails, Fails, EndsAreOpen, ClientsTracked, StopsCounted, Open, TypeOK, Running
  <2>. QED  BY <2>1, <2>2, <2>3, <2>4, <2>5
<1>7. CASE Signal
  <2>1. TypeOK'
    BY <1>7 DEF Signal, TypeOK, LatchCounts, Running
  <2>2. LatchCounts'
    BY <1>7 DEF Signal, LatchCounts, TypeOK, Running
  <2>3. StopsCounted'
    BY <1>7 DEF Signal, StopsCounted, TypeOK, Running
  <2>4. ClientsTracked'
    BY <1>7 DEF Signal, ClientsTracked, StopsCounted, Open, TypeOK, Running
  <2>5. EndsAreOpen'
    BY <1>7 DEF Signal, EndsAreOpen, ClientsTracked, StopsCounted, Open, TypeOK, Running
  <2>. QED  BY <2>1, <2>2, <2>3, <2>4, <2>5
<1>8. CASE Wake
  <2>1. TypeOK'
    BY <1>8 DEF Wake, TypeOK, Running
  <2>2. LatchCounts'
    BY <1>8 DEF Wake, LatchCounts, TypeOK, Running
  <2>3. StopsCounted'
    BY <1>8 DEF Wake, StopsCounted, TypeOK, Running
  <2>4. ClientsTracked'
    BY <1>8 DEF Wake, ClientsTracked, StopsCounted, Open, TypeOK, Running
  <2>5. EndsAreOpen'
    BY <1>8 DEF Wake, EndsAreOpen, ClientsTracked, StopsCounted, Open, TypeOK, Running
  <2>. QED  BY <2>1, <2>2, <2>3, <2>4, <2>5
<1>9. CASE Stop
  <2>1. TypeOK'
    <3>1. stops \in {0, 1}
      BY <1>9 DEF Stop, StopsCounted
    <3>2. stops' \in 0..2
      BY <1>9, <3>1 DEF Stop
    <3>3. m_run' \in BOOLEAN /\ main' = "ending"
      BY <1>9 DEF Stop
    <3>. QED  BY <1>9, <3>2, <3>3 DEF Stop, TypeOK
  <2>2. LatchCounts'
    BY <1>9 DEF Stop, LatchCounts, TypeOK, Running
  <2>3. StopsCounted'
    BY <1>9 DEF Stop, StopsCounted, TypeOK, Running
  <2>4. ClientsTracked'
    BY <1>9 DEF Stop, ClientsTracked, StopsCounted, Open, TypeOK, Running
  <2>5. EndsAreOpen'
    BY <1>9 DEF Stop, EndsAreOpen, ClientsTracked, StopsCounted, Open, TypeOK, Running
  <2>. QED  BY <2>1, <2>2, <2>3, <2>4, <2>5
<1>10. ASSUME NEW c \in Client, EndClient(c) PROVE IInv'
  <2>1. TypeOK'
    BY <1>10 DEF EndClient, TypeOK, Running
  <2>2. LatchCounts'
    BY <1>10 DEF EndClient, LatchCounts, TypeOK, Running
  <2>3. StopsCounted'
    BY <1>10 DEF EndClient, StopsCounted, TypeOK, Running
  <2>4. ClientsTracked'
    BY <1>10 DEF EndClient, ClientsTracked, StopsCounted, Open, TypeOK, Running
  <2>5. EndsAreOpen'
    BY <1>10 DEF EndClient, EndsAreOpen, ClientsTracked, StopsCounted, Open, TypeOK, Running
  <2>. QED  BY <2>1, <2>2, <2>3, <2>4, <2>5
<1>11. CASE CloseSockets
  <2>1. TypeOK'
    BY <1>11 DEF CloseSockets, AfterStop, TypeOK, Running
  <2>2. LatchCounts'
    BY <1>11 DEF CloseSockets, AfterStop, LatchCounts, TypeOK, Running
  <2>3. StopsCounted'
    BY <1>11 DEF CloseSockets, AfterStop, StopsCounted, TypeOK, Running
  <2>4. ClientsTracked'
    BY <1>11 DEF CloseSockets, AfterStop, ClientsTracked, StopsCounted, Open, TypeOK, Running
  <2>5. EndsAreOpen'
    BY <1>11 DEF CloseSockets, AfterStop, EndsAreOpen, ClientsTracked, StopsCounted, Open, TypeOK, Running
  <2>. QED  BY <2>1, <2>2, <2>3, <2>4, <2>5
<1>12. CASE Destroy
  <2>1. TypeOK'
    BY <1>12 DEF Destroy, TypeOK, Running
  <2>2. LatchCounts'
    BY <1>12 DEF Destroy, LatchCounts, TypeOK, Running
  <2>3. StopsCounted'
    BY <1>12 DEF Destroy, StopsCounted, TypeOK, Running
  <2>4. ClientsTracked'
    BY <1>12 DEF Destroy, ClientsTracked, StopsCounted, Open, TypeOK, Running
  <2>5. EndsAreOpen'
    BY <1>12 DEF Destroy, EndsAreOpen, ClientsTracked, StopsCounted, Open, TypeOK, Running
  <2>. QED  BY <2>1, <2>2, <2>3, <2>4, <2>5
<1>13. CASE Exit
  <2>1. TypeOK'
    BY <1>13 DEF Exit, TypeOK, Running
  <2>2. LatchCounts'
    BY <1>13 DEF Exit, LatchCounts, TypeOK, Running
  <2>3. StopsCounted'
    BY <1>13 DEF Exit, StopsCounted, TypeOK, Running
  <2>4. ClientsTracked'
    BY <1>13 DEF Exit, ClientsTracked, StopsCounted, Open, TypeOK, Running
  <2>5. EndsAreOpen'
    BY <1>13 DEF Exit, EndsAreOpen, ClientsTracked, StopsCounted, Open, TypeOK, Running
  <2>. QED  BY <2>1, <2>2, <2>3, <2>4, <2>5
<1>14. ASSUME NEW c \in Client, Accept(c) PROVE IInv'
  <2>1. TypeOK'
    BY <1>14 DEF Accept, LoopFree, TypeOK, Running
  <2>2. LatchCounts'
    BY <1>14 DEF Accept, LoopFree, LatchCounts, TypeOK, Running
  <2>3. StopsCounted'
    BY <1>14 DEF Accept, LoopFree, StopsCounted, TypeOK, Running
  <2>4. ClientsTracked'
    BY <1>14 DEF Accept, LoopFree, ClientsTracked, StopsCounted, Open, TypeOK, Running
  <2>5. EndsAreOpen'
    BY <1>14 DEF Accept, LoopFree, EndsAreOpen, ClientsTracked, StopsCounted, Open, TypeOK, Running
  <2>. QED  BY <2>1, <2>2, <2>3, <2>4, <2>5
<1>15. ASSUME NEW c \in Client, Dropped(c) PROVE IInv'
  <2>1. TypeOK'
    BY <1>15 DEF Dropped, LoopFree, TypeOK, Running
  <2>2. LatchCounts'
    BY <1>15 DEF Dropped, LoopFree, LatchCounts, TypeOK, Running
  <2>3. StopsCounted'
    BY <1>15 DEF Dropped, LoopFree, StopsCounted, TypeOK, Running
  <2>4. ClientsTracked'
    BY <1>15 DEF Dropped, LoopFree, ClientsTracked, StopsCounted, Open, TypeOK, Running
  <2>5. EndsAreOpen'
    BY <1>15 DEF Dropped, LoopFree, EndsAreOpen, ClientsTracked, StopsCounted, Open, TypeOK, Running
  <2>. QED  BY <2>1, <2>2, <2>3, <2>4, <2>5
<1>16. ASSUME NEW c \in Client, ClientOpens(c) PROVE IInv'
  <2>1. TypeOK'
    BY <1>16 DEF ClientOpens, LoopFree, Notes, TypeOK, Running
  <2>2. LatchCounts'
    BY <1>16 DEF ClientOpens, LoopFree, Notes, LatchCounts, TypeOK, Running
  <2>3. StopsCounted'
    BY <1>16 DEF ClientOpens, LoopFree, Notes, StopsCounted, TypeOK, Running
  <2>4. ClientsTracked'
    BY <1>16 DEF ClientOpens, LoopFree, Notes, ClientsTracked, StopsCounted, Open, TypeOK, Running
  <2>5. EndsAreOpen'
    BY <1>16 DEF ClientOpens, LoopFree, Notes, EndsAreOpen, ClientsTracked, StopsCounted, Open, TypeOK, Running
  <2>. QED  BY <2>1, <2>2, <2>3, <2>4, <2>5
<1>17. ASSUME NEW c \in Client, ClientCloses(c) PROVE IInv'
  <2>1. TypeOK'
    BY <1>17 DEF ClientCloses, LoopFree, Notes, TypeOK, Running
  <2>2. LatchCounts'
    BY <1>17 DEF ClientCloses, LoopFree, Notes, LatchCounts, TypeOK, Running
  <2>3. StopsCounted'
    BY <1>17 DEF ClientCloses, LoopFree, Notes, StopsCounted, TypeOK, Running
  <2>4. ClientsTracked'
    BY <1>17 DEF ClientCloses, LoopFree, Notes, ClientsTracked, StopsCounted, Open, TypeOK, Running
  <2>5. EndsAreOpen'
    BY <1>17 DEF ClientCloses, LoopFree, Notes, EndsAreOpen, ClientsTracked, StopsCounted, Open, TypeOK, Running
  <2>. QED  BY <2>1, <2>2, <2>3, <2>4, <2>5
<1>18. ASSUME NEW c \in Client, MessageBegins(c) PROVE IInv'
  <2>1. TypeOK'
    BY <1>18 DEF MessageBegins, LoopFree, Notes, TypeOK, Running
  <2>2. LatchCounts'
    BY <1>18 DEF MessageBegins, LoopFree, Notes, LatchCounts, TypeOK, Running
  <2>3. StopsCounted'
    BY <1>18 DEF MessageBegins, LoopFree, Notes, StopsCounted, TypeOK, Running
  <2>4. ClientsTracked'
    BY <1>18 DEF MessageBegins, LoopFree, Notes, ClientsTracked, StopsCounted, Open, TypeOK, Running
  <2>5. EndsAreOpen'
    BY <1>18 DEF MessageBegins, LoopFree, Notes, EndsAreOpen, ClientsTracked, StopsCounted, Open, TypeOK, Running
  <2>. QED  BY <2>1, <2>2, <2>3, <2>4, <2>5
<1>19. CASE MessageEnds
  <2>1. TypeOK'
    BY <1>19 DEF MessageEnds, TypeOK, Running
  <2>2. LatchCounts'
    BY <1>19 DEF MessageEnds, LatchCounts, TypeOK, Running
  <2>3. StopsCounted'
    BY <1>19 DEF MessageEnds, StopsCounted, TypeOK, Running
  <2>4. ClientsTracked'
    BY <1>19 DEF MessageEnds, ClientsTracked, StopsCounted, Open, TypeOK, Running
  <2>5. EndsAreOpen'
    BY <1>19 DEF MessageEnds, EndsAreOpen, ClientsTracked, StopsCounted, Open, TypeOK, Running
  <2>. QED  BY <2>1, <2>2, <2>3, <2>4, <2>5
<1>20. CASE LoopEnds
  <2>1. TypeOK'
    BY <1>20 DEF LoopEnds, LoopFree, TypeOK, Running
  <2>2. LatchCounts'
    BY <1>20 DEF LoopEnds, LoopFree, LatchCounts, TypeOK, Running
  <2>3. StopsCounted'
    BY <1>20 DEF LoopEnds, LoopFree, StopsCounted, TypeOK, Running
  <2>4. ClientsTracked'
    BY <1>20 DEF LoopEnds, LoopFree, ClientsTracked, StopsCounted, Open, TypeOK, Running
  <2>5. EndsAreOpen'
    BY <1>20 DEF LoopEnds, LoopFree, EndsAreOpen, ClientsTracked, StopsCounted, Open, TypeOK, Running
  <2>. QED  BY <2>1, <2>2, <2>3, <2>4, <2>5
<1>. QED  BY <1>0, <1>1, <1>2, <1>3, <1>4, <1>5, <1>6, <1>7, <1>8, <1>9, <1>10, <1>11, <1>12, <1>13, <1>14, <1>15, <1>16, <1>17, <1>18, <1>19, <1>20 DEF Next, MainNext, StopNext, ClientNext

-----------------------------------------------------------------------------
(* The theorems.                                                           *)

LEMMA AlwaysInv == Spec => []IInv
<1>1. Init => IInv
  BY InitInv
<1>2. IInv /\ [Next]_vars => IInv'
  BY StepInv
<1>. QED  BY <1>1, <1>2, PTL DEF Spec

\* Every variable keeps its type; the latch goes below zero by no more than the
\* signals that were sent.
THEOREM TypeCorrect == Spec => []TypeOK
<1>1. IInv => TypeOK
  BY DEF IInv
<1>. QED  BY <1>1, AlwaysInv, PTL

\* Until the server stops, m_clients is the set of the open websockets, however
\* many clients come and go.
THEOREM AlwaysTracked == Spec => []ClientsTracked
<1>1. IInv => ClientsTracked
  BY DEF IInv
<1>. QED  BY <1>1, AlwaysInv, PTL

\* What one step of either thread can do wrong.
LEMMA FaultStep ==
  ASSUME IInv, Next, Running, fault' # "none"
  PROVE  late' # {} \/ busy' # "none"
<1> USE ClientAssumption
<1> USE DEF IInv, vars, serverVars, loopVars, stopVars, historyVars, At
<1>1. ASSUME NEW c \in Client, EndClient(c)
      PROVE  late' # {} \/ busy' # "none"
  BY <1>1 DEF EndClient, EndsAreOpen, Open, Running
<1>2. CASE Destroy
  BY <1>2 DEF Destroy, Running
<1>3. ASSUME NEW c \in Client, ClientOpens(c)
      PROVE  late' # {}
  BY <1>3 DEF ClientOpens, Notes, StopsCounted, TypeOK, Running
<1>4. ASSUME NEW c \in Client, ClientCloses(c)
      PROVE  late' # {}
  BY <1>4 DEF ClientCloses, Notes, StopsCounted, TypeOK, Running
<1>5. ASSUME NEW c \in Client, MessageBegins(c)
      PROVE  busy' # "none"
  BY <1>5 DEF MessageBegins
<1>6. ASSUME Run \/ RunFails \/ Listen \/ ListenFails \/ Started \/ PinFails
               \/ Wake \/ Stop \/ CloseSockets \/ Exit \/ MessageEnds \/ LoopEnds
               \/ Signal \/ \E c \in Client : Accept(c) \/ Dropped(c)
      PROVE  FALSE
  BY <1>6 DEF Run, RunFails, Listen, ListenFails, Started, PinFails, Fails, Wake,
              Stop, CloseSockets, Exit, MessageEnds, LoopEnds, Signal, Accept,
              Dropped, Running
<1>. QED  BY <1>1, <1>2, <1>3, <1>4, <1>5, <1>6 DEF Next, MainNext, StopNext, ClientNext

\* The threads use what the other has freed only if a client does something while
\* the server stops, or if a message is being handled then.
THEOREM FaultsOnlyLate == Spec => FaultsAreLate
<1>1. IInv /\ [Next]_vars => [fault' # "none" /\ Running => late' # {} \/ busy' # "none"]_vars
  BY FaultStep
<1>. QED  BY <1>1, AlwaysInv, PTL DEF Spec, FaultsAreLate

\* Unless a client opened since the server began to stop, the clients that are open
\* are still to be ended, and none is left when Server::stop is called again.
EndsReachAll ==
  Running /\ "opens" \notin late =>
    /\ main = "stopping" /\ stops = 1 => Open = {}
    /\ main = "ending" => Open \subseteq toEnd
    /\ main \in {"destroying", "joining"} => Open = {} /\ ~listening

LEMMA EndsReachStep == IInv /\ EndsReachAll /\ [Next]_vars => EndsReachAll'
<1> SUFFICES ASSUME IInv, EndsReachAll, [Next]_vars, Running', "opens" \notin late'
             PROVE  EndsReachAll'
  BY DEF EndsReachAll
<1> USE DEF IInv, EndsReachAll, serverVars, loopVars, stopVars, historyVars, At
<1>1. CASE UNCHANGED vars
  BY <1>1 DEF vars, Open, Running
<1>2. CASE Run \/ RunFails \/ Listen \/ ListenFails \/ Started \/ PinFails \/ Wake
  <2>1. main \in {"init", "starting", "pinning", "waiting"} /\ stops = 0
    BY <1>2 DEF Run, RunFails, Listen, ListenFails, Started, PinFails, Wake,
                StopsCounted
  <2>2. main' \in {"starting", "pinning", "waiting", "stopping"} /\ stops' = stops
    BY <1>2 DEF Run, RunFails, Listen, ListenFails, Started, PinFails, Fails, Wake
  <2>. QED  BY <2>1, <2>2
\* The first time m_clients is walked, it is all that is open; the second time it
\* is empty, and so is what is open.
<1>3. CASE Stop
  <2>1. /\ main = "stopping" /\ main' = "ending" /\ toEnd' = m_clients
        /\ Running /\ Open' = Open /\ late' = late
    BY <1>3 DEF Stop, Open
  <2>2. CASE stops = 0
    BY <2>1, <2>2 DEF StopsCounted, ClientsTracked
  <2>3. CASE stops = 1
    BY <2>1, <2>3
  <2>. QED  BY <2>1, <2>2, <2>3 DEF StopsCounted
<1>4. ASSUME NEW c \in Client, EndClient(c) PROVE EndsReachAll'
  <2>1. /\ Running /\ main = "ending" /\ main' = "ending" /\ late' = late
        /\ toEnd' = toEnd \ {c}
    BY <1>4 DEF EndClient
  <2>2. socket' = [socket EXCEPT ![c] = "closed"]
    BY <1>4 DEF EndClient, Running
  <2>3. Open' \subseteq Open \ {c}
    BY <2>2 DEF Open, TypeOK
  <2>. QED  BY <2>1, <2>3
<1>5. CASE CloseSockets
  <2>1. /\ Running /\ main = "ending" /\ toEnd = {} /\ late' = late
        /\ Open' = Open /\ listening' = FALSE
    BY <1>5 DEF CloseSockets, Open
  <2>. QED  BY <2>1
<1>6. CASE Destroy \/ Exit
  <2>1. /\ main' \in {"joining", "exited"} /\ main \in {"destroying", "joining"}
        /\ Running /\ late' = late /\ Open' = Open /\ listening' = listening
    BY <1>6 DEF Destroy, Exit, Open
  <2>. QED  BY <2>1
<1>7. ASSUME NEW c \in Client, ClientOpens(c) PROVE EndsReachAll'
  <2>1. m_run /\ stops' = stops /\ main' = main
    BY <1>7 DEF ClientOpens, Notes
  <2>. QED  BY <2>1 DEF StopsCounted, TypeOK
<1>8. ASSUME NEW c \in Client,
             Accept(c) \/ Dropped(c) \/ ClientCloses(c) \/ MessageBegins(c)
      PROVE  EndsReachAll'
  <2>1. /\ Running /\ late \subseteq late'
        /\ UNCHANGED <<main, stops, toEnd, listening>>
    BY <1>8 DEF Accept, Dropped, ClientCloses, MessageBegins, LoopFree, Notes
  <2>2. Open' \subseteq Open
    BY <1>8 DEF Accept, Dropped, ClientCloses, MessageBegins, Open, TypeOK
  <2>. QED  BY <2>1, <2>2
<1>9. CASE MessageEnds \/ LoopEnds \/ Signal
  <2>1. Running /\ UNCHANGED <<main, stops, toEnd, listening, socket, late>>
    BY <1>9 DEF MessageEnds, LoopEnds, LoopFree, Signal
  <2>. QED  BY <2>1 DEF Open
<1>. QED  BY <1>1, <1>2, <1>3, <1>4, <1>5, <1>6, <1>7, <1>8, <1>9
          DEF Next, MainNext, StopNext, ClientNext

LEMMA EndsReachInit == Init => EndsReachAll
  BY DEF Init, EndsReachAll

\* When the loop is about to be waited for, Server::stop has ended every client but
\* those that completed their handshake while the server stopped.
THEOREM StopEndsAll == Spec => []StopEndsClients
<1>1. EndsReachAll => StopEndsClients
  BY DEF EndsReachAll, StopEndsClients
<1>. QED  BY <1>1, EndsReachInit, EndsReachStep, AlwaysInv, PTL DEF Spec

-----------------------------------------------------------------------------
(* The server process from its command line on.                            *)

\* A step of the process is a step of the server or leaves the server alone.
LEMMA StartupStep == [StartupNext]_allVars => [Next]_vars
<1> SUFFICES ASSUME [StartupNext]_allVars PROVE [Next]_vars
  OBVIOUS
<1>1. CASE ReadConfig \/ LoadThrows
  BY <1>1 DEF ReadConfig, LoadThrows
<1>2. CASE ServerStarts
  BY <1>2 DEF ServerStarts, Next, MainNext
<1>3. CASE LoopServes
  BY <1>3 DEF LoopServes, Next
<1>4. CASE SignalCaught
  BY <1>4 DEF SignalCaught, Next
<1>5. CASE UNCHANGED allVars
  BY <1>5 DEF allVars
<1>. QED  BY <1>1, <1>2, <1>3, <1>4, <1>5 DEF StartupNext

\* Reading a configuration and failing for a reason takes nothing from the server
\* and adds nothing to it: its safety properties hold of the whole process.
THEOREM StartupImplementsServer == StartupSpec => Init /\ [][Next]_vars
<1>1. StartupInit => Init
  BY DEF StartupInit
<1>. QED  BY <1>1, StartupStep, PTL DEF StartupSpec

LEMMA StartupAlwaysInv == StartupSpec => []IInv
<1>1. Init => IInv
  BY InitInv
<1>2. IInv /\ [Next]_vars => IInv'
  BY StepInv
<1>. QED  BY <1>1, <1>2, StartupImplementsServer, PTL

\* Until a configured server stops, m_clients is the set of the open websockets.
THEOREM StartupAlwaysTracked == StartupSpec => []ClientsTracked
<1>1. IInv => ClientsTracked
  BY DEF IInv
<1>. QED  BY <1>1, StartupAlwaysInv, PTL

\* The threads of a configured server, too, use what the other has freed only if a
\* client does something while it stops, or if a message is being handled then.
THEOREM StartupFaultsLate == StartupSpec => FaultsAreLate
<1>1. IInv /\ [Next]_vars => [fault' # "none" /\ Running => late' # {} \/ busy' # "none"]_vars
  BY FaultStep
<1>. QED  BY <1>1, StartupAlwaysInv, StartupImplementsServer, PTL DEF FaultsAreLate

\* Nor does it matter what the process was started with for whom Server::stop ends:
\* every client but those that completed their handshake meanwhile.
THEOREM StartupStopEndsAll == StartupSpec => []StopEndsClients
<1>1. EndsReachAll => StopEndsClients
  BY DEF EndsReachAll, StopEndsClients
<1>. QED  BY <1>1, EndsReachInit, EndsReachStep, StartupAlwaysInv,
             StartupImplementsServer, PTL

-----------------------------------------------------------------------------
(* What a server that serves was given.                                    *)

\* Every phase the main thread has passed keeps what it tested.
StartInv ==
  /\ given \in Givens
  /\ settings # "valid" => main = "init"
  /\ settings = "valid" => ReadSettings(Args, File) = "valid"
  /\ main \in {"starting", "pinning", "waiting"} =>
       PersistUsable(File) /\ (AsksForLoad(Args) => LoadIs("complete"))
  /\ main \in {"pinning", "waiting"} => given.portFree
  /\ main = "waiting" => Pinned

LEMMA StartInvStep == StartInv /\ [StartupNext]_allVars => StartInv'
<1> SUFFICES ASSUME StartInv, [StartupNext]_allVars PROVE StartInv'
  OBVIOUS
<1> USE DEF StartInv, At, serverVars, loopVars, stopVars, historyVars, startVars, vars, allVars,
            Args, File, LoadIs, Pinned
<1>1. CASE ReadConfig
  BY <1>1 DEF ReadConfig
<1>2. CASE LoadThrows
  BY <1>2 DEF LoadThrows
<1>3. CASE ServerStarts
  <2>1. settings = "valid" /\ UNCHANGED <<given, settings>>
    BY <1>3 DEF ServerStarts
  <2>2. CASE PersistUsable(File) /\ (AsksForLoad(Args) => LoadIs("complete")) /\ Run
    BY <2>1, <2>2 DEF Run
  <2>3. CASE RunFails
    BY <2>1, <2>3 DEF RunFails, Fails
  <2>4. CASE Listen /\ given.portFree
    BY <2>1, <2>4 DEF Listen
  <2>5. CASE ListenFails \/ PinFails
    BY <2>1, <2>5 DEF ListenFails, PinFails, Fails
  <2>6. CASE Started /\ Pinned
    BY <2>1, <2>6 DEF Started
  <2>7. CASE StopNext
    BY <2>1, <2>7 DEF StopNext, Wake, Stop, EndClient, CloseSockets, AfterStop, Destroy, Exit
  <2>. QED  BY <1>3, <2>2, <2>3, <2>4, <2>5, <2>6, <2>7 DEF ServerStarts
<1>4. CASE LoopServes
  BY <1>4 DEF LoopServes, MessageEnds, LoopEnds, ClientNext, Accept, Dropped, ClientOpens,
              ClientCloses, MessageBegins
<1>5. CASE SignalCaught
  BY <1>5 DEF SignalCaught, Signal
<1>6. CASE UNCHANGED allVars
  BY <1>6
<1>. QED  BY <1>1, <1>2, <1>3, <1>4, <1>5, <1>6 DEF StartupNext

\* A process serves only if it was given all that the code needs (readConfig,
\* Server::init, Server::run), which is not in all what the documents ask for.
THEOREM ServesOnlyIfAble == StartupSpec => [](main = "waiting" => Able)
<1>1. StartupInit => StartInv
  BY DEF StartupInit, Init, StartInv
<1>2. StartInv => (main = "waiting" => Able)
  <2> SUFFICES ASSUME StartInv, main = "waiting" PROVE Able
    OBVIOUS
  <2>1. /\ ReadSettings(Args, File) = "valid"
        /\ PersistUsable(File) /\ (AsksForLoad(Args) => LoadIs("complete"))
        /\ given.portFree /\ Pinned
    BY DEF StartInv
  <2>2. /\ Args.parsed /\ ~Args.help /\ IsThere(Args.config)
        /\ Accepts(File)
        /\ AsksForLoad(Args) => IsThere(LoadPath(Args, File))
        /\ File.core # NoCore
    BY <2>1 DEF ReadSettings
  <2>3. File.core \in Nat /\ given.cores \in Nat
    BY <2>2, GivensAssumption DEF StartInv, File
  <2>4. IF File.core > given.cores THEN 0 \in given.allowed ELSE File.core \in given.allowed
    BY <2>1, <2>3 DEF Pinned, CoreFor
  <2>5. /\ File.json /\ File.wrong = {} /\ File.version = 6
        /\ File.enabled => File.path = "directory"
    BY <2>1, <2>2 DEF Accepts, ConfigVersion, PersistUsable
  <2>6. File.maxPayload \in MinPayload..MaxPayload
    BY <2>2 DEF Accepts
  <2>7. AsksForLoad(Args) => given.saved = "complete"
    BY <2>1 DEF LoadIs
  <2>. QED  BY <2>1, <2>2, <2>4, <2>5, <2>6, <2>7 DEF Able, WellGiven, MayRunOn
<1>. QED  BY <1>1, <1>2, StartInvStep, PTL DEF StartupSpec
=============================================================================
