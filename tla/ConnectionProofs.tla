--------------------------- MODULE ConnectionProofs ---------------------------
(***************************************************************************)
(* What holds of the life cycle of a connection for every number of        *)
(* connect() calls, sockets and requests, all addresses and redirections,  *)
(* and, where the theorems have no condition on the threads, for every     *)
(* way the application's, the ticking and the socket's thread interleave.  *)
(***************************************************************************)
EXTENDS Connection, SequenceLemmas

-----------------------------------------------------------------------------
(* Types.                                                                   *)

States == {"closed", "opening", "open"}
Kinds == Answers \union {"none"}
Socket == [state : States, serial : Nat, wire : Seq(Packets), answer : Kinds]
Queue == [composers : Seq(Packets), buffer : Seq(Packets), gracefulClear : BOOLEAN]
Received == [kind : Answers, redirection : Redirections \union {Null}, serial : Nat]
Event == [attempt : 0 .. MaxConnects, kind : Events]

\* The phases a tick goes on with, and those in which it handles a packet.
Resumed == {"idle", "proceed", "receive", "keepalive", "socket"}
HandlingPhases == {"handle", "refuse", "refuseCloses"}

\* Where the three threads are, and that the mutex belongs to the one that is
\* inside a call under it.
ThreadsTyped ==
    /\ tick \in Phases /\ resume \in Resumed
    /\ app \in {"idle", "connect", "request", "disconnect", "joining"} \union CleanupSteps
    /\ callback \in {"none", "opened", "received", "closed", "joining", "cleaned"}
                       \union CleanupSteps
    /\ m_mutex \in {"free", "app", "tick"}
    /\ m_mutex = "app" <=> app \in {"connect", "disconnect"}
    /\ m_mutex = "tick" <=> tick = "hardEnds"
    /\ m_isRunningAsync \in BOOLEAN /\ listening \in BOOLEAN

DataTyped ==
    /\ m_connectionStatus \in Statuses
    /\ m_socket \in Socket /\ m_sendQueue \in Queue
    /\ m_receiveQueue \in Seq(Received)
    /\ IF callback = "received" THEN arriving \in Received ELSE arriving = Null
    /\ tick \in HandlingPhases => handling \in Received
    /\ attempts \in 0 .. MaxConnects
    /\ m_eventDeferrer \in Seq(Event) /\ reports \in Seq(Event)

Typed == ThreadsTyped /\ DataTyped /\ tickMode \in TickModes

\* What closing and opening a socket and offering it bytes do to it.
LEMMA SocketSteps ==
    ASSUME m_socket \in Socket
    PROVE  /\ m_socket.state \in States /\ m_socket.serial \in Nat
           /\ m_socket.wire \in Seq(Packets) /\ m_socket.answer \in Kinds
           /\ CloseSocket => /\ m_socket' \in Socket /\ m_socket'.state = "closed"
                             /\ m_socket'.serial = m_socket.serial /\ m_socket'.wire = m_socket.wire
                             /\ m_socket'.answer = m_socket.answer
           /\ OpenSocket => /\ m_socket' \in Socket /\ m_socket'.state = "opening"
                            /\ m_socket'.serial = m_socket.serial + 1 /\ m_socket'.wire = <<>>
                            /\ m_socket'.answer = "none"
           /\ \A w \in Seq(Packets) : m_socket' = [m_socket EXCEPT !.wire = w] =>
                 /\ m_socket' \in Socket /\ m_socket'.state = m_socket.state
                 /\ m_socket'.serial = m_socket.serial /\ m_socket'.wire = w
                 /\ m_socket'.answer = m_socket.answer
           /\ m_socket' = [m_socket EXCEPT !.state = "open"] =>
                 /\ m_socket' \in Socket /\ m_socket'.state = "open"
                 /\ m_socket'.serial = m_socket.serial /\ m_socket'.wire = m_socket.wire
                 /\ m_socket'.answer = m_socket.answer
           /\ \A k \in Kinds : m_socket' = [m_socket EXCEPT !.answer = k] =>
                 /\ m_socket' \in Socket /\ m_socket'.state = m_socket.state
                 /\ m_socket'.serial = m_socket.serial /\ m_socket'.wire = m_socket.wire
                 /\ m_socket'.answer = k
<1>1. /\ m_socket.state \in States /\ m_socket.serial \in Nat
      /\ m_socket.wire \in Seq(Packets) /\ m_socket.answer \in Kinds
  BY DEF Socket
<1>2. CloseSocket => /\ m_socket' \in Socket /\ m_socket'.state = "closed"
                     /\ m_socket'.serial = m_socket.serial /\ m_socket'.wire = m_socket.wire
                     /\ m_socket'.answer = m_socket.answer
  BY DEF Socket, CloseSocket, States
<1>3. ASSUME OpenSocket
      PROVE  /\ m_socket' \in Socket /\ m_socket'.state = "opening"
             /\ m_socket'.serial = m_socket.serial + 1 /\ m_socket'.wire = <<>>
             /\ m_socket'.answer = "none"
  <2>1. <<>> \in Seq(Packets) /\ "none" \in Kinds
    BY EmptySeq DEF Kinds
  <2>2. m_socket' = [state |-> "opening", serial |-> m_socket.serial + 1, wire |-> <<>>,
                     answer |-> "none"]
    BY <1>3 DEF OpenSocket, NoSocket
  <2>3. m_socket.serial + 1 \in Nat
    BY <1>1
  <2> QED
    BY <2>1, <2>2, <2>3 DEF Socket, States
<1>4. ASSUME NEW w \in Seq(Packets), m_socket' = [m_socket EXCEPT !.wire = w]
      PROVE  /\ m_socket' \in Socket /\ m_socket'.state = m_socket.state
             /\ m_socket'.serial = m_socket.serial /\ m_socket'.wire = w
             /\ m_socket'.answer = m_socket.answer
  BY <1>4 DEF Socket
<1>5. ASSUME m_socket' = [m_socket EXCEPT !.state = "open"]
      PROVE  /\ m_socket' \in Socket /\ m_socket'.state = "open"
             /\ m_socket'.serial = m_socket.serial /\ m_socket'.wire = m_socket.wire
             /\ m_socket'.answer = m_socket.answer
  BY <1>5 DEF Socket, States
<1>6. ASSUME NEW k \in Kinds, m_socket' = [m_socket EXCEPT !.answer = k]
      PROVE  /\ m_socket' \in Socket /\ m_socket'.state = m_socket.state
             /\ m_socket'.serial = m_socket.serial /\ m_socket'.wire = m_socket.wire
             /\ m_socket'.answer = k
  BY <1>6 DEF Socket
<1> QED
  BY <1>1, <1>2, <1>3, <1>4, <1>5, <1>6

\* What clearing the send queue and adding to it do.
LEMMA QueueSteps ==
    ASSUME m_sendQueue \in Queue
    PROVE  /\ m_sendQueue.composers \in Seq(Packets) /\ m_sendQueue.buffer \in Seq(Packets)
           /\ m_sendQueue.gracefulClear \in BOOLEAN
           /\ ClearSendQueue => /\ m_sendQueue' \in Queue /\ m_sendQueue'.composers = <<>>
                                /\ m_sendQueue'.buffer = m_sendQueue.buffer
                                /\ m_sendQueue'.gracefulClear = m_sendQueue.gracefulClear
           /\ \A p \in Packets : AddToQueue(p) =>
                 /\ m_sendQueue' \in Queue
                 /\ m_sendQueue'.composers = Append(m_sendQueue.composers, p)
                 /\ m_sendQueue'.buffer = m_sendQueue.buffer
                 /\ m_sendQueue'.gracefulClear = m_sendQueue.gracefulClear
<1>1. /\ m_sendQueue.composers \in Seq(Packets) /\ m_sendQueue.buffer \in Seq(Packets)
      /\ m_sendQueue.gracefulClear \in BOOLEAN
  BY DEF Queue
<1>2. ASSUME ClearSendQueue
      PROVE  /\ m_sendQueue' \in Queue /\ m_sendQueue'.composers = <<>>
             /\ m_sendQueue'.buffer = m_sendQueue.buffer
             /\ m_sendQueue'.gracefulClear = m_sendQueue.gracefulClear
  BY <1>2, EmptySeq DEF Queue, ClearSendQueue
<1>3. ASSUME NEW p \in Packets, AddToQueue(p)
      PROVE  /\ m_sendQueue' \in Queue
             /\ m_sendQueue'.composers = Append(m_sendQueue.composers, p)
             /\ m_sendQueue'.buffer = m_sendQueue.buffer
             /\ m_sendQueue'.gracefulClear = m_sendQueue.gracefulClear
  <2>1. Append(m_sendQueue.composers, p) \in Seq(Packets)
    BY <1>1, AppendProperties
  <2> QED
    BY <1>3, <2>1 DEF Queue, AddToQueue
<1> QED
  BY <1>1, <1>2, <1>3

\* An event is told or waits.
LEMMA EventSteps ==
    ASSUME Typed
    PROVE  /\ \A kind \in Events : Dispatch(kind) =>
                 m_eventDeferrer' \in Seq(Event) /\ reports' \in Seq(Event)
           /\ \A kind \in Events :
                 Deliver([attempt |-> attempts, kind |-> kind]) \in Seq(Event)
           /\ CleanupBegins => m_eventDeferrer' \in Seq(Event) /\ reports' \in Seq(Event)
<1>1. m_eventDeferrer \in Seq(Event) /\ reports \in Seq(Event) /\ attempts \in 0 .. MaxConnects
  BY DEF Typed, DataTyped
<1>2. ASSUME NEW kind \in Events
      PROVE  /\ Append(m_eventDeferrer, [attempt |-> attempts, kind |-> kind]) \in Seq(Event)
             /\ Append(reports, [attempt |-> attempts, kind |-> kind]) \in Seq(Event)
  <2>1. [attempt |-> attempts, kind |-> kind] \in Event
    BY <1>1 DEF Event
  <2> QED
    BY <1>1, <2>1, AppendProperties
<1>3. \A kind \in Events : Deliver([attempt |-> attempts, kind |-> kind]) \in Seq(Event)
  BY <1>1, <1>2 DEF Deliver
<1>4. ASSUME NEW kind \in Events, Dispatch(kind)
      PROVE  m_eventDeferrer' \in Seq(Event) /\ reports' \in Seq(Event)
  BY <1>1, <1>2, <1>3, <1>4 DEF Dispatch
<1>5. ASSUME CleanupBegins PROVE m_eventDeferrer' \in Seq(Event) /\ reports' \in Seq(Event)
  BY <1>3, <1>5, EmptySeq DEF CleanupBegins, Events
<1> QED
  BY <1>3, <1>4, <1>5

\* What a step of shutdownCleanup() does.
LEMMA CleanupStepTyped ==
    ASSUME Typed, NEW step, NEW next, NEW done, CleanupGoesOn(step, next, done)
    PROVE  /\ m_socket' \in Socket /\ m_sendQueue' \in Queue
           /\ m_receiveQueue' \in Seq(Received)
           /\ \/ step = "closes" /\ next = "clears"
              \/ step = "clears" /\ next = "ends"
              \/ step = "ends" /\ next = done
<1> USE DEF queueVars
<1>1. m_socket \in Socket /\ m_sendQueue \in Queue /\ m_receiveQueue \in Seq(Received)
  BY DEF Typed, DataTyped
<1> QED
  BY <1>1, SocketSteps, QueueSteps, EmptySeq DEF CleanupGoesOn

\* What the beginning of a hard disconnect does to the socket and the queue.
LEMMA HardDisconnectSteps ==
    ASSUME m_socket \in Socket, m_sendQueue \in Queue,
           NEW thread, NEW clearQueue, HardDisconnectBegins(thread, clearQueue)
    PROVE  /\ m_socket' \in Socket /\ m_socket'.state = m_socket.state
           /\ m_socket'.serial = m_socket.serial /\ m_socket'.answer = m_socket.answer
           /\ \/ m_socket' = m_socket
              \/ m_socket.state = "open" /\ m_socket'.wire = Append(m_socket.wire, "DISCONNECT")
           /\ m_sendQueue' \in Queue /\ m_sendQueue'.buffer = m_sendQueue.buffer
           /\ m_sendQueue'.gracefulClear = m_sendQueue.gracefulClear
           /\ IF clearQueue THEN m_sendQueue'.composers = <<>> ELSE m_sendQueue' = m_sendQueue
<1>1. Append(m_socket.wire, "DISCONNECT") \in Seq(Packets)
  BY SocketSteps, AppendProperties DEF Packets
<1>2. \/ m_socket' = m_socket
      \/ m_socket.state = "open" /\ m_socket' = [m_socket EXCEPT !.wire = Append(m_socket.wire, "DISCONNECT")]
  BY DEF HardDisconnectBegins
<1>3. /\ m_socket' \in Socket /\ m_socket'.state = m_socket.state
      /\ m_socket'.serial = m_socket.serial /\ m_socket'.answer = m_socket.answer
      /\ \/ m_socket' = m_socket
         \/ m_socket.state = "open" /\ m_socket'.wire = Append(m_socket.wire, "DISCONNECT")
  BY <1>1, <1>2, SocketSteps
<1> QED
  BY <1>3, QueueSteps DEF HardDisconnectBegins

\* What a batch does: the queue is empty, or emptied; all packets are taken; or none.
LEMMA SendSteps ==
    ASSUME m_socket \in Socket, m_sendQueue \in Queue, SendPackets
    PROVE  /\ m_socket' \in Socket /\ m_socket'.state = m_socket.state
           /\ m_socket'.serial = m_socket.serial /\ m_socket'.answer = m_socket.answer
           /\ m_sendQueue' \in Queue /\ m_sendQueue'.composers = <<>>
           /\ \/ /\ m_sendQueue.composers = <<>> \/ m_sendQueue.gracefulClear
                 /\ UNCHANGED <<m_socket, m_connectionStatus>> /\ tick' = "receive"
                 /\ m_sendQueue'.buffer = m_sendQueue.buffer
                 /\ m_sendQueue'.gracefulClear => m_sendQueue.gracefulClear
              \/ /\ m_sendQueue.composers # <<>> /\ m_socket.state = "open"
                 /\ m_socket'.wire = m_socket.wire \o ComposedPackets
                 /\ m_sendQueue'.buffer = <<>>
                 /\ \/ /\ "DISCONNECT" \in ToSet(ComposedPackets)
                       /\ m_connectionStatus' = "DISCONNECTED" /\ tick' = "sent"
                    \/ /\ "DISCONNECT" \notin ToSet(ComposedPackets)
                       /\ m_connectionStatus' = m_connectionStatus /\ tick' = "receive"
                       /\ ~m_sendQueue'.gracefulClear
              \/ /\ m_sendQueue.composers # <<>> /\ (m_socket.state # "open" \/ SendMayFail)
                 /\ UNCHANGED <<m_socket, m_connectionStatus>>
                 /\ m_sendQueue'.buffer = ComposedPackets
                 /\ m_sendQueue'.gracefulClear = m_sendQueue.gracefulClear
                 /\ tick' \in {"receive", "hard"} /\ resume' = "receive"
<1>1. /\ m_sendQueue.composers \in Seq(Packets) /\ m_sendQueue.buffer \in Seq(Packets)
      /\ m_sendQueue.gracefulClear \in BOOLEAN /\ <<>> \in Seq(Packets)
      /\ ComposedPackets \in Seq(Packets) /\ m_socket.wire \o ComposedPackets \in Seq(Packets)
  BY SocketSteps, QueueSteps, ConcatProperties, EmptySeq DEF ComposedPackets
<1>2. CASE /\ m_sendQueue.composers = <<>> \/ m_sendQueue.gracefulClear
           /\ m_sendQueue' = [m_sendQueue EXCEPT
                !.composers = <<>>,
                !.gracefulClear = @ /\ m_sendQueue.composers = <<>>]
           /\ GoTo("receive")
           /\ UNCHANGED <<m_connectionStatus, m_socket>>
  <2>1. PICK b \in BOOLEAN : /\ m_sendQueue' = [m_sendQueue EXCEPT !.composers = <<>>, !.gracefulClear = b]
                             /\ b => m_sendQueue.gracefulClear
    BY <1>2, Zenon
  <2>2. /\ m_sendQueue' \in Queue /\ m_sendQueue'.composers = <<>>
        /\ m_sendQueue'.buffer = m_sendQueue.buffer /\ m_sendQueue'.gracefulClear = b
    BY <1>1, <2>1 DEF Queue
  <2> QED
    BY <1>2, <2>1, <2>2 DEF GoTo
<1>3. CASE /\ m_sendQueue.composers # <<>> /\ ~m_sendQueue.gracefulClear
           /\ m_socket.state = "open"
           /\ m_socket' = [m_socket EXCEPT !.wire = @ \o ComposedPackets]
           /\ LET disconnects == "DISCONNECT" \in ToSet(ComposedPackets)
              IN  /\ m_sendQueue' = [composers |-> <<>>, buffer |-> <<>>,
                                     gracefulClear |-> disconnects]
                  /\ m_connectionStatus' = IF disconnects THEN "DISCONNECTED"
                                                          ELSE m_connectionStatus
                  /\ GoTo(IF disconnects THEN "sent" ELSE "receive")
  <2> DEFINE disconnects == "DISCONNECT" \in ToSet(ComposedPackets)
  <2> HIDE DEF disconnects
  <2>0. disconnects \in BOOLEAN
    BY DEF disconnects
  <2>1. /\ m_sendQueue' = [composers |-> <<>>, buffer |-> <<>>, gracefulClear |-> disconnects]
        /\ m_connectionStatus' = IF disconnects THEN "DISCONNECTED" ELSE m_connectionStatus
        /\ tick' = IF disconnects THEN "sent" ELSE "receive"
    BY <1>3, Zenon DEF GoTo, disconnects
  <2>2. /\ m_sendQueue' \in Queue /\ m_sendQueue'.composers = <<>>
        /\ m_sendQueue'.buffer = <<>> /\ (m_sendQueue'.gracefulClear <=> disconnects)
    BY <1>1, <2>0, <2>1 DEF Queue
  <2>3. /\ m_socket' \in Socket /\ m_socket'.state = m_socket.state
        /\ m_socket'.serial = m_socket.serial /\ m_socket'.answer = m_socket.answer
        /\ m_socket'.wire = m_socket.wire \o ComposedPackets
    BY <1>1, <1>3, SocketSteps
  <2> QED
    BY <1>3, <2>1, <2>2, <2>3 DEF disconnects
<1>4. CASE /\ m_sendQueue.composers # <<>> /\ ~m_sendQueue.gracefulClear
           /\ m_socket.state # "open" \/ SendMayFail
           /\ m_sendQueue' = [m_sendQueue EXCEPT !.composers = <<>>, !.buffer = ComposedPackets]
           /\ tick' \in {"receive", "hard"} /\ resume' = "receive"
           /\ UNCHANGED <<m_connectionStatus, m_socket, handling>>
  <2>1. /\ m_sendQueue' \in Queue /\ m_sendQueue'.composers = <<>>
        /\ m_sendQueue'.buffer = ComposedPackets
        /\ m_sendQueue'.gracefulClear = m_sendQueue.gracefulClear
    BY <1>1, <1>4 DEF Queue
  <2> QED
    BY <1>4, <2>1
<1> QED
  BY <1>2, <1>3, <1>4 DEF SendPackets

\* The state before the first connect().
LEMMA TypedInit == Init => Typed
<1> SUFFICES ASSUME Init PROVE Typed
  OBVIOUS
<1>1. m_socket \in Socket /\ m_sendQueue \in Queue
  BY EmptySeq DEF Init, NoSocket, Socket, Queue, States, Kinds
<1>2. attempts \in 0 .. MaxConnects
  BY ConnectionAssumption DEF Init, ConnectionAssumption
<1>3. m_isRunningAsync \in BOOLEAN
  BY DEF Init, Async
<1> QED
  BY <1>1, <1>2, <1>3, EmptySeq
     DEF Init, Typed, ThreadsTyped, DataTyped, Statuses, Phases, Resumed, HandlingPhases

\* The tick mode is an option of the client.
LEMMA ModeKept == [Next]_vars => tickMode' = tickMode
<1> USE DEF clientVars, queueVars, eventVars, tickVars, callerVars, callbackVars
<1>1. ASSUME App PROVE tickMode' = tickMode
  BY <1>1 DEF App, ConnectBegins, ConnectEnds, RequestBegins, RequestEnds, GracefulDisconnect,
     DisconnectBegins, HardDisconnectBegins, DisconnectEnds, HardDisconnectEnds, Shutdown,
     AppCleansUp, ShutdownJoins
<1>2. ASSUME Tick PROVE tickMode' = tickMode
  BY <1>2 DEF Tick, CheckTimeOut, TimeOutConnect, TimeOutConnectCloses, TimeOutReconnect,
     ReportLost, TickReconnects, Proceed, SendPackets, DisconnectSent, TickDisconnects,
     TickDisconnected, TakePacket, NoMorePackets, CheckKeepAlive, TickSocket, InvokeEvents,
     TickStops, TickCleansUp, ConnectAccepted, ConnectRefused, RefuseConnect,
     RefuseConnectCloses, ConnAckResumes, DisconnectReceived, DecodeFails,
     FailReconnect, HardDisconnectBegins, HardDisconnectEnds
<1>3. ASSUME Environment PROVE tickMode' = tickMode
  BY <1>3 DEF Environment, SocketOpens, ConnectQueued, SocketFails, SocketErrs,
     CallbackCleansUp, ErrorReports, SocketCloses, SocketClosed, BrokerSends, PacketQueued,
     TimePasses
<1> QED
  BY <1>1, <1>2, <1>3 DEF Next, vars

\* Every step of the three threads keeps the types.
LEMMA TypedNext == Typed /\ [Next]_vars => Typed'
<1> SUFFICES ASSUME Typed, [Next]_vars PROVE Typed'
  OBVIOUS
<1> USE DEF clientVars, queueVars, eventVars, tickVars, callerVars, callbackVars
<1>0. tickMode' \in TickModes
  BY ModeKept DEF Typed
<1>1. CASE ConnectBegins
  <2>1. ThreadsTyped'
    BY <1>1 DEF ConnectBegins, AppMayCall, ReceiveQueueAtConnect, Typed, ThreadsTyped
  <2>2. attempts' \in 0 .. MaxConnects
    BY <1>1, ConnectionAssumption
       DEF ConnectBegins, ConnectionAssumption, Typed, DataTyped
  <2>3. DataTyped'
    BY <1>1, <2>2, EmptySeq
       DEF ConnectBegins, AppMayCall, ReceiveQueueAtConnect, Typed, DataTyped, Statuses
  <2> QED
    BY <1>0, <2>1, <2>3 DEF Typed
<1>2. CASE ConnectEnds
  <2>1. ThreadsTyped'
    BY <1>2 DEF ConnectEnds, SocketRefuses, Typed, ThreadsTyped
  <2>2. DataTyped'
    BY <1>2, SocketSteps DEF ConnectEnds, SocketRefuses, Typed, DataTyped, Statuses
  <2> QED
    BY <1>0, <2>1, <2>2 DEF Typed
<1>3. CASE RequestBegins
  <2>1. ThreadsTyped'
    BY <1>3 DEF RequestBegins, AppMayCall, Typed, ThreadsTyped
  <2>2. DataTyped'
    BY <1>3 DEF RequestBegins, AppMayCall, Typed, DataTyped
  <2> QED
    BY <1>0, <2>1, <2>2 DEF Typed
<1>4. CASE RequestEnds
  <2>1. ThreadsTyped'
    BY <1>4 DEF RequestEnds, Typed, ThreadsTyped
  <2>2. DataTyped'
    BY <1>4, QueueSteps DEF RequestEnds, Typed, DataTyped, Packets
  <2> QED
    BY <1>0, <2>1, <2>2 DEF Typed
<1>5. CASE GracefulDisconnect
  <2>1. ThreadsTyped'
    BY <1>5 DEF GracefulDisconnect, AppMayCall, Typed, ThreadsTyped
  <2>2. DataTyped'
    BY <1>5, QueueSteps DEF GracefulDisconnect, AppMayCall, Typed, DataTyped, Packets
  <2> QED
    BY <1>0, <2>1, <2>2 DEF Typed
<1>6. CASE DisconnectBegins
  <2>1. ThreadsTyped'
    BY <1>6 DEF DisconnectBegins, AppMayCall, HardDisconnectBegins, Typed, ThreadsTyped
  <2>2. m_socket' \in Socket /\ m_sendQueue' \in Queue
    BY <1>6, HardDisconnectSteps DEF DisconnectBegins, Typed, DataTyped
  <2>3. DataTyped'
    BY <1>6, <2>2 DEF DisconnectBegins, HardDisconnectBegins, Typed, DataTyped
  <2> QED
    BY <1>0, <2>1, <2>3 DEF Typed
<1>7. CASE DisconnectEnds
  <2>1. ThreadsTyped'
    BY <1>7 DEF DisconnectEnds, HardDisconnectEnds, Typed, ThreadsTyped
  <2>2. DataTyped'
    BY <1>7, SocketSteps, QueueSteps, EventSteps
       DEF DisconnectEnds, HardDisconnectEnds, Typed, DataTyped, Statuses, Events
  <2> QED
    BY <1>0, <2>1, <2>2 DEF Typed
<1>8. CASE Shutdown
  <2>1. ThreadsTyped'
    BY <1>8
       DEF Shutdown, AppMayCall, ShutdownCleanup, CleanupBegins, CleanupSteps, Typed,
           ThreadsTyped
  <2>2. DataTyped'
    BY <1>8, SocketSteps, QueueSteps, EventSteps, EmptySeq
       DEF Shutdown, AppMayCall, ShutdownCleanup, CleanupBegins, Typed, DataTyped, Statuses,
           Events
  <2> QED
    BY <1>0, <2>1, <2>2 DEF Typed
<1>9. CASE ShutdownJoins
  <2>1. ThreadsTyped'
    BY <1>9 DEF ShutdownJoins, Typed, ThreadsTyped
  <2>2. DataTyped'
    BY <1>9 DEF ShutdownJoins, Typed, DataTyped
  <2> QED
    BY <1>0, <2>1, <2>2 DEF Typed
<1>10. CASE CheckTimeOut
  <2>1. ThreadsTyped'
    BY <1>10 DEF CheckTimeOut, TickMayBegin, Typed, ThreadsTyped, Phases, Resumed
  <2>2. DataTyped'
    BY <1>10
       DEF CheckTimeOut, TickMayBegin, Typed, DataTyped, ThreadsTyped, Resumed,
           HandlingPhases
  <2> QED
    BY <1>0, <2>1, <2>2 DEF Typed
<1>11. CASE TimeOutConnect
  <2>1. ThreadsTyped'
    BY <1>11 DEF TimeOutConnect, GoTo, StatusAfterTimeOut, Typed, ThreadsTyped, Phases
  <2>2. DataTyped'
    BY <1>11
       DEF TimeOutConnect, GoTo, StatusAfterTimeOut, Typed, DataTyped, HandlingPhases,
           Statuses
  <2> QED
    BY <1>0, <2>1, <2>2 DEF Typed
<1>12. CASE TimeOutConnectCloses
  <2>1. ThreadsTyped'
    BY <1>12 DEF TimeOutConnectCloses, Return, Typed, ThreadsTyped, Phases, Resumed
  <2>2. DataTyped'
    BY <1>12, SocketSteps, QueueSteps, EventSteps, EmptySeq
       DEF TimeOutConnectCloses, Return, Typed, DataTyped, ThreadsTyped, Resumed,
           HandlingPhases, Events
  <2> QED
    BY <1>0, <2>1, <2>2 DEF Typed
<1>13. CASE TimeOutReconnect
  <2>1. ThreadsTyped'
    BY <1>13
       DEF TimeOutReconnect, FailReconnect, GoTo, Return, Typed, ThreadsTyped, Phases,
           Resumed
  <2>2. DataTyped'
    BY <1>13, SocketSteps, QueueSteps, EventSteps, EmptySeq
       DEF TimeOutReconnect, FailReconnect, GoTo, Return, Typed, DataTyped, ThreadsTyped,
           Resumed, HandlingPhases, Statuses, Events
  <2> QED
    BY <1>0, <2>1, <2>2 DEF Typed
<1>14. CASE ReportLost
  <2>1. ThreadsTyped'
    BY <1>14 DEF ReportLost, Return, Typed, ThreadsTyped, Phases, Resumed
  <2>2. DataTyped'
    BY <1>14, EventSteps
       DEF ReportLost, Return, Typed, DataTyped, ThreadsTyped, Resumed, HandlingPhases,
           Events
  <2> QED
    BY <1>0, <2>1, <2>2 DEF Typed
<1>15. CASE TickReconnects
  <2>1. ThreadsTyped'
    BY <1>15
       DEF TickReconnects, Return, Reconnect, SocketRefuses, Typed, ThreadsTyped, Phases,
           Resumed
  <2>2. DataTyped'
    BY <1>15, SocketSteps, EventSteps, EmptySeq
       DEF TickReconnects, Return, Reconnect, SocketRefuses, Typed, DataTyped,
           ThreadsTyped, Resumed, HandlingPhases, Statuses, Events
  <2> QED
    BY <1>0, <2>1, <2>2 DEF Typed
<1>16. CASE Proceed
  <2>1. ThreadsTyped'
    BY <1>16 DEF Proceed, GoTo, Typed, ThreadsTyped, Phases
  <2>2. DataTyped'
    BY <1>16 DEF Proceed, GoTo, Typed, DataTyped, HandlingPhases
  <2> QED
    BY <1>0, <2>1, <2>2 DEF Typed
<1>17. CASE SendPackets
  <2>1. ThreadsTyped'
    BY <1>17 DEF SendPackets, GoTo, Typed, ThreadsTyped, Phases, Resumed
  <2>2. m_socket' \in Socket /\ m_sendQueue' \in Queue /\ m_connectionStatus' \in Statuses
    BY <1>17, SendSteps DEF Typed, DataTyped, Statuses
  <2>3. tick' \notin HandlingPhases
    BY <1>17 DEF SendPackets, GoTo, HandlingPhases
  <2>4. UNCHANGED <<m_receiveQueue, attempts, eventVars, callbackVars>>
    BY <1>17 DEF SendPackets
  <2>5. DataTyped'
    BY <2>2, <2>3, <2>4 DEF Typed, DataTyped
  <2> QED
    BY <1>0, <2>1, <2>5 DEF Typed
<1>18. CASE DisconnectSent
  <2>1. ThreadsTyped'
    BY <1>18 DEF DisconnectSent, GoTo, Typed, ThreadsTyped, Phases
  <2>2. DataTyped'
    BY <1>18, SocketSteps, EventSteps
       DEF DisconnectSent, GoTo, Typed, DataTyped, HandlingPhases, Events
  <2> QED
    BY <1>0, <2>1, <2>2 DEF Typed
<1>19. CASE TickDisconnects
  <2>1. ThreadsTyped'
    BY <1>19
       DEF TickDisconnects, Return, HardDisconnectBegins, GoTo, Typed, ThreadsTyped,
           Phases, Resumed
  <2>2. m_socket' \in Socket /\ m_sendQueue' \in Queue
    BY <1>19, HardDisconnectSteps DEF TickDisconnects, Typed, DataTyped
  <2>3. DataTyped'
    BY <1>19, <2>2
       DEF TickDisconnects, HardDisconnectBegins, Return, GoTo, Typed, DataTyped,
           ThreadsTyped, Resumed, HandlingPhases
  <2> QED
    BY <1>0, <2>1, <2>3 DEF Typed
<1>20. CASE TickDisconnected
  <2>1. ThreadsTyped'
    BY <1>20
       DEF TickDisconnected, HardDisconnectEnds, Return, Typed, ThreadsTyped, Phases,
           Resumed
  <2>2. DataTyped'
    BY <1>20, SocketSteps, QueueSteps, EventSteps
       DEF TickDisconnected, HardDisconnectEnds, Return, Typed, DataTyped, ThreadsTyped,
           Resumed, HandlingPhases, Statuses, Events
  <2> QED
    BY <1>0, <2>1, <2>2 DEF Typed
<1>21. CASE TakePacket
  <2>1. ThreadsTyped'
    BY <1>21 DEF TakePacket, Typed, ThreadsTyped, Phases, Resumed
  <2>2. DataTyped'
    BY <1>21, EmptySeq
       DEF TakePacket, Typed, DataTyped, ThreadsTyped, Resumed, HandlingPhases
  <2> QED
    BY <1>0, <2>1, <2>2 DEF Typed
<1>22. CASE NoMorePackets
  <2>1. ThreadsTyped'
    BY <1>22 DEF NoMorePackets, GoTo, Typed, ThreadsTyped, Phases
  <2>2. DataTyped'
    BY <1>22, EmptySeq DEF NoMorePackets, GoTo, Typed, DataTyped, HandlingPhases
  <2> QED
    BY <1>0, <2>1, <2>2 DEF Typed
<1>23. CASE CheckKeepAlive
  <2>1. ThreadsTyped'
    BY <1>23 DEF CheckKeepAlive, Typed, ThreadsTyped, Phases, Resumed
  <2>2. DataTyped'
    BY <1>23 DEF CheckKeepAlive, Typed, DataTyped, ThreadsTyped, Resumed, HandlingPhases
  <2> QED
    BY <1>0, <2>1, <2>2 DEF Typed
<1>24. CASE TickSocket
  <2>1. ThreadsTyped'
    BY <1>24 DEF TickSocket, GoTo, Typed, ThreadsTyped, Phases
  <2>2. DataTyped'
    BY <1>24 DEF TickSocket, GoTo, Typed, DataTyped, HandlingPhases
  <2> QED
    BY <1>0, <2>1, <2>2 DEF Typed
<1>25. CASE InvokeEvents
  <2>1. ThreadsTyped'
    BY <1>25 DEF InvokeEvents, GoTo, Typed, ThreadsTyped, Phases
  <2>2. DataTyped'
    BY <1>25, EmptySeq DEF InvokeEvents, GoTo, Typed, DataTyped, HandlingPhases
  <2> QED
    BY <1>0, <2>1, <2>2 DEF Typed
<1>26. CASE TickStops
  <2>1. ThreadsTyped'
    BY <1>26 DEF TickStops, CleanupBegins, GoTo, Typed, ThreadsTyped, Phases
  <2>2. DataTyped'
    BY <1>26, EventSteps
       DEF TickStops, CleanupBegins, GoTo, Typed, DataTyped, HandlingPhases, Statuses
  <2> QED
    BY <1>0, <2>1, <2>2 DEF Typed
<1>27. CASE ConnectAccepted
  <2>1. ThreadsTyped'
    BY <1>27
       DEF ConnectAccepted, Handling, GoTo, Return, Typed, ThreadsTyped, Phases, Resumed
  <2>2. DataTyped'
    BY <1>27, EventSteps
       DEF ConnectAccepted, Handling, GoTo, Return, Typed, DataTyped, ThreadsTyped,
           Resumed, HandlingPhases, Statuses, Events
  <2> QED
    BY <1>0, <2>1, <2>2 DEF Typed
<1>28. CASE ConnectRefused
  <2>1. ThreadsTyped'
    BY <1>28
       DEF ConnectRefused, Handling, GoTo, FailReconnect, Return, Typed, ThreadsTyped,
           Phases, Resumed
  <2>2. DataTyped'
    BY <1>28, SocketSteps, QueueSteps, EventSteps, EmptySeq
       DEF ConnectRefused, Handling, GoTo, FailReconnect, Return, Typed, DataTyped,
           ThreadsTyped, Resumed, HandlingPhases, Statuses, Events
  <2> QED
    BY <1>0, <2>1, <2>2 DEF Typed
<1>29. CASE RefuseConnect
  <2>1. ThreadsTyped'
    BY <1>29 DEF RefuseConnect, GoTo, Typed, ThreadsTyped, Phases
  <2>2. DataTyped'
    BY <1>29 DEF RefuseConnect, GoTo, Typed, DataTyped, HandlingPhases, Statuses
  <2> QED
    BY <1>0, <2>1, <2>2 DEF Typed
<1>30. CASE RefuseConnectCloses
  <2>1. ThreadsTyped'
    BY <1>30 DEF RefuseConnectCloses, GoTo, Return, Typed, ThreadsTyped, Phases, Resumed
  <2>2. DataTyped'
    BY <1>30, SocketSteps, QueueSteps, EventSteps, EmptySeq
       DEF RefuseConnectCloses, GoTo, Return, Typed, DataTyped, ThreadsTyped, Resumed,
           HandlingPhases, Events
  <2> QED
    BY <1>0, <2>1, <2>2 DEF Typed
<1>31. CASE ConnAckResumes
  <2>1. ThreadsTyped'
    BY <1>31 DEF ConnAckResumes, Return, Typed, ThreadsTyped, Phases, Resumed
  <2>2. DataTyped'
    BY <1>31, EventSteps
       DEF ConnAckResumes, Return, Typed, DataTyped, ThreadsTyped, Resumed,
           HandlingPhases, Events
  <2> QED
    BY <1>0, <2>1, <2>2 DEF Typed
<1>32. CASE DisconnectReceived
  <2>1. ThreadsTyped'
    BY <1>32
       DEF DisconnectReceived, Handling, Return, Reconnect, Typed, ThreadsTyped, Phases,
           Resumed
  <2>2. DataTyped'
    BY <1>32, SocketSteps, QueueSteps, EventSteps, EmptySeq
       DEF DisconnectReceived, Handling, Return, Reconnect, Typed, DataTyped,
           ThreadsTyped, Resumed, HandlingPhases, Statuses, Events
  <2> QED
    BY <1>0, <2>1, <2>2 DEF Typed
<1>33. CASE DecodeFails
  <2>1. ThreadsTyped'
    BY <1>33 DEF DecodeFails, Handling, Typed, ThreadsTyped, Phases, Resumed
  <2>2. PICK k \in 0 .. Len(m_receiveQueue) :
            m_receiveQueue' = SubSeq(m_receiveQueue, k + 1, Len(m_receiveQueue))
    BY <1>33 DEF DecodeFails
  <2>3. m_receiveQueue' \in Seq(Received)
    BY <2>2, SubSeqProperties DEF Typed, DataTyped
  <2>4. m_eventDeferrer' \in Seq(Event) /\ reports' \in Seq(Event)
    BY <1>33, EventSteps DEF DecodeFails, Events, Typed, DataTyped
  <2>5. DataTyped'
    BY <1>33, <2>3, <2>4 DEF DecodeFails, Typed, DataTyped, HandlingPhases
  <2> QED
    BY <1>0, <2>1, <2>5 DEF Typed
<1>34. CASE SocketOpens
  <2>1. ThreadsTyped'
    BY <1>34 DEF SocketOpens, SocketTurn, GoTo, Typed, ThreadsTyped, Phases
  <2>2. DataTyped'
    BY <1>34, SocketSteps, QueueSteps
       DEF SocketOpens, SocketTurn, GoTo, Typed, DataTyped, HandlingPhases, Packets
  <2> QED
    BY <1>0, <2>1, <2>2 DEF Typed
<1>35. CASE SocketFails
  <2>1. ThreadsTyped'
    BY <1>35
       DEF SocketFails, SocketTurn, GoTo, ConnectCallbackFails, Typed, ThreadsTyped,
           Phases
  <2>2. DataTyped'
    BY <1>35, SocketSteps, EventSteps
       DEF SocketFails, SocketTurn, GoTo, ConnectCallbackFails, Typed, DataTyped,
           HandlingPhases, Statuses, Events
  <2> QED
    BY <1>0, <2>1, <2>2 DEF Typed
<1>36. CASE SocketErrs
  <2>1. ThreadsTyped'
    BY <1>36
       DEF SocketErrs, SocketTurn, GoTo, CleanupBegins, CleanupSteps,
           ConnectCallbackFails, Typed, ThreadsTyped, Phases
  <2>2. DataTyped'
    BY <1>36, SocketSteps, EventSteps
       DEF SocketErrs, SocketTurn, GoTo, CleanupBegins, ConnectCallbackFails, Typed,
           DataTyped, HandlingPhases, Statuses, Events
  <2> QED
    BY <1>0, <2>1, <2>2 DEF Typed
<1>37. CASE ErrorReports
  <2>1. ThreadsTyped'
    BY <1>37 DEF ErrorReports, ConnectCallbackFails, Typed, ThreadsTyped
  <2>2. DataTyped'
    BY <1>37, EventSteps
       DEF ErrorReports, ConnectCallbackFails, Typed, DataTyped, CleanupSteps, Statuses,
           Events
  <2> QED
    BY <1>0, <2>1, <2>2 DEF Typed
<1>38. CASE SocketCloses
  <2>1. ThreadsTyped'
    BY <1>38 DEF SocketCloses, Typed, ThreadsTyped
  <2>2. DataTyped'
    BY <1>38, SocketSteps DEF SocketCloses, Typed, DataTyped
  <2> QED
    BY <1>0, <2>1, <2>2 DEF Typed
<1>39. CASE SocketClosed
  <2>1. ThreadsTyped'
    BY <1>39 DEF SocketClosed, Typed, ThreadsTyped
  <2>2. DataTyped'
    BY <1>39, SocketSteps, QueueSteps, EventSteps
       DEF SocketClosed, Typed, DataTyped, Statuses, Events
  <2> QED
    BY <1>0, <2>1, <2>2 DEF Typed
<1>40. CASE BrokerSends
  <2>1. ThreadsTyped'
    BY <1>40 DEF BrokerSends, Receives, SocketTurn, GoTo, Typed, ThreadsTyped, Phases
  <2>2. PICK kind \in Answers, r \in Redirections \union {Null} :
            /\ Receives([kind |-> kind, redirection |-> r, serial |-> m_socket.serial])
            /\ m_socket' = [m_socket EXCEPT !.answer = kind]
    BY <1>40 DEF BrokerSends
  <2>3. m_socket' \in Socket
    BY <2>2, SocketSteps DEF Typed, DataTyped, Kinds
  <2>4. [kind |-> kind, redirection |-> r, serial |-> m_socket.serial] \in Received
    BY SocketSteps DEF Typed, DataTyped, Received
  <2>5. /\ m_receiveQueue' \in Seq(Received)
        /\ IF callback' = "received" THEN arriving' \in Received ELSE arriving' = Null
    <3>1. callback = "none" /\ arriving = Null /\ m_receiveQueue \in Seq(Received)
      BY <1>40 DEF BrokerSends, SocketTurn, Typed, DataTyped
    <3>2. CASE SocketThread
      BY <2>2, <2>4, <3>1, <3>2 DEF Receives
    <3>3. CASE ~SocketThread
      BY <2>2, <2>4, <3>1, <3>3, AppendProperties DEF Receives
    <3> QED
      BY <3>2, <3>3
  <2>6. DataTyped'
    BY <1>40, <2>3, <2>5
       DEF BrokerSends, SocketTurn, GoTo, Typed, DataTyped, HandlingPhases
  <2> QED
    BY <1>0, <2>1, <2>6 DEF Typed
<1>41. CASE TimePasses
  <2>1. ThreadsTyped'
    BY <1>41 DEF TimePasses, Typed, ThreadsTyped
  <2>2. DataTyped'
    BY <1>41 DEF TimePasses, Typed, DataTyped
  <2> QED
    BY <1>0, <2>1, <2>2 DEF Typed
<1>42. CASE AppCleansUp
  <2>1. ThreadsTyped'
    BY <1>42, CleanupStepTyped DEF AppCleansUp, CleanupSteps, Typed, ThreadsTyped
  <2>2. DataTyped'
    BY <1>42, CleanupStepTyped DEF AppCleansUp, Typed, DataTyped
  <2> QED
    BY <1>0, <2>1, <2>2 DEF Typed
<1>43. CASE TickCleansUp
  <2>1. ThreadsTyped'
    BY <1>43, CleanupStepTyped DEF TickCleansUp, CleanupSteps, Typed, ThreadsTyped, Phases
  <2>2. DataTyped'
    BY <1>43, CleanupStepTyped DEF TickCleansUp, CleanupSteps, Typed, DataTyped,
       HandlingPhases
  <2> QED
    BY <1>0, <2>1, <2>2 DEF Typed
<1>44. CASE CallbackCleansUp
  <2>1. ThreadsTyped'
    BY <1>44, CleanupStepTyped DEF CallbackCleansUp, CleanupSteps, Typed, ThreadsTyped
  <2>2. DataTyped'
    BY <1>44, CleanupStepTyped DEF CallbackCleansUp, CleanupSteps, Typed, DataTyped
  <2> QED
    BY <1>0, <2>1, <2>2 DEF Typed
<1>45. CASE ConnectQueued
  <2>1. ThreadsTyped'
    BY <1>45 DEF ConnectQueued, Typed, ThreadsTyped
  <2>2. DataTyped'
    BY <1>45, QueueSteps DEF ConnectQueued, Typed, DataTyped, Packets
  <2> QED
    BY <1>0, <2>1, <2>2 DEF Typed
<1>46. CASE PacketQueued
  <2>1. ThreadsTyped'
    BY <1>46 DEF PacketQueued, Typed, ThreadsTyped
  <2>2. m_receiveQueue' \in Seq(Received)
    BY <1>46, AppendProperties DEF PacketQueued, Typed, DataTyped
  <2>3. DataTyped'
    BY <1>46, <2>2 DEF PacketQueued, Typed, DataTyped
  <2> QED
    BY <1>0, <2>1, <2>3 DEF Typed
<1>47. CASE UNCHANGED vars
  BY <1>47 DEF vars, Typed, ThreadsTyped, DataTyped
<1> QED
  BY <1>42, <1>43, <1>44, <1>45, <1>46, <1>47, <1>1, <1>2, <1>3, <1>4, <1>5, <1>6, <1>7,
     <1>8, <1>9, <1>10, <1>11, <1>12,
     <1>13, <1>14, <1>15, <1>16, <1>17, <1>18, <1>19, <1>20, <1>21, <1>22, <1>23, <1>24,
     <1>25, <1>26, <1>27, <1>28, <1>29, <1>30, <1>31, <1>32, <1>33, <1>34, <1>35, <1>36,
     <1>37, <1>38, <1>39, <1>40, <1>41
     DEF Next, App, Tick, Environment

-----------------------------------------------------------------------------
(* shutdown().                                                              *)

\* A callback of the socket's thread that is about to queue a packet.
Late == IF callback \in {"opened", "received"} THEN 1 ELSE 0

\* What shutdownCleanup has left behind when it has come to a step, or to its end.
Cleaned(at) ==
    /\ at \in CleanupSteps \union {"stopped"} => m_connectionStatus = "DISCONNECTED"
    /\ at \in {"clears", "ends", "stopped"} => m_socket.state = "closed"
    /\ at \in {"ends", "stopped"} => Len(m_sendQueue.composers) + Late <= 1
    /\ at = "stopped" => Len(m_sendQueue.composers) + Len(m_receiveQueue) + Late <= 1

\* The tick thread cleans up when it was told to stop, the application in SYNC mode
\* between ticks; what has been cleaned up stays so until the next connect().
Stopping ==
    /\ m_isRunningAsync => tick \notin CleanupSteps \union {"stopped"}
    /\ app = "joining" => Async /\ ~m_isRunningAsync /\ Cleaned(tick)
    /\ app \in CleanupSteps => ~Async /\ tick = "idle" /\ Cleaned(app)
    /\ tick \in CleanupSteps \union {"stopped"} => Async
    /\ stopped \subseteq 0 .. attempts
    /\ attempts \in stopped =>
          /\ Cleaned("stopped") /\ app = "idle"
          /\ IF Async THEN tick = "stopped" ELSE tick \in {"idle", "proceed", "events"}

\* Nobody who waits for shutdown() is disturbed by a tick that is still at work.
LEMMA TickWorks ==
    ASSUME Stopping, tick \notin {"idle", "proceed", "events", "stopped"} \union CleanupSteps,
           tick' \notin {"stopped"} \union CleanupSteps,
           UNCHANGED <<app, attempts, stopped, tickMode, m_isRunningAsync>>
    PROVE  Stopping'
<1> QED
  BY DEF Stopping, Cleaned, CleanupSteps, Async

\* Nor by a callback: a socket that is closed stays so, and a queue takes in what
\* was under way.
LEMMA Undisturbed ==
    ASSUME Typed, Typed', Stopping, UNCHANGED <<app, tick, attempts, stopped, tickMode>>,
           m_isRunningAsync' => m_isRunningAsync,
           m_connectionStatus' \in {m_connectionStatus, "DISCONNECTED"},
           m_socket.state = "closed" =>
               /\ m_socket'.state = "closed"
               /\ Len(m_sendQueue'.composers) + Late' <= Len(m_sendQueue.composers) + Late
               /\ Len(m_sendQueue'.composers) + Len(m_receiveQueue') + Late'
                      <= Len(m_sendQueue.composers) + Len(m_receiveQueue) + Late
    PROVE  Stopping'
<1>1. /\ Len(m_sendQueue.composers) \in Nat /\ Len(m_receiveQueue) \in Nat /\ Late \in Nat
      /\ attempts \in Int
  BY QueueSteps, LenProperties DEF Typed, DataTyped, Late
<1>2. /\ Len(m_sendQueue'.composers) \in Nat /\ Len(m_receiveQueue') \in Nat
      /\ Late' \in Nat
  BY LenProperties DEF Typed, DataTyped, Queue, Late
<1> HIDE DEF Late
<1>3. Cleaned(tick) => Cleaned(tick)'
  BY <1>1, <1>2 DEF Cleaned
<1>4. Cleaned(app) => Cleaned(app)'
  BY <1>1, <1>2 DEF Cleaned
<1>5. Cleaned("stopped") => Cleaned("stopped")'
  BY <1>1, <1>2 DEF Cleaned
<1> QED
  BY <1>3, <1>4, <1>5 DEF Stopping, Async

\* A step of shutdownCleanup leaves behind what the next one starts from.
LEMMA CleanedOn ==
    ASSUME Typed, Typed', NEW step, NEW next, NEW done, CleanupGoesOn(step, next, done),
           UNCHANGED <<m_connectionStatus, callback>>, Cleaned(step)
    PROVE  \/ step = "closes" /\ next = "clears" /\ Cleaned("clears")'
           \/ step = "clears" /\ next = "ends" /\ Cleaned("ends")'
           \/ step = "ends" /\ next = done /\ Cleaned("stopped")'
<1>1. /\ m_socket \in Socket /\ m_sendQueue \in Queue /\ Late \in {0, 1} /\ Late' = Late
      /\ Len(m_sendQueue.composers) \in Nat
  BY QueueSteps, LenProperties DEF Typed, DataTyped, Late
<1> USE DEF queueVars
<1>2. CASE step = "closes" /\ next = "clears" /\ CloseSocket
  BY <1>1, <1>2, SocketSteps DEF Cleaned, CleanupSteps
<1>3. CASE step = "clears" /\ next = "ends" /\ ClearSendQueue /\ UNCHANGED m_socket
  BY <1>1, <1>3, QueueSteps, EmptySeq DEF Cleaned, CleanupSteps
<1>4. CASE /\ step = "ends" /\ next = done
           /\ m_receiveQueue' = <<>> /\ UNCHANGED <<m_socket, m_sendQueue>>
  <2>1. Len(m_receiveQueue') = 0 /\ Len(m_sendQueue'.composers) = Len(m_sendQueue.composers)
    BY <1>4, EmptySeq
  <2>2. /\ m_connectionStatus' = "DISCONNECTED" /\ m_socket'.state = "closed"
        /\ Len(m_sendQueue.composers) + Late <= 1
    BY <1>4 DEF Cleaned, CleanupSteps
  <2>3. PICK c \in Nat, l \in Nat : Len(m_sendQueue'.composers) = c /\ Late' = l /\ c + l <= 1
    BY <1>1, <2>1, <2>2
  <2>4. /\ Len(m_sendQueue'.composers) + Late' <= 1
        /\ Len(m_sendQueue'.composers) + Len(m_receiveQueue') + Late' <= 1
    BY ONLY <2>1, <2>3
  <2>5. Cleaned("stopped")'
    BY ONLY <2>2, <2>4 DEF Cleaned
  <2> QED
    BY <1>4, <2>5
<1> QED
  BY <1>2, <1>3, <1>4 DEF CleanupGoesOn

\* shutdown() is done only when nothing can be brought back.
LEMMA StoppingNext == Typed /\ Stopping /\ [Next]_vars => Stopping'
<1> SUFFICES ASSUME Typed, Stopping, [Next]_vars PROVE Stopping'
  OBVIOUS
<1> USE DEF clientVars, queueVars, eventVars, tickVars, callerVars, callbackVars
<1>0. /\ Typed /\ Typed' /\ Stopping /\ resume \in Resumed /\ m_socket \in Socket
      /\ m_sendQueue \in Queue /\ m_isRunningAsync \in BOOLEAN
      /\ attempts \in Nat /\ Async' = Async
  <2>1. Typed' /\ Async' = Async
    BY TypedNext, ModeKept DEF Async
  <2> QED
    BY <2>1, ConnectionAssumption DEF Typed, ThreadsTyped, DataTyped, ConnectionAssumption
<1>1. CASE ConnectBegins
  BY <1>1, <1>0
     DEF ConnectBegins, AppMayCall, ReceiveQueueAtConnect, Stopping, Cleaned, CleanupSteps
<1>2. CASE ConnectEnds
  BY <1>2, <1>0 DEF ConnectEnds, Stopping, Cleaned, CleanupSteps
<1>3. CASE RequestBegins
  BY <1>3, <1>0 DEF RequestBegins, AppMayCall, Stopping, Cleaned, CleanupSteps
<1>4. CASE RequestEnds
  BY <1>4, <1>0 DEF RequestEnds, Stopping, Cleaned, CleanupSteps
<1>5. CASE GracefulDisconnect
  BY <1>5, <1>0 DEF GracefulDisconnect, AppMayCall, Stopping, Cleaned, CleanupSteps
<1>6. CASE DisconnectBegins
  BY <1>6, <1>0
     DEF DisconnectBegins, AppMayCall, HardDisconnectBegins, Stopping, Cleaned, CleanupSteps
<1>7. CASE DisconnectEnds
  BY <1>7, <1>0 DEF DisconnectEnds, HardDisconnectEnds, Stopping, Cleaned, CleanupSteps
<1>8. CASE Shutdown
  <2>1. CASE ~Async /\ m_connectionStatus # "DISCONNECTED" /\ ~SocketThread /\ ShutdownCleanup
    <3>1. /\ m_connectionStatus' = "DISCONNECTED" /\ m_socket'.state = "closed"
          /\ Len(m_sendQueue'.composers) = 0 /\ Len(m_receiveQueue') = 0
      BY <1>0, <2>1, SocketSteps, QueueSteps, EmptySeq DEF ShutdownCleanup, CleanupBegins
    <3>2. Late' \in {0, 1}
      BY DEF Late
    <3>3. Cleaned("stopped")'
      <4>1. PICK l \in {0, 1} : Late' = l
        BY <3>2
      <4>2. /\ Len(m_sendQueue'.composers) + Late' <= 1
            /\ Len(m_sendQueue'.composers) + Len(m_receiveQueue') + Late' <= 1
        BY ONLY <3>1, <4>1
      <4> QED
        BY <3>1, <4>2 DEF Cleaned
    <3>4. /\ app = "idle" /\ tick = "idle" /\ UNCHANGED <<app, tick, attempts, m_isRunningAsync>>
          /\ stopped' = stopped \union {attempts}
      BY <1>8, <2>1 DEF Shutdown, AppMayCall
    <3> QED
      BY <1>0, <2>1, <3>3, <3>4 DEF Stopping, CleanupSteps
  <2>2. CASE ~Async /\ m_connectionStatus # "DISCONNECTED" /\ SocketThread
    BY <1>0, <1>8, <2>2 DEF Shutdown, AppMayCall, CleanupBegins, Stopping, Cleaned,
       CleanupSteps
  <2>3. CASE Async /\ m_isRunningAsync
    BY <1>0, <1>8, <2>3 DEF Shutdown, AppMayCall, Stopping, Cleaned, CleanupSteps
  <2>4. CASE Async /\ ~m_isRunningAsync
    BY <1>0, <1>8, <2>4, Undisturbed DEF Shutdown, AppMayCall, Late
  <2> QED
    BY <1>8, <2>1, <2>2, <2>3, <2>4 DEF Shutdown
<1>9. CASE AppCleansUp
  <2>1. app \in CleanupSteps /\ app # "idle" /\ attempts \notin stopped
    BY <1>9 DEF AppCleansUp, Stopping, Cleaned, CleanupSteps
  <2>2. /\ UNCHANGED <<m_connectionStatus, tick, m_isRunningAsync, attempts, callback>>
        /\ stopped' = IF app = "ends" THEN stopped \union {attempts} ELSE stopped
    BY <1>9 DEF AppCleansUp
  <2>3. CleanupGoesOn(app, app', "idle") /\ Cleaned(app)
    BY <1>9 DEF AppCleansUp, Stopping
  <2>4. \/ app = "closes" /\ app' = "clears" /\ Cleaned("clears")'
        \/ app = "clears" /\ app' = "ends" /\ Cleaned("ends")'
        \/ app = "ends" /\ app' = "idle" /\ Cleaned("stopped")'
    BY <1>0, <2>2, <2>3, CleanedOn
  <2>5. tick = "idle" /\ ~Async /\ stopped' \subseteq 0 .. attempts
    BY <1>0, <2>1, <2>2 DEF Stopping
  <2>6. CASE app' # "idle"
    BY <1>0, <2>1, <2>2, <2>4, <2>5, <2>6 DEF Stopping, CleanupSteps
  <2>7. CASE app' = "idle"
    BY <1>0, <2>1, <2>2, <2>4, <2>5, <2>7 DEF Stopping, CleanupSteps
  <2> QED
    BY <2>6, <2>7
<1>10. CASE ShutdownJoins
  <2>1. Cleaned("stopped") => Cleaned("stopped")'
    BY <1>10 DEF ShutdownJoins, Cleaned, Late
  <2> QED
    BY <1>0, <1>10, <2>1 DEF ShutdownJoins, Stopping, CleanupSteps
<1>11. CASE CheckTimeOut
  <2>1. tick = "idle" /\ app # "joining" /\ app \notin CleanupSteps
    BY <1>11 DEF CheckTimeOut, TickMayBegin, Stopping, CleanupSteps
  <2>2. attempts \in stopped => ~Async /\ m_connectionStatus = "DISCONNECTED" /\ app = "idle"
    BY <1>11, <2>1 DEF Stopping, Cleaned
  <2>3. /\ tick' \in {"timeout", "retimeout", "proceed"}
        /\ m_connectionStatus = "DISCONNECTED" => tick' = "proceed"
    BY <1>11 DEF CheckTimeOut
  <2>4. Cleaned("stopped") => Cleaned("stopped")'
    BY <1>11 DEF CheckTimeOut, Cleaned, Late
  <2> QED
    BY <1>0, <1>11, <2>1, <2>2, <2>3, <2>4 DEF CheckTimeOut, Stopping, CleanupSteps
<1>12. CASE TimeOutConnect
  BY <1>12, TickWorks DEF TimeOutConnect, GoTo, CleanupSteps
<1>13. CASE TimeOutConnectCloses
  BY <1>13, <1>0, TickWorks DEF TimeOutConnectCloses, Return, CleanupSteps, Resumed
<1>14. CASE TimeOutReconnect
  BY <1>14, <1>0, TickWorks
     DEF TimeOutReconnect, FailReconnect, GoTo, Return, CleanupSteps, Resumed
<1>15. CASE ReportLost
  BY <1>15, <1>0, TickWorks DEF ReportLost, Return, CleanupSteps, Resumed
<1>16. CASE TickReconnects
  BY <1>16, <1>0, TickWorks DEF TickReconnects, Return, CleanupSteps, Resumed
<1>17. CASE Proceed
  BY <1>17, <1>0 DEF Proceed, GoTo, Stopping, Cleaned, CleanupSteps, Late
<1>18. CASE SendPackets
  BY <1>18, TickWorks DEF SendPackets, GoTo, CleanupSteps
<1>19. CASE DisconnectSent
  BY <1>19, TickWorks DEF DisconnectSent, GoTo, CleanupSteps
<1>20. CASE TickDisconnects
  BY <1>20, <1>0, TickWorks
     DEF TickDisconnects, HardDisconnectBegins, Return, GoTo, CleanupSteps, Resumed
<1>21. CASE TickDisconnected
  BY <1>21, <1>0, TickWorks
     DEF TickDisconnected, HardDisconnectEnds, Return, CleanupSteps, Resumed
<1>22. CASE TakePacket
  BY <1>22, TickWorks DEF TakePacket, CleanupSteps
<1>23. CASE NoMorePackets
  BY <1>23, TickWorks DEF NoMorePackets, GoTo, CleanupSteps
<1>24. CASE CheckKeepAlive
  BY <1>24, TickWorks DEF CheckKeepAlive, CleanupSteps
<1>25. CASE TickSocket
  BY <1>25, TickWorks DEF TickSocket, GoTo, CleanupSteps
<1>26. CASE InvokeEvents
  BY <1>26, <1>0 DEF InvokeEvents, GoTo, Stopping, Cleaned, CleanupSteps, Late
<1>27. CASE TickStops
  BY <1>27, <1>0 DEF TickStops, CleanupBegins, GoTo, Stopping, Cleaned, CleanupSteps
<1>28. CASE TickCleansUp
  <2>1. Cleaned(tick) =>
            \/ tick = "closes" /\ tick' = "clears" /\ Cleaned("clears")'
            \/ tick = "clears" /\ tick' = "ends" /\ Cleaned("ends")'
            \/ tick = "ends" /\ tick' = "stopped" /\ Cleaned("stopped")'
    <3>1. CleanupGoesOn(tick, tick', "stopped") /\ UNCHANGED <<m_connectionStatus, callback>>
      BY <1>28 DEF TickCleansUp
    <3> QED
      BY <1>0, <3>1, CleanedOn
  <2>2. tick' \in {"clears", "ends", "stopped"}
    BY <1>28, CleanupStepTyped DEF TickCleansUp
  <2> QED
    BY <1>0, <1>28, <2>1, <2>2 DEF TickCleansUp, Stopping, CleanupSteps
<1>29. CASE ConnectAccepted
  BY <1>29, <1>0, TickWorks
     DEF ConnectAccepted, Handling, GoTo, Return, CleanupSteps, Resumed
<1>30. CASE ConnectRefused
  BY <1>30, <1>0, TickWorks
     DEF ConnectRefused, Handling, GoTo, FailReconnect, Return, CleanupSteps, Resumed
<1>31. CASE RefuseConnect
  BY <1>31, TickWorks DEF RefuseConnect, GoTo, CleanupSteps
<1>32. CASE RefuseConnectCloses
  BY <1>32, <1>0, TickWorks DEF RefuseConnectCloses, GoTo, Return, CleanupSteps, Resumed
<1>33. CASE ConnAckResumes
  BY <1>33, <1>0, TickWorks DEF ConnAckResumes, Return, CleanupSteps, Resumed
<1>34. CASE DisconnectReceived
  BY <1>34, <1>0, TickWorks DEF DisconnectReceived, Handling, Return, CleanupSteps, Resumed
<1>35. CASE DecodeFails
  BY <1>35, TickWorks DEF DecodeFails, Handling, CleanupSteps
<1>36. CASE SocketOpens
  BY <1>36, <1>0, TickWorks, Undisturbed
     DEF SocketOpens, SocketTurn, GoTo, CleanupSteps, Resumed
<1>37. CASE ConnectQueued
  <2>1. Len(m_sendQueue'.composers) = Len(m_sendQueue.composers) + 1
    BY <1>0, <1>37, QueueSteps, AppendProperties DEF ConnectQueued, Packets
  <2>2. Late = 1 /\ Late' = 0
    BY <1>37 DEF ConnectQueued, Late
  <2> QED
    BY <1>0, <1>37, <2>1, <2>2, Undisturbed DEF ConnectQueued
<1>38. CASE SocketFails
  BY <1>38, <1>0, TickWorks, Undisturbed
     DEF SocketFails, SocketTurn, GoTo, ConnectCallbackFails, CleanupSteps, Resumed
<1>39. CASE SocketErrs
  BY <1>39, <1>0, ConnectionAssumption, Undisturbed
     DEF ConnectionAssumption, SocketErrs, SocketTurn, ConnectCallbackFails, CleanupBegins
<1>40. CASE CallbackCleansUp
  <2>1. Late = 0 /\ Late' = 0
    BY <1>40, CleanupStepTyped DEF CallbackCleansUp, CleanupSteps, Late
  <2>2. /\ m_socket.state = "closed" => m_socket'.state = "closed"
        /\ Len(m_sendQueue'.composers) <= Len(m_sendQueue.composers)
        /\ Len(m_receiveQueue') <= Len(m_receiveQueue)
    BY <1>0, <1>40, SocketSteps, QueueSteps, EmptySeq DEF CallbackCleansUp, CleanupGoesOn
  <2> QED
    BY <1>0, <1>40, <2>1, <2>2, Undisturbed DEF CallbackCleansUp
<1>41. CASE ErrorReports
  BY <1>41, <1>0, Undisturbed DEF ErrorReports, ConnectCallbackFails, Late
<1>42. CASE SocketCloses
  BY <1>42, <1>0, Undisturbed DEF SocketCloses
<1>43. CASE SocketClosed
  <2>1. Late = 0 /\ Late' = 0
    BY <1>43 DEF SocketClosed, Late
  <2>2. /\ m_socket.state = "closed" => m_socket'.state = "closed"
        /\ Len(m_sendQueue'.composers) <= Len(m_sendQueue.composers)
        /\ m_connectionStatus' \in {m_connectionStatus, "DISCONNECTED"}
    BY <1>0, <1>43, SocketSteps, QueueSteps, EmptySeq DEF SocketClosed
  <2> QED
    BY <1>0, <1>43, <2>1, <2>2, Undisturbed DEF SocketClosed
<1>44. CASE BrokerSends
  BY <1>44, <1>0, TickWorks, Undisturbed
     DEF BrokerSends, SocketTurn, GoTo, CleanupSteps, Resumed
<1>45. CASE PacketQueued
  <2>1. Len(m_receiveQueue') = Len(m_receiveQueue) + 1
    BY <1>0, <1>45, AppendProperties DEF PacketQueued, Typed, DataTyped
  <2>2. Late = 1 /\ Late' = 0
    BY <1>45 DEF PacketQueued, Late
  <2>3. Len(m_sendQueue.composers) \in Nat /\ Len(m_receiveQueue) \in Nat
    BY <1>0, QueueSteps, LenProperties DEF Typed, DataTyped
  <2>4. /\ UNCHANGED <<app, tick, attempts, stopped, tickMode, m_isRunningAsync,
                       m_connectionStatus>>
        /\ UNCHANGED <<m_socket, m_sendQueue>>
    BY <1>45 DEF PacketQueued
  <2>5. Len(m_sendQueue'.composers) + Late' <= Len(m_sendQueue.composers) + Late
    BY <2>2, <2>3, <2>4
  <2>6. PICK c \in Nat, r \in Nat : /\ Len(m_sendQueue.composers) = c
                                    /\ Len(m_sendQueue'.composers) = c
                                    /\ Len(m_receiveQueue) = r
                                    /\ Len(m_receiveQueue') = r + 1
    BY <2>1, <2>3, <2>4
  <2>7. Len(m_sendQueue'.composers) + Len(m_receiveQueue') + Late'
           <= Len(m_sendQueue.composers) + Len(m_receiveQueue) + Late
    BY ONLY <2>2, <2>6
  <2> QED
    BY <1>0, <2>4, <2>5, <2>7, Undisturbed
<1>46. CASE TimePasses
  BY <1>46, <1>0, Undisturbed DEF TimePasses, Late
<1>47. CASE UNCHANGED vars
  BY <1>47, <1>0, Undisturbed DEF vars, Late
<1> QED
  BY <1>1, <1>2, <1>3, <1>4, <1>5, <1>6, <1>7, <1>8, <1>9, <1>10, <1>11, <1>12, <1>13,
     <1>14, <1>15, <1>16, <1>17, <1>18, <1>19, <1>20, <1>21, <1>22, <1>23, <1>24, <1>25,
     <1>26, <1>27, <1>28, <1>29, <1>30, <1>31, <1>32, <1>33, <1>34, <1>35, <1>36, <1>37,
     <1>38, <1>39, <1>40, <1>41, <1>42, <1>43, <1>44, <1>45, <1>46, <1>47
     DEF Next, App, Tick, Environment

\* Types, for every value of the constants.
LEMMA TypedAlways == Spec => []Typed
<1> QED
  BY TypedInit, TypedNext, PTL DEF Spec

\* When a shutdown() has waited for the tick thread, or has cleaned up itself in SYNC
\* mode, the client is disconnected and its socket closed until connect() is called
\* again, and at most the packet of a callback that was under way is still queued: on
\* any number of threads, whatever they were doing, and whatever other shutdowns the
\* socket's errors had begun (shutdown, shutdownAsync and shutdownCleanup in
\* MqttClientImpl.cpp).
THEOREM StoppedByShutdown == Spec => []ShutdownStops
<1>1. Init => Stopping
  BY ConnectionAssumption DEF Init, Stopping, CleanupSteps, ConnectionAssumption
<1>2. Typed /\ Stopping => ShutdownStops
  <2> SUFFICES ASSUME Typed, Stopping, attempts \in stopped PROVE ShutdownStops
    BY DEF ShutdownStops
  <2>1. /\ Len(m_sendQueue.composers) \in Nat /\ Len(m_receiveQueue) \in Nat /\ Late \in Nat
    BY QueueSteps, LenProperties DEF Typed, DataTyped, Late
  <2>2. /\ m_connectionStatus = "DISCONNECTED" /\ m_socket.state = "closed"
        /\ Len(m_sendQueue.composers) + Len(m_receiveQueue) + Late <= 1
    BY DEF Stopping, Cleaned
  <2> QED
    BY <2>1, <2>2 DEF ShutdownStops
<1> QED
  BY TypedAlways, StoppingNext, <1>1, <1>2, PTL DEF Spec

-----------------------------------------------------------------------------
(* One thread: the application ticks the client itself (SYNC mode), and the *)
(* socket calls back from its tick().                                       *)

OneThread == TickModes \subseteq {"SYNC"} /\ ~SocketThread

\* Between the application's calls and the tick's steps nothing else happens, and
\* the tick's way tells what the status is.
Turns ==
    /\ app \in {"idle", "connect", "request", "disconnect"}
    /\ app # "idle" => tick = "idle"
    /\ callback = "none" \/ (callback = "closed" /\ tick = "socket")
    /\ app = "connect" => m_connectionStatus = "CONNECTING" /\ m_receiveQueue = <<>>
    /\ app = "request" => m_connectionStatus = "CONNECTED"
    /\ tick \notin {"closes", "clears", "ends", "stopped"}
    /\ tick \in {"timeout", "timeoutCloses", "retimeout"} => resume = "proceed"
    /\ tick \in {"lost", "reconnect"} => resume \in {"proceed", "receive"}
    /\ tick \in {"hard", "hardEnds"} => resume \in {"receive", "keepalive", "socket"}
    /\ tick \in {"handle", "refuse", "refuseCloses", "resume"} => resume = "receive"
    /\ tick = "timeout" => m_connectionStatus = "CONNECTING"
    /\ tick = "retimeout" => m_connectionStatus = "RECONNECTING"
    /\ tick \in {"timeoutCloses", "refuseCloses", "sent"} => m_connectionStatus = "DISCONNECTED"
    /\ tick = "send" => m_connectionStatus # "DISCONNECTED" /\ m_socket.state = "open"

\* What only other threads let happen does not.
LEMMA NothingSplit ==
    ASSUME Turns
    PROVE  /\ ~AppCleansUp /\ ~TickCleansUp /\ ~CallbackCleansUp
           /\ ~ConnectQueued /\ ~PacketQueued /\ ~ErrorReports
<1> QED
  BY DEF Turns, CleanupSteps, AppCleansUp, TickCleansUp, CallbackCleansUp, ConnectQueued,
         PacketQueued, ErrorReports

\* A packet that does not decode ends the batch, and nothing has been queued meanwhile.
LEMMA DecodeSteps ==
    ASSUME OneThread, Typed, DecodeFails
    PROVE  m_receiveQueue' = <<>>
<1>1. Len(m_receiveQueue) \in Nat /\ m_receiveQueue \in Seq(Received)
  BY LenProperties DEF Typed, DataTyped
<1>2. m_receiveQueue' = SubSeq(m_receiveQueue, Len(m_receiveQueue) + 1, Len(m_receiveQueue))
  BY <1>1 DEF DecodeFails, OneThread
<1> QED
  BY <1>1, <1>2, SubSeqProperties, EmptySeq

\* The threads do take turns.
LEMMA TurnsNext ==
    ASSUME OneThread, Typed, Turns, [Next]_vars
    PROVE  Turns'
<1> USE DEF clientVars, queueVars, eventVars, tickVars, callerVars, callbackVars
<1>0. /\ tick \in Phases /\ resume \in Resumed /\ m_connectionStatus \in Statuses
      /\ ~Async /\ ~SocketThread /\ ~ErrorCallback
      /\ m_socket \in Socket /\ m_sendQueue \in Queue
  BY ConnectionAssumption
     DEF ConnectionAssumption, OneThread, Async, Typed, ThreadsTyped, DataTyped
<1>1. CASE ConnectBegins
  BY <1>1, <1>0 DEF ConnectBegins, AppMayCall, ReceiveQueueAtConnect, Turns
<1>2. CASE ConnectEnds
  BY <1>2, <1>0 DEF ConnectEnds, SocketRefuses, Turns
<1>3. CASE RequestBegins
  BY <1>3, <1>0 DEF RequestBegins, AppMayCall, Turns
<1>4. CASE RequestEnds
  BY <1>4, <1>0 DEF RequestEnds, Turns
<1>5. CASE GracefulDisconnect
  BY <1>5, <1>0 DEF GracefulDisconnect, AppMayCall, Turns
<1>6. CASE DisconnectBegins
  BY <1>6, <1>0 DEF DisconnectBegins, AppMayCall, HardDisconnectBegins, Turns
<1>7. CASE DisconnectEnds
  BY <1>7, <1>0 DEF DisconnectEnds, HardDisconnectEnds, Turns
<1>8. CASE Shutdown
  BY <1>8, <1>0 DEF Shutdown, AppMayCall, ShutdownCleanup, CleanupBegins, Turns
<1>9. CASE ShutdownJoins
  BY <1>9, <1>0 DEF ShutdownJoins, Turns
<1>10. CASE CheckTimeOut
  BY <1>10, <1>0 DEF CheckTimeOut, TickMayBegin, Turns, Resumed
<1>11. CASE TimeOutConnect
  BY <1>11, <1>0 DEF TimeOutConnect, GoTo, StatusAfterTimeOut, Turns
<1>12. CASE TimeOutConnectCloses
  BY <1>12, <1>0 DEF TimeOutConnectCloses, Return, Turns, Resumed
<1>13. CASE TimeOutReconnect
  BY <1>13, <1>0 DEF TimeOutReconnect, FailReconnect, GoTo, Return, Turns, Resumed
<1>14. CASE ReportLost
  BY <1>14, <1>0 DEF ReportLost, Return, Turns, Resumed
<1>15. CASE TickReconnects
  BY <1>15, <1>0 DEF TickReconnects, Return, Reconnect, SocketRefuses, Turns, Resumed
<1>16. CASE Proceed
  BY <1>16, <1>0 DEF Proceed, GoTo, Turns
<1>17. CASE SendPackets
  BY <1>17, <1>0 DEF SendPackets, GoTo, Turns, Resumed
<1>18. CASE DisconnectSent
  BY <1>18, <1>0 DEF DisconnectSent, GoTo, Turns
<1>19. CASE TickDisconnects
  BY <1>19, <1>0 DEF TickDisconnects, Return, HardDisconnectBegins, GoTo, Turns, Resumed
<1>20. CASE TickDisconnected
  BY <1>20, <1>0 DEF TickDisconnected, HardDisconnectEnds, Return, Turns, Resumed
<1>21. CASE TakePacket
  BY <1>21, <1>0 DEF TakePacket, Turns, Resumed
<1>22. CASE NoMorePackets
  BY <1>22, <1>0 DEF NoMorePackets, GoTo, Turns
<1>23. CASE CheckKeepAlive
  BY <1>23, <1>0 DEF CheckKeepAlive, Turns, Resumed
<1>24. CASE TickSocket
  BY <1>24, <1>0 DEF TickSocket, GoTo, Turns
<1>25. CASE InvokeEvents
  BY <1>25, <1>0 DEF InvokeEvents, GoTo, Turns
<1>26. CASE TickStops
  BY <1>26, <1>0 DEF TickStops, ShutdownCleanup, CleanupBegins, GoTo, Turns
<1>27. CASE ConnectAccepted
  BY <1>27, <1>0 DEF ConnectAccepted, Handling, GoTo, Return, Turns, Resumed
<1>28. CASE ConnectRefused
  BY <1>28, <1>0 DEF ConnectRefused, Handling, GoTo, FailReconnect, Return, Turns, Resumed
<1>29. CASE RefuseConnect
  BY <1>29, <1>0 DEF RefuseConnect, GoTo, Turns
<1>30. CASE RefuseConnectCloses
  BY <1>30, <1>0 DEF RefuseConnectCloses, GoTo, Return, Turns, Resumed
<1>31. CASE ConnAckResumes
  BY <1>31, <1>0 DEF ConnAckResumes, Return, Turns, Resumed
<1>32. CASE DisconnectReceived
  BY <1>32, <1>0 DEF DisconnectReceived, Handling, Return, Reconnect, Turns, Resumed
<1>33. CASE DecodeFails
  BY <1>33, <1>0 DEF DecodeFails, Handling, Turns, Resumed
<1>34. CASE SocketOpens
  BY <1>34, <1>0 DEF SocketOpens, SocketTurn, GoTo, Turns
<1>35. CASE SocketFails
  BY <1>35, <1>0 DEF SocketFails, SocketTurn, GoTo, ConnectCallbackFails, Turns
<1>36. CASE SocketErrs
  BY <1>36, <1>0
     DEF SocketErrs, SocketTurn, GoTo, ShutdownCleanup, CleanupBegins,
         ConnectCallbackFails, Turns
<1>37. CASE ErrorReports
  BY <1>37, <1>0 DEF ErrorReports, ConnectCallbackFails, Turns
<1>38. CASE SocketCloses
  BY <1>38, <1>0 DEF SocketCloses, Turns
<1>39. CASE SocketClosed
  BY <1>39, <1>0 DEF SocketClosed, Turns
<1>40. CASE BrokerSends
  BY <1>40, <1>0 DEF BrokerSends, Receives, SocketTurn, GoTo, Turns
<1>41. CASE TimePasses
  BY <1>41, <1>0 DEF TimePasses, Turns
<1>42. CASE UNCHANGED vars
  BY <1>42 DEF vars, Turns, Resumed
<1> QED
  BY <1>1, <1>2, <1>3, <1>4, <1>5, <1>6, <1>7, <1>8, <1>9, <1>10, <1>11, <1>12, <1>13,
     <1>14, <1>15, <1>16, <1>17, <1>18, <1>19, <1>20, <1>21, <1>22, <1>23, <1>24, <1>25,
     <1>26, <1>27, <1>28, <1>29, <1>30, <1>31, <1>32, <1>33, <1>34, <1>35, <1>36, <1>37,
     <1>38, <1>39, <1>40, <1>41, <1>42, NothingSplit
     DEF Next, App, Tick, Environment

\* A disconnected client has no socket but while the tick is about to close it.
Orphan ==
    m_connectionStatus = "DISCONNECTED" /\ tick \notin {"timeoutCloses", "refuseCloses", "sent"}
        => m_socket.state = "closed"

\* Every way to disconnect closes the socket, and nothing opens it again.
LEMMA OrphanNext ==
    ASSUME OneThread, ~ConnectMayFail, Typed, Turns, Orphan, [Next]_vars
    PROVE  Orphan'
<1> USE DEF clientVars, queueVars, eventVars, tickVars, callerVars, callbackVars
<1>0. /\ tick \in Phases /\ resume \in Resumed /\ m_connectionStatus \in Statuses
      /\ ~Async /\ ~SocketThread /\ ~ErrorCallback
      /\ m_socket \in Socket /\ m_sendQueue \in Queue
  BY ConnectionAssumption
     DEF ConnectionAssumption, OneThread, Async, Typed, ThreadsTyped, DataTyped
<1>1. CASE ConnectBegins
  BY <1>1, <1>0 DEF ConnectBegins, AppMayCall, ReceiveQueueAtConnect, Orphan, Turns
<1>2. CASE ConnectEnds
  BY <1>2, <1>0, SocketSteps DEF ConnectEnds, SocketRefuses, Orphan, Turns
<1>3. CASE RequestBegins
  BY <1>3, <1>0 DEF RequestBegins, AppMayCall, Orphan, Turns
<1>4. CASE RequestEnds
  BY <1>4, <1>0 DEF RequestEnds, Orphan, Turns
<1>5. CASE GracefulDisconnect
  BY <1>5, <1>0 DEF GracefulDisconnect, AppMayCall, Orphan, Turns
<1>6. CASE DisconnectBegins
  <2>1. m_socket'.state = m_socket.state
    BY <1>6, <1>0, HardDisconnectSteps DEF DisconnectBegins
  <2> QED
    BY <1>6, <1>0, <2>1
       DEF DisconnectBegins, AppMayCall, HardDisconnectBegins, Orphan, Turns, Resumed
<1>7. CASE DisconnectEnds
  BY <1>7, <1>0, SocketSteps DEF DisconnectEnds, HardDisconnectEnds, Orphan, Turns
<1>8. CASE Shutdown
  BY <1>8, <1>0, SocketSteps DEF Shutdown, AppMayCall, ShutdownCleanup, CleanupBegins,
     Orphan, Turns
<1>9. CASE ShutdownJoins
  BY <1>9, <1>0 DEF ShutdownJoins, Orphan, Turns
<1>10. CASE CheckTimeOut
  BY <1>10, <1>0 DEF CheckTimeOut, TickMayBegin, Orphan, Turns, Resumed
<1>11. CASE TimeOutConnect
  BY <1>11, <1>0 DEF TimeOutConnect, GoTo, StatusAfterTimeOut, Orphan, Turns
<1>12. CASE TimeOutConnectCloses
  BY <1>12, <1>0, SocketSteps DEF TimeOutConnectCloses, Return, Orphan, Turns, Resumed
<1>13. CASE TimeOutReconnect
  BY <1>13, <1>0, SocketSteps
     DEF TimeOutReconnect, FailReconnect, GoTo, Return, Orphan, Turns, Resumed
<1>14. CASE ReportLost
  BY <1>14, <1>0 DEF ReportLost, Return, Orphan, Turns, Resumed
<1>15. CASE TickReconnects
  BY <1>15, <1>0, SocketSteps
     DEF TickReconnects, Return, Reconnect, SocketRefuses, Orphan, Turns, Resumed
<1>16. CASE Proceed
  BY <1>16, <1>0 DEF Proceed, GoTo, Orphan, Turns
<1>17. CASE SendPackets
  <2>1. m_socket'.state = m_socket.state
    BY <1>17, <1>0, SendSteps
  <2> QED
    BY <1>17, <1>0, <2>1 DEF SendPackets, GoTo, Orphan, Turns, Resumed
<1>18. CASE DisconnectSent
  BY <1>18, <1>0, SocketSteps DEF DisconnectSent, GoTo, Orphan, Turns
<1>19. CASE TickDisconnects
  <2>1. m_socket'.state = m_socket.state
    BY <1>19, <1>0, HardDisconnectSteps DEF TickDisconnects
  <2> QED
    BY <1>19, <1>0, <2>1
       DEF TickDisconnects, Return, HardDisconnectBegins, GoTo, Orphan, Turns, Resumed
<1>20. CASE TickDisconnected
  BY <1>20, <1>0, SocketSteps
     DEF TickDisconnected, HardDisconnectEnds, Return, Orphan, Turns, Resumed
<1>21. CASE TakePacket
  BY <1>21, <1>0 DEF TakePacket, Orphan, Turns, Resumed
<1>22. CASE NoMorePackets
  BY <1>22, <1>0 DEF NoMorePackets, GoTo, Orphan, Turns
<1>23. CASE CheckKeepAlive
  BY <1>23, <1>0 DEF CheckKeepAlive, Orphan, Turns, Resumed
<1>24. CASE TickSocket
  BY <1>24, <1>0 DEF TickSocket, GoTo, Orphan, Turns
<1>25. CASE InvokeEvents
  BY <1>25, <1>0 DEF InvokeEvents, GoTo, Orphan, Turns
<1>26. CASE TickStops
  BY <1>26, <1>0, SocketSteps DEF TickStops, ShutdownCleanup, CleanupBegins, GoTo, Orphan,
     Turns
<1>27. CASE ConnectAccepted
  BY <1>27, <1>0 DEF ConnectAccepted, Handling, GoTo, Return, Orphan, Turns, Resumed
<1>28. CASE ConnectRefused
  BY <1>28, <1>0, SocketSteps
     DEF ConnectRefused, Handling, GoTo, FailReconnect, Return, Orphan, Turns, Resumed
<1>29. CASE RefuseConnect
  BY <1>29, <1>0 DEF RefuseConnect, GoTo, Orphan, Turns
<1>30. CASE RefuseConnectCloses
  BY <1>30, <1>0, SocketSteps
     DEF RefuseConnectCloses, GoTo, Return, Orphan, Turns, Resumed
<1>31. CASE ConnAckResumes
  BY <1>31, <1>0 DEF ConnAckResumes, Return, Orphan, Turns, Resumed
<1>32. CASE DisconnectReceived
  BY <1>32, <1>0, SocketSteps
     DEF DisconnectReceived, Handling, Return, Reconnect, Orphan, Turns, Resumed
<1>33. CASE DecodeFails
  BY <1>33, <1>0 DEF DecodeFails, Handling, Orphan, Turns, Resumed
<1>34. CASE SocketOpens
  BY <1>34, <1>0, SocketSteps DEF SocketOpens, SocketTurn, GoTo, Orphan, Turns
<1>35. CASE SocketFails
  BY <1>35, <1>0, SocketSteps
     DEF SocketFails, SocketTurn, GoTo, ConnectCallbackFails, Orphan, Turns
<1>36. CASE SocketErrs
  BY <1>36, <1>0, SocketSteps
     DEF SocketErrs, SocketTurn, GoTo, ShutdownCleanup, CleanupBegins,
         ConnectCallbackFails, Orphan,
         Turns
<1>37. CASE ErrorReports
  BY <1>37, <1>0 DEF ErrorReports, ConnectCallbackFails, Orphan, Turns
<1>38. CASE SocketCloses
  BY <1>38, <1>0, SocketSteps DEF SocketCloses, Orphan, Turns
<1>39. CASE SocketClosed
  BY <1>39, <1>0, SocketSteps DEF SocketClosed, Orphan, Turns
<1>40. CASE BrokerSends
  BY <1>40, <1>0, SocketSteps DEF BrokerSends, Receives, SocketTurn, GoTo, Orphan, Turns
<1>41. CASE TimePasses
  BY <1>41, <1>0 DEF TimePasses, Orphan, Turns
<1>42. CASE UNCHANGED vars
  BY <1>42 DEF vars, Orphan, Turns, Resumed
<1> QED
  BY <1>1, <1>2, <1>3, <1>4, <1>5, <1>6, <1>7, <1>8, <1>9, <1>10, <1>11, <1>12, <1>13,
     <1>14, <1>15, <1>16, <1>17, <1>18, <1>19, <1>20, <1>21, <1>22, <1>23, <1>24, <1>25,
     <1>26, <1>27, <1>28, <1>29, <1>30, <1>31, <1>32, <1>33, <1>34, <1>35, <1>36, <1>37,
     <1>38, <1>39, <1>40, <1>41, <1>42, NothingSplit
     DEF Next, App, Tick, Environment

\* On one thread the threads always take turns.
LEMMA TurnsAlways ==
    ASSUME OneThread
    PROVE  Spec => []Turns
<1>1. Init => Turns
  BY DEF Init, Turns
<1>2. Typed /\ Turns /\ [Next]_vars => Turns'
  BY TurnsNext
<1> QED
  BY TypedAlways, <1>1, <1>2, PTL DEF Spec

\* On one thread, with a socket whose connect() does not fail, a client that says
\* it is disconnected has left no socket open, whichever way the connection ended
\* (the handlers of MqttClientImpl.cpp that set DISCONNECTED).
THEOREM SocketsClosed ==
    ASSUME OneThread, ~ConnectMayFail
    PROVE  Spec => []NoOrphanSocket
<1>1. Init => Orphan
  BY DEF Init, Orphan, NoSocket
<1>2. Typed /\ Turns /\ Orphan /\ [Next]_vars => Orphan'
  BY OrphanNext
<1>3. Orphan => NoOrphanSocket
  BY DEF Orphan, NoOrphanSocket, Quiet
<1> QED
  BY TypedAlways, TurnsAlways, <1>1, <1>2, <1>3, PTL DEF Spec

-----------------------------------------------------------------------------
(* What is received, on one thread.                                         *)

\* The answers to a CONNECT packet.
Replies == {"accepted", "present", "refused", "moved"}

\* A packet is the last that came over the present socket, and finds it open and
\* the client waiting for it, or the client disconnected.
Own(p) == p.serial = m_socket.serial /\ p.kind = m_socket.answer
Live(p) == m_connectionStatus # "DISCONNECTED" =>
              m_socket.state = "open" /\ (p.kind \in Replies => m_connectionStatus \in Attempting)

\* When the tick is past the received packets.
NothingReceived ==
    \/ tick \in {"lost", "reconnect", "handle", "refuse", "refuseCloses", "resume", "keepalive",
                 "socket"}
    \/ tick \in {"hard", "hardEnds"} /\ resume \in {"keepalive", "socket"}

\* At most one packet waits to be handled, and it belongs to the present socket.
Flow ==
    /\ \/ m_receiveQueue = <<>>
       \/ ~NothingReceived /\ \E p \in Received : m_receiveQueue = <<p>> /\ Own(p) /\ Live(p)
    /\ tick = "handle" => Own(handling) /\ Live(handling)
    /\ m_connectionStatus = "CONNECTED" => m_socket.answer # "none"
    /\ m_socket.state = "opening" => m_socket.answer = "none" /\ m_socket.wire = <<>>
    /\ m_socket.answer # "none" => "CONNECT" \in ToSet(m_socket.wire)

\* A queue of one packet.
LEMMA OnePacket ==
    ASSUME NEW p
    PROVE  <<p>> # <<>> /\ Head(<<p>>) = p /\ Tail(<<p>>) = <<>> /\ Append(<<>>, p) = <<p>>
OBVIOUS

\* What was sent stays sent.
LEMMA WireGrows ==
    ASSUME m_socket \in Socket
    PROVE  /\ \A p \in Packets : m_socket'.wire = Append(m_socket.wire, p) =>
                 ToSet(m_socket'.wire) = ToSet(m_socket.wire) \union {p}
           /\ \A s \in Seq(Packets) : m_socket'.wire = m_socket.wire \o s =>
                 ToSet(m_socket'.wire) = ToSet(m_socket.wire) \union ToSet(s)
<1>1. m_socket.wire \in Seq(Packets)
  BY SocketSteps
<1>2. \A p \in Packets : ToSet(Append(m_socket.wire, p)) = ToSet(m_socket.wire) \union {p}
  BY <1>1, ElementsAppend
<1>3. \A s \in Seq(Packets) : ToSet(m_socket.wire \o s) = ToSet(m_socket.wire) \union ToSet(s)
  BY <1>1, ElementsConcat
<1> QED
  BY <1>2, <1>3

\* What the broker sends is alone in the queue, and answers the socket's CONNECT
\* packet or comes after the answer.
LEMMA BrokerStep ==
    ASSUME OneThread, Typed, Turns, Flow, BrokerSends
    PROVE  \E p \in Received :
              /\ m_receiveQueue' = <<p>>
              /\ p.serial = m_socket.serial /\ p.kind # "none"
              /\ p.kind \in Replies => m_socket.answer = "none"
              /\ "CONNECT" \in ToSet(m_socket.wire)
              /\ m_socket'.state = "open" /\ m_socket'.serial = m_socket.serial
              /\ m_socket'.wire = m_socket.wire /\ m_socket'.answer = p.kind
<1> USE DEF clientVars, queueVars, eventVars, tickVars, callerVars, callbackVars
<1>0. m_socket \in Socket /\ ~SocketThread
  BY DEF Typed, DataTyped, OneThread
<1>1. PICK kind \in Answers \intersect BrokerMaySend, r \in Redirections \union {Null} :
          /\ m_receiveQueue' = Append(m_receiveQueue, [kind |-> kind, redirection |-> r,
                                                       serial |-> m_socket.serial])
          /\ m_socket' = [m_socket EXCEPT !.answer = kind]
  BY <1>0 DEF BrokerSends, Receives
<1>2. PICK p \in Received : /\ p = [kind |-> kind, redirection |-> r, serial |-> m_socket.serial]
                            /\ p.kind = kind /\ p.serial = m_socket.serial
  BY <1>0, <1>1, SocketSteps DEF Received
<1>3. m_receiveQueue' = <<p>>
  BY <1>0, <1>1, <1>2, OnePacket DEF BrokerSends, Receives, SocketTurn, Flow, NothingReceived
<1>4. /\ m_socket'.state = "open" /\ m_socket'.serial = m_socket.serial
      /\ m_socket'.wire = m_socket.wire /\ m_socket'.answer = kind
  BY <1>0, <1>1, SocketSteps DEF BrokerSends, Kinds
<1>5. "CONNECT" \in ToSet(m_socket.wire) /\ (kind \in Replies => m_socket.answer = "none")
  BY <1>1 DEF BrokerMaySend, Flow, Replies
<1>6. kind # "none"
  BY <1>1 DEF BrokerMaySend
<1> QED
  BY <1>2, <1>3, <1>4, <1>5, <1>6

\* The steps keep a received packet to its socket.
LEMMA FlowNext ==
    ASSUME OneThread, Typed, Turns, Flow, [Next]_vars
    PROVE  Flow'
<1> USE DEF clientVars, queueVars, eventVars, tickVars, callerVars, callbackVars
<1>0. /\ tick \in Phases /\ resume \in Resumed /\ m_connectionStatus \in Statuses
      /\ ~Async /\ ~SocketThread /\ ~ErrorCallback
      /\ m_socket \in Socket /\ m_sendQueue \in Queue
      /\ tick \in HandlingPhases => handling \in Received
  BY ConnectionAssumption
     DEF ConnectionAssumption, OneThread, Async, Typed, ThreadsTyped, DataTyped
<1>1. CASE ConnectBegins
  BY <1>1, <1>0, OnePacket
     DEF ConnectBegins, AppMayCall, ReceiveQueueAtConnect, Flow, Own, Live,
         NothingReceived, Turns
<1>2. CASE ConnectEnds
  BY <1>2, <1>0, SocketSteps, OnePacket
     DEF ConnectEnds, SocketRefuses, Flow, Own, Live, NothingReceived, Turns
<1>3. CASE RequestBegins
  BY <1>3, <1>0, OnePacket
     DEF RequestBegins, AppMayCall, Flow, Own, Live, NothingReceived, Turns
<1>4. CASE RequestEnds
  BY <1>4, <1>0, OnePacket DEF RequestEnds, Flow, Own, Live, NothingReceived, Turns
<1>5. CASE GracefulDisconnect
  BY <1>5, <1>0, OnePacket
     DEF GracefulDisconnect, AppMayCall, Flow, Own, Live, NothingReceived, Turns
<1>6. CASE DisconnectBegins
  <2>1. /\ m_socket'.state = m_socket.state /\ m_socket'.serial = m_socket.serial
        /\ m_socket'.answer = m_socket.answer
        /\ m_socket' = m_socket \/ m_socket'.wire = Append(m_socket.wire, "DISCONNECT")
    BY <1>6, <1>0, HardDisconnectSteps DEF DisconnectBegins
  <2>2. m_socket'.wire = m_socket.wire \/ ToSet(m_socket'.wire) = ToSet(m_socket.wire) \union {"DISCONNECT"}
    BY <1>0, <2>1, WireGrows DEF Packets
  <2> QED
    BY <1>6, <1>0, <2>1, <2>2
       DEF DisconnectBegins, AppMayCall, HardDisconnectBegins, Flow, Own, Live,
           NothingReceived, Turns, Resumed
<1>7. CASE DisconnectEnds
  BY <1>7, <1>0, SocketSteps, OnePacket
     DEF DisconnectEnds, HardDisconnectEnds, Flow, Own, Live, NothingReceived, Turns
<1>8. CASE Shutdown
  BY <1>8, <1>0, SocketSteps, OnePacket
     DEF Shutdown, AppMayCall, ShutdownCleanup, CleanupBegins, Flow, Own, Live,
         NothingReceived, Turns
<1>9. CASE ShutdownJoins
  BY <1>9, <1>0, OnePacket DEF ShutdownJoins, Flow, Own, Live, NothingReceived, Turns
<1>10. CASE CheckTimeOut
  BY <1>10, <1>0, OnePacket
     DEF CheckTimeOut, TickMayBegin, Flow, Own, Live, NothingReceived, Turns, Resumed
<1>11. CASE TimeOutConnect
  BY <1>11, <1>0, OnePacket
     DEF TimeOutConnect, GoTo, StatusAfterTimeOut, Flow, Own, Live, NothingReceived, Turns
<1>12. CASE TimeOutConnectCloses
  BY <1>12, <1>0, SocketSteps, OnePacket
     DEF TimeOutConnectCloses, Return, Flow, Own, Live, NothingReceived, Turns, Resumed
<1>13. CASE TimeOutReconnect
  BY <1>13, <1>0, SocketSteps, OnePacket
     DEF TimeOutReconnect, FailReconnect, GoTo, Return, Flow, Own, Live, NothingReceived,
         Turns, Resumed
<1>14. CASE ReportLost
  BY <1>14, <1>0, OnePacket
     DEF ReportLost, Return, Flow, Own, Live, NothingReceived, Turns, Resumed
<1>15. CASE TickReconnects
  BY <1>15, <1>0, SocketSteps, OnePacket
     DEF TickReconnects, Return, Reconnect, SocketRefuses, Flow, Own, Live,
         NothingReceived, Turns, Resumed
<1>16. CASE Proceed
  BY <1>16, <1>0, OnePacket DEF Proceed, GoTo, Flow, Own, Live, NothingReceived, Turns
<1>17. CASE SendPackets
  <2>1. /\ m_socket.state = "open" /\ m_socket'.state = m_socket.state
        /\ m_socket'.serial = m_socket.serial /\ m_socket'.answer = m_socket.answer
        /\ m_connectionStatus' \in {m_connectionStatus, "DISCONNECTED"}
        /\ m_socket'.wire = m_socket.wire \/ m_socket'.wire = m_socket.wire \o ComposedPackets
    BY <1>17, <1>0, SendSteps DEF Turns, SendPackets
  <2>2. m_socket'.wire = m_socket.wire \/ ToSet(m_socket.wire) \subseteq ToSet(m_socket'.wire)
    <3>1. ComposedPackets \in Seq(Packets)
      BY <1>0, QueueSteps, ConcatProperties DEF ComposedPackets
    <3> QED
      BY <1>0, <2>1, <3>1, WireGrows
  <2>3. tick' # "handle" /\ ~NothingReceived /\ UNCHANGED m_receiveQueue
    BY <1>17 DEF SendPackets, GoTo, NothingReceived
  <2>4. ~NothingReceived'
    BY <1>17 DEF SendPackets, GoTo, NothingReceived
  <2> QED
    BY <1>0, <2>1, <2>2, <2>3, <2>4 DEF Flow, Own, Live
<1>18. CASE DisconnectSent
  BY <1>18, <1>0, SocketSteps, OnePacket
     DEF DisconnectSent, GoTo, Flow, Own, Live, NothingReceived, Turns
<1>19. CASE TickDisconnects
  <2>1. /\ m_socket'.state = m_socket.state /\ m_socket'.serial = m_socket.serial
        /\ m_socket'.answer = m_socket.answer
        /\ m_socket' = m_socket \/ m_socket'.wire = Append(m_socket.wire, "DISCONNECT")
    BY <1>19, <1>0, HardDisconnectSteps DEF TickDisconnects
  <2>2. m_socket'.wire = m_socket.wire \/ ToSet(m_socket'.wire) = ToSet(m_socket.wire) \union {"DISCONNECT"}
    BY <1>0, <2>1, WireGrows DEF Packets
  <2> QED
    BY <1>19, <1>0, <2>1, <2>2
       DEF TickDisconnects, Return, HardDisconnectBegins, GoTo, Flow, Own, Live,
           NothingReceived, Turns, Resumed
<1>20. CASE TickDisconnected
  BY <1>20, <1>0, SocketSteps, OnePacket
     DEF TickDisconnected, HardDisconnectEnds, Return, Flow, Own, Live, NothingReceived,
         Turns, Resumed
<1>21. CASE TakePacket
  <2>1. /\ m_receiveQueue # <<>> /\ m_receiveQueue' = Tail(m_receiveQueue)
        /\ handling' = Head(m_receiveQueue)
        /\ UNCHANGED <<m_connectionStatus, m_socket>>
    BY <1>21 DEF TakePacket
  <2>2. PICK p \in Received : m_receiveQueue = <<p>> /\ Own(p) /\ Live(p)
    BY <2>1 DEF Flow
  <2>3. m_receiveQueue' = <<>> /\ handling' = p
    BY <2>1, <2>2, OnePacket
  <2>4. Own(handling)' /\ Live(handling)'
    BY <2>1, <2>2, <2>3 DEF Own, Live
  <2> QED
    BY <2>1, <2>3, <2>4 DEF Flow
<1>22. CASE NoMorePackets
  BY <1>22, <1>0, OnePacket
     DEF NoMorePackets, GoTo, Flow, Own, Live, NothingReceived, Turns
<1>23. CASE CheckKeepAlive
  BY <1>23, <1>0, OnePacket
     DEF CheckKeepAlive, Flow, Own, Live, NothingReceived, Turns, Resumed
<1>24. CASE TickSocket
  BY <1>24, <1>0, OnePacket DEF TickSocket, GoTo, Flow, Own, Live, NothingReceived, Turns
<1>25. CASE InvokeEvents
  BY <1>25, <1>0, OnePacket
     DEF InvokeEvents, GoTo, Flow, Own, Live, NothingReceived, Turns
<1>26. CASE TickStops
  BY <1>26, <1>0, SocketSteps, OnePacket
     DEF TickStops, ShutdownCleanup, CleanupBegins, GoTo, Flow, Own, Live, NothingReceived,
         Turns
<1>27. CASE ConnectAccepted
  BY <1>27, <1>0, OnePacket
     DEF ConnectAccepted, Handling, GoTo, Return, Flow, Own, Live, NothingReceived, Turns,
         Resumed
<1>28. CASE ConnectRefused
  BY <1>28, <1>0, SocketSteps, OnePacket
     DEF ConnectRefused, Handling, GoTo, FailReconnect, Return, Flow, Own, Live,
         NothingReceived, Turns, Resumed
<1>29. CASE RefuseConnect
  BY <1>29, <1>0, OnePacket
     DEF RefuseConnect, GoTo, Flow, Own, Live, NothingReceived, Turns
<1>30. CASE RefuseConnectCloses
  BY <1>30, <1>0, SocketSteps, OnePacket
     DEF RefuseConnectCloses, GoTo, Return, Flow, Own, Live, NothingReceived, Turns,
         Resumed
<1>31. CASE ConnAckResumes
  BY <1>31, <1>0, OnePacket
     DEF ConnAckResumes, Return, Flow, Own, Live, NothingReceived, Turns, Resumed
<1>32. CASE DisconnectReceived
  BY <1>32, <1>0, SocketSteps, OnePacket
     DEF DisconnectReceived, Handling, Return, Reconnect, Flow, Own, Live,
         NothingReceived, Turns, Resumed
<1>33. CASE DecodeFails
  BY <1>33, <1>0, OnePacket
     DEF DecodeFails, Handling, Flow, Own, Live, NothingReceived, Turns, Resumed
<1>34. CASE SocketOpens
  BY <1>34, <1>0, SocketSteps, OnePacket
     DEF SocketOpens, SocketTurn, GoTo, Flow, Own, Live, NothingReceived, Turns
<1>35. CASE SocketFails
  BY <1>35, <1>0, SocketSteps, OnePacket
     DEF SocketFails, SocketTurn, GoTo, ConnectCallbackFails, Flow, Own, Live,
         NothingReceived, Turns
<1>36. CASE SocketErrs
  BY <1>36, <1>0, SocketSteps, OnePacket
     DEF SocketErrs, SocketTurn, GoTo, ShutdownCleanup, CleanupBegins,
         ConnectCallbackFails, Flow, Own,
         Live, NothingReceived, Turns
<1>37. CASE ErrorReports
  BY <1>37, <1>0, OnePacket
     DEF ErrorReports, ConnectCallbackFails, Flow, Own, Live, NothingReceived, Turns
<1>38. CASE SocketCloses
  BY <1>38, <1>0, SocketSteps, OnePacket
     DEF SocketCloses, Flow, Own, Live, NothingReceived, Turns
<1>39. CASE SocketClosed
  BY <1>39, <1>0, SocketSteps, OnePacket
     DEF SocketClosed, Flow, Own, Live, NothingReceived, Turns
<1>40. CASE BrokerSends
  <2>1. PICK p \in Received :
            /\ m_receiveQueue' = <<p>>
            /\ p.serial = m_socket.serial /\ p.kind # "none"
            /\ p.kind \in Replies => m_socket.answer = "none"
            /\ "CONNECT" \in ToSet(m_socket.wire)
            /\ m_socket'.state = "open" /\ m_socket'.serial = m_socket.serial
            /\ m_socket'.wire = m_socket.wire /\ m_socket'.answer = p.kind
    BY <1>40, BrokerStep
  <2>2. tick' = "events" /\ m_connectionStatus' = m_connectionStatus
    BY <1>40, <1>0 DEF BrokerSends, Receives, SocketTurn, GoTo
  <2>3. Own(p)' /\ Live(p)'
    BY <1>0, <2>1, <2>2 DEF Own, Live, Flow, Statuses, Attempting
  <2> QED
    BY <2>1, <2>2, <2>3 DEF Flow, NothingReceived
<1>41. CASE TimePasses
  BY <1>41, <1>0, OnePacket DEF TimePasses, Flow, Own, Live, NothingReceived, Turns
<1>42. CASE UNCHANGED vars
  BY <1>42 DEF vars, Flow, Own, Live, NothingReceived, Turns, Resumed
<1> QED
  BY <1>1, <1>2, <1>3, <1>4, <1>5, <1>6, <1>7, <1>8, <1>9, <1>10, <1>11, <1>12, <1>13,
     <1>14, <1>15, <1>16, <1>17, <1>18, <1>19, <1>20, <1>21, <1>22, <1>23, <1>24, <1>25,
     <1>26, <1>27, <1>28, <1>29, <1>30, <1>31, <1>32, <1>33, <1>34, <1>35, <1>36, <1>37,
     <1>38, <1>39, <1>40, <1>41, <1>42, NothingSplit
     DEF Next, App, Tick, Environment

\* On one thread a received packet always belongs to its socket.
LEMMA FlowAlways ==
    ASSUME OneThread
    PROVE  Spec => []Flow
<1>1. Init => Flow
  BY ElementsEmpty DEF Init, Flow, NoSocket
<1>2. Typed /\ Turns /\ Flow /\ [Next]_vars => Flow'
  BY FlowNext
<1> QED
  BY TypedAlways, TurnsAlways, <1>1, <1>2, PTL DEF Spec

\* Without graceful disconnects nothing is sent between a CONNECT packet and its
\* answer, so nothing can break off then: the answer finds the client waiting.
Waits ==
    /\ "DISCONNECT" \notin ToSet(m_sendQueue.composers) \union ToSet(m_sendQueue.buffer)
    /\ tick # "sent"
    /\ tick = "reconnect" => m_socket.state = "closed"
    /\ m_socket.state = "open" /\ "CONNECT" \in ToSet(m_socket.wire)
          /\ m_connectionStatus # "CONNECTED" /\ tick # "refuseCloses"
             => m_sendQueue.composers = <<>>
    /\ (tick = "receive" /\ m_connectionStatus = "DISCONNECTED") \/ tick \in {"hard", "hardEnds"}
             => \A p \in Received : m_receiveQueue = <<p>> => p.kind \notin Replies
    /\ tick = "handle" /\ handling.kind \in Replies => m_connectionStatus # "DISCONNECTED"

\* The packets of the queue after a request, with a CONNECT packet.
LEMMA QueueElements ==
    ASSUME m_sendQueue \in Queue
    PROVE  /\ \A p \in Packets : AddToQueue(p) =>
                 /\ ToSet(m_sendQueue'.composers) = ToSet(m_sendQueue.composers) \union {p}
                 /\ m_sendQueue'.composers # <<>>
           /\ ToSet(ComposedPackets) = ToSet(m_sendQueue.buffer) \union ToSet(m_sendQueue.composers)
<1>1. m_sendQueue.composers \in Seq(Packets) /\ m_sendQueue.buffer \in Seq(Packets)
  BY QueueSteps
<1>2. ASSUME NEW p \in Packets, AddToQueue(p)
      PROVE  /\ ToSet(m_sendQueue'.composers) = ToSet(m_sendQueue.composers) \union {p}
             /\ m_sendQueue'.composers # <<>>
  <2>1. m_sendQueue'.composers = Append(m_sendQueue.composers, p)
    BY <1>2, QueueSteps
  <2> QED
    BY <1>1, <2>1, ElementsAppend, AppendProperties
<1>3. ToSet(ComposedPackets) = ToSet(m_sendQueue.buffer) \union ToSet(m_sendQueue.composers)
  BY <1>1, ElementsConcat DEF ComposedPackets
<1> QED
  BY <1>2, <1>3

\* The steps keep the client waiting.
LEMMA WaitsNext ==
    ASSUME OneThread, "graceful" \notin DisconnectArgs, Typed, Turns, Flow, Waits, [Next]_vars
    PROVE  Waits'
<1> USE DEF clientVars, queueVars, eventVars, tickVars, callerVars, callbackVars
<1>0. /\ tick \in Phases /\ resume \in Resumed /\ m_connectionStatus \in Statuses
      /\ ~Async /\ ~SocketThread /\ ~ErrorCallback
      /\ m_socket \in Socket /\ m_sendQueue \in Queue
      /\ tick \in HandlingPhases => handling \in Received
  BY ConnectionAssumption
     DEF ConnectionAssumption, OneThread, Async, Typed, ThreadsTyped, DataTyped
<1>1. CASE ConnectBegins
  BY <1>1, <1>0, QueueElements, ElementsEmpty, OnePacket
     DEF ConnectBegins, AppMayCall, ReceiveQueueAtConnect, Waits, Flow, Own, Live,
         NothingReceived, Turns
<1>2. CASE ConnectEnds
  BY <1>2, <1>0, SocketSteps, QueueElements, ElementsEmpty, OnePacket
     DEF ConnectEnds, SocketRefuses, Waits, Flow, Own, Live, NothingReceived, Turns
<1>3. CASE RequestBegins
  BY <1>3, <1>0, QueueElements, ElementsEmpty, OnePacket
     DEF RequestBegins, AppMayCall, Waits, Flow, Own, Live, NothingReceived, Turns
<1>4. CASE RequestEnds
  BY <1>4, <1>0, QueueSteps, QueueElements, ElementsEmpty, OnePacket
     DEF RequestEnds, Waits, Flow, Own, Live, NothingReceived, Turns, Packets
<1>5. CASE GracefulDisconnect
  BY <1>5, <1>0, QueueSteps, QueueElements, ElementsEmpty, OnePacket
     DEF GracefulDisconnect, AppMayCall, Waits, Flow, Own, Live, NothingReceived, Turns,
         Packets
<1>6. CASE DisconnectBegins
  <2>1. /\ m_socket'.state = m_socket.state /\ m_socket'.serial = m_socket.serial
        /\ m_socket'.answer = m_socket.answer
        /\ m_socket' = m_socket \/ m_socket'.wire = Append(m_socket.wire, "DISCONNECT")
        /\ m_sendQueue'.buffer = m_sendQueue.buffer
        /\ m_sendQueue' = m_sendQueue \/ m_sendQueue'.composers = <<>>
    BY <1>6, <1>0, HardDisconnectSteps DEF DisconnectBegins
  <2>2. m_socket' = m_socket \/ ToSet(m_socket'.wire) = ToSet(m_socket.wire) \union {"DISCONNECT"}
    BY <1>0, <2>1, WireGrows DEF Packets
  <2> QED
    BY <1>6, <1>0, <2>1, <2>2, ElementsEmpty
       DEF DisconnectBegins, AppMayCall, HardDisconnectBegins, Waits, Flow, Own, Live,
           NothingReceived, Turns, Resumed
<1>7. CASE DisconnectEnds
  BY <1>7, <1>0, SocketSteps, QueueSteps, QueueElements, ElementsEmpty, OnePacket
     DEF DisconnectEnds, HardDisconnectEnds, Waits, Flow, Own, Live, NothingReceived,
         Turns
<1>8. CASE Shutdown
  BY <1>8, <1>0, SocketSteps, QueueSteps, QueueElements, ElementsEmpty, OnePacket
     DEF Shutdown, AppMayCall, ShutdownCleanup, CleanupBegins, Waits, Flow, Own, Live,
         NothingReceived,
         Turns
<1>9. CASE ShutdownJoins
  BY <1>9, <1>0, QueueElements, ElementsEmpty, OnePacket
     DEF ShutdownJoins, Waits, Flow, Own, Live, NothingReceived, Turns
<1>10. CASE CheckTimeOut
  BY <1>10, <1>0, QueueElements, ElementsEmpty, OnePacket
     DEF CheckTimeOut, TickMayBegin, Waits, Flow, Own, Live, NothingReceived, Turns,
         Resumed
<1>11. CASE TimeOutConnect
  BY <1>11, <1>0, QueueElements, ElementsEmpty, OnePacket
     DEF TimeOutConnect, GoTo, StatusAfterTimeOut, Waits, Flow, Own, Live,
         NothingReceived, Turns
<1>12. CASE TimeOutConnectCloses
  BY <1>12, <1>0, SocketSteps, QueueSteps, QueueElements, ElementsEmpty, OnePacket
     DEF TimeOutConnectCloses, Return, Waits, Flow, Own, Live, NothingReceived, Turns,
         Resumed
<1>13. CASE TimeOutReconnect
  BY <1>13, <1>0, SocketSteps, QueueSteps, QueueElements, ElementsEmpty, OnePacket
     DEF TimeOutReconnect, FailReconnect, GoTo, Return, Waits, Flow, Own, Live,
         NothingReceived, Turns, Resumed
<1>14. CASE ReportLost
  BY <1>14, <1>0, QueueElements, ElementsEmpty, OnePacket
     DEF ReportLost, Return, Waits, Flow, Own, Live, NothingReceived, Turns, Resumed
<1>15. CASE TickReconnects
  BY <1>15, <1>0, SocketSteps, QueueElements, ElementsEmpty, OnePacket
     DEF TickReconnects, Return, Reconnect, SocketRefuses, Waits, Flow, Own, Live,
         NothingReceived, Turns, Resumed
<1>16. CASE Proceed
  BY <1>16, <1>0, QueueElements, ElementsEmpty, OnePacket
     DEF Proceed, GoTo, Waits, Flow, Own, Live, NothingReceived, Turns
<1>17. CASE SendPackets
  <2>1. /\ "DISCONNECT" \notin ToSet(ComposedPackets)
    BY <1>0, QueueElements DEF Waits
  <2>2. /\ m_sendQueue'.composers = <<>>
        /\ m_sendQueue'.buffer \in {m_sendQueue.buffer, <<>>, ComposedPackets}
        /\ m_connectionStatus' = m_connectionStatus
        /\ tick' = "receive" \/ (tick' = "hard" /\ m_sendQueue.composers # <<>>)
    BY <1>17, <1>0, <2>1, SendSteps, Zenon DEF SendPackets, GoTo
  <2> QED
    BY <1>17, <1>0, <2>1, <2>2, ElementsEmpty
       DEF SendPackets, Waits, Flow, Own, Live, NothingReceived, Turns, Attempting,
           Replies
<1>18. CASE DisconnectSent
  BY <1>18, <1>0, SocketSteps, QueueElements, ElementsEmpty, OnePacket
     DEF DisconnectSent, GoTo, Waits, Flow, Own, Live, NothingReceived, Turns
<1>19. CASE TickDisconnects
  <2>1. /\ m_socket'.state = m_socket.state /\ m_socket'.serial = m_socket.serial
        /\ m_socket'.answer = m_socket.answer
        /\ m_socket' = m_socket \/ m_socket'.wire = Append(m_socket.wire, "DISCONNECT")
        /\ m_sendQueue'.buffer = m_sendQueue.buffer
        /\ m_sendQueue' = m_sendQueue \/ m_sendQueue'.composers = <<>>
    BY <1>19, <1>0, HardDisconnectSteps DEF TickDisconnects
  <2>2. m_socket' = m_socket \/ ToSet(m_socket'.wire) = ToSet(m_socket.wire) \union {"DISCONNECT"}
    BY <1>0, <2>1, WireGrows DEF Packets
  <2> QED
    BY <1>19, <1>0, <2>1, <2>2, ElementsEmpty
       DEF TickDisconnects, Return, HardDisconnectBegins, GoTo, Waits, Flow, Own, Live,
           NothingReceived, Turns, Resumed
<1>20. CASE TickDisconnected
  BY <1>20, <1>0, SocketSteps, QueueSteps, QueueElements, ElementsEmpty, OnePacket
     DEF TickDisconnected, HardDisconnectEnds, Return, Waits, Flow, Own, Live,
         NothingReceived, Turns, Resumed
<1>21. CASE TakePacket
  BY <1>21, <1>0, QueueElements, ElementsEmpty, OnePacket
     DEF TakePacket, Waits, Flow, Own, Live, NothingReceived, Turns, Resumed
<1>22. CASE NoMorePackets
  BY <1>22, <1>0, QueueElements, ElementsEmpty, OnePacket
     DEF NoMorePackets, GoTo, Waits, Flow, Own, Live, NothingReceived, Turns
<1>23. CASE CheckKeepAlive
  BY <1>23, <1>0, QueueElements, ElementsEmpty, OnePacket
     DEF CheckKeepAlive, Waits, Flow, Own, Live, NothingReceived, Turns, Resumed
<1>24. CASE TickSocket
  BY <1>24, <1>0, QueueElements, ElementsEmpty, OnePacket
     DEF TickSocket, GoTo, Waits, Flow, Own, Live, NothingReceived, Turns
<1>25. CASE InvokeEvents
  BY <1>25, <1>0, QueueElements, ElementsEmpty, OnePacket
     DEF InvokeEvents, GoTo, Waits, Flow, Own, Live, NothingReceived, Turns
<1>26. CASE TickStops
  BY <1>26, <1>0, SocketSteps, QueueSteps, QueueElements, ElementsEmpty, OnePacket
     DEF TickStops, ShutdownCleanup, CleanupBegins, GoTo, Waits, Flow, Own, Live,
         NothingReceived, Turns
<1>27. CASE ConnectAccepted
  BY <1>27, <1>0, QueueElements, ElementsEmpty, OnePacket
     DEF ConnectAccepted, Handling, GoTo, Return, Waits, Flow, Own, Live, NothingReceived,
         Turns, Resumed
<1>28. CASE ConnectRefused
  BY <1>28, <1>0, SocketSteps, QueueSteps, QueueElements, ElementsEmpty, OnePacket
     DEF ConnectRefused, Handling, GoTo, FailReconnect, Return, Waits, Flow, Own, Live,
         NothingReceived, Turns, Resumed
<1>29. CASE RefuseConnect
  BY <1>29, <1>0, QueueElements, ElementsEmpty, OnePacket
     DEF RefuseConnect, GoTo, Waits, Flow, Own, Live, NothingReceived, Turns
<1>30. CASE RefuseConnectCloses
  BY <1>30, <1>0, SocketSteps, QueueSteps, QueueElements, ElementsEmpty, OnePacket
     DEF RefuseConnectCloses, GoTo, Return, Waits, Flow, Own, Live, NothingReceived,
         Turns, Resumed
<1>31. CASE ConnAckResumes
  BY <1>31, <1>0, QueueElements, ElementsEmpty, OnePacket
     DEF ConnAckResumes, Return, Waits, Flow, Own, Live, NothingReceived, Turns, Resumed
<1>32. CASE DisconnectReceived
  <2>1. tick' = "receive" /\ m_receiveQueue' = <<>>
    BY <1>32
       DEF DisconnectReceived, Handling, Return, Reconnect, Turns, Flow, NothingReceived
  <2>2. \/ m_socket' = m_socket /\ m_connectionStatus' = m_connectionStatus
        \/ m_socket'.state = "closed"
        \/ m_socket'.wire = <<>>
    BY <1>32, <1>0, SocketSteps DEF DisconnectReceived
  <2>3. \/ m_sendQueue' = m_sendQueue
        \/ m_sendQueue'.composers = <<>> /\ m_sendQueue'.buffer = m_sendQueue.buffer
    BY <1>32, <1>0, QueueSteps DEF DisconnectReceived
  <2> QED
    BY <1>32, <2>1, <2>2, <2>3, ElementsEmpty, OnePacket
       DEF DisconnectReceived, Handling, Waits
<1>33. CASE DecodeFails
  BY <1>33, <1>0, QueueElements, ElementsEmpty, OnePacket
     DEF DecodeFails, Handling, Waits, Flow, Own, Live, NothingReceived, Turns, Resumed
<1>34. CASE SocketOpens
  BY <1>34, <1>0, SocketSteps, QueueSteps, QueueElements, ElementsEmpty, OnePacket
     DEF SocketOpens, SocketTurn, GoTo, Waits, Flow, Own, Live, NothingReceived, Turns,
         Packets
<1>35. CASE SocketFails
  BY <1>35, <1>0, SocketSteps, QueueElements, ElementsEmpty, OnePacket
     DEF SocketFails, SocketTurn, GoTo, ConnectCallbackFails, Waits, Flow, Own, Live,
         NothingReceived, Turns
<1>36. CASE SocketErrs
  BY <1>36, <1>0, SocketSteps, QueueSteps, QueueElements, ElementsEmpty, OnePacket
     DEF SocketErrs, SocketTurn, GoTo, ShutdownCleanup, CleanupBegins,
         ConnectCallbackFails, Waits, Flow,
         Own, Live, NothingReceived, Turns
<1>37. CASE ErrorReports
  BY <1>37, <1>0, QueueElements, ElementsEmpty, OnePacket
     DEF ErrorReports, ConnectCallbackFails, Waits, Flow, Own, Live, NothingReceived, Turns
<1>38. CASE SocketCloses
  BY <1>38, <1>0, SocketSteps, QueueElements, ElementsEmpty, OnePacket
     DEF SocketCloses, Waits, Flow, Own, Live, NothingReceived, Turns
<1>39. CASE SocketClosed
  BY <1>39, <1>0, SocketSteps, QueueSteps, QueueElements, ElementsEmpty, OnePacket
     DEF SocketClosed, Waits, Flow, Own, Live, NothingReceived, Turns
<1>40. CASE BrokerSends
  BY <1>40, <1>0, SocketSteps, QueueElements, ElementsEmpty, OnePacket
     DEF BrokerSends, Receives, SocketTurn, GoTo, Waits, Flow, Own, Live, NothingReceived,
         Turns
<1>41. CASE TimePasses
  BY <1>41, <1>0, QueueElements, ElementsEmpty, OnePacket
     DEF TimePasses, Waits, Flow, Own, Live, NothingReceived, Turns
<1>42. CASE UNCHANGED vars
  BY <1>42 DEF vars, Waits, Flow, Own, Live, NothingReceived, Turns, Resumed, Packets
<1> QED
  BY <1>1, <1>2, <1>3, <1>4, <1>5, <1>6, <1>7, <1>8, <1>9, <1>10, <1>11, <1>12, <1>13,
     <1>14, <1>15, <1>16, <1>17, <1>18, <1>19, <1>20, <1>21, <1>22, <1>23, <1>24, <1>25,
     <1>26, <1>27, <1>28, <1>29, <1>30, <1>31, <1>32, <1>33, <1>34, <1>35, <1>36, <1>37,
     <1>38, <1>39, <1>40, <1>41, <1>42, NothingSplit
     DEF Next, App, Tick, Environment

\* The step that connects a client handles the answer of the present socket.
LEMMA ConnectingStep ==
    ASSUME Typed, Turns, Flow, Waits, Next,
           m_connectionStatus' = "CONNECTED", m_connectionStatus # "CONNECTED"
    PROVE  /\ m_connectionStatus \in Attempting
           /\ m_socket.state = "open" /\ handling.serial = m_socket.serial
<1> USE DEF clientVars, queueVars, eventVars, tickVars, callerVars, callbackVars
<1>1. ConnectAccepted
  <2>1. ~SendPackets
    BY DEF SendPackets
  <2> QED
    BY <2>1, NothingSplit
       DEF Next, App, Tick, Environment, ConnectBegins, AppMayCall, ReceiveQueueAtConnect,
           ConnectEnds, SocketRefuses, RequestBegins, RequestEnds, GracefulDisconnect,
           DisconnectBegins, HardDisconnectBegins, DisconnectEnds, HardDisconnectEnds,
           Shutdown, ShutdownCleanup, CleanupBegins, ShutdownJoins, CheckTimeOut,
           TickMayBegin,
           TimeOutConnect, GoTo, StatusAfterTimeOut, TimeOutConnectCloses, Return,
           TimeOutReconnect, FailReconnect, ReportLost, TickReconnects, Reconnect,
           Proceed, DisconnectSent, TickDisconnects, TickDisconnected, TakePacket,
           NoMorePackets, CheckKeepAlive, TickSocket, InvokeEvents, TickStops,
           ConnectAccepted, Handling, ConnectRefused, RefuseConnect, RefuseConnectCloses,
           ConnAckResumes, DisconnectReceived, DecodeFails, SocketOpens, SocketTurn,
           SocketFails, ConnectCallbackFails, SocketErrs, ErrorReports, SocketCloses,
           SocketClosed, BrokerSends, TimePasses
<1>2. tick = "handle" /\ handling.kind \in Replies
  BY <1>1 DEF ConnectAccepted, Handling, Replies
<1> QED
  BY <1>2 DEF Waits, Flow, Own, Live

\* On one thread and without graceful disconnects, only an answer to the CONNECT
\* packet sent over the present, open socket makes a client CONNECTED: never what
\* was left of an earlier connection, nor an answer that comes after the time-out
\* (handleReceivedConnectAcknowledge in MqttClientImpl.cpp).
THEOREM ConnectedByOwnAnswerOnly ==
    ASSUME OneThread, "graceful" \notin DisconnectArgs
    PROVE  Spec => ConnectedByOwnAnswer
<1>1. Init => Waits
  BY ElementsEmpty DEF Init, Waits, NoSocket
<1>2. Typed /\ Turns /\ Flow /\ Waits /\ [Next]_vars => Waits'
  BY WaitsNext
<1>3. Typed /\ Turns /\ Flow /\ Waits /\ [Next]_vars =>
          [m_connectionStatus' = "CONNECTED" /\ m_connectionStatus # "CONNECTED"
             => /\ m_connectionStatus \in Attempting
                /\ m_socket.state = "open" /\ handling.serial = m_socket.serial]_vars
  BY ConnectingStep
<1> QED
  BY TypedAlways, TurnsAlways, FlowAlways, <1>1, <1>2, <1>3, PTL
     DEF Spec, ConnectedByOwnAnswer

-----------------------------------------------------------------------------
(* What is reported, on one thread.                                         *)

IsOutcome(e) == e.kind \in {"connected", "connectFailed"}

\* The events s are of at most a calls of connect(), with one outcome for each; the
\* call a has none yet.
Settled(s, a) ==
    /\ \A i \in DOMAIN s : s[i].attempt <= a
    /\ \A i, j \in DOMAIN s :
          i # j /\ IsOutcome(s[i]) /\ IsOutcome(s[j]) => s[i].attempt # s[j].attempt
Fresh(s, a) == \A i \in DOMAIN s : IsOutcome(s[i]) => s[i].attempt < a

\* One event more.
LEMMA SettledAppend ==
    ASSUME NEW s \in Seq(Event), NEW e \in Event, Settled(s, e.attempt),
           IsOutcome(e) => Fresh(s, e.attempt)
    PROVE  /\ Settled(Append(s, e), e.attempt)
           /\ ~IsOutcome(e) /\ Fresh(s, e.attempt) => Fresh(Append(s, e), e.attempt)
<1>1. PICK t \in Seq(Event) : t = Append(s, e)
  BY AppendProperties
<1>2. /\ Len(s) \in Nat /\ DOMAIN s = 1 .. Len(s) /\ DOMAIN t = 1 .. Len(s) + 1
      /\ \A i \in 1 .. Len(s) : t[i] = s[i]
      /\ t[Len(s) + 1] = e
  <2>1. Len(t) = Len(s) + 1 /\ (\A i \in 1 .. Len(s) : t[i] = s[i]) /\ t[Len(s) + 1] = e
    BY <1>1, AppendProperties
  <2> QED
    BY <2>1, LenProperties
<1>3. e.attempt \in Nat /\ \A i \in DOMAIN s : s[i].attempt \in Nat
  <2>1. \A i \in DOMAIN s : s[i] \in Event
    BY <1>2, ElementOfSeq
  <2> QED
    BY <2>1, ConnectionAssumption DEF Event, ConnectionAssumption
<1>4. \A i \in DOMAIN t : (i \in DOMAIN s /\ t[i] = s[i]) \/ (i = Len(s) + 1 /\ t[i] = e)
  BY <1>2
<1>5. \A i \in DOMAIN t : t[i].attempt <= e.attempt
  BY <1>3, <1>4 DEF Settled
<1>6. ASSUME NEW i \in DOMAIN t, NEW j \in DOMAIN t, i # j, IsOutcome(t[i]), IsOutcome(t[j])
      PROVE  t[i].attempt # t[j].attempt
  BY <1>3, <1>4, <1>6 DEF Settled, Fresh
<1>7. ~IsOutcome(e) /\ Fresh(s, e.attempt) => Fresh(t, e.attempt)
  BY <1>4 DEF Fresh
<1> QED
  BY <1>1, <1>5, <1>6, <1>7 DEF Settled

\* The first of the events.
LEMMA SettledPrefix ==
    ASSUME NEW s \in Seq(Event), NEW t \in Seq(Event), NEW a
    PROVE  /\ Settled(s \o t, a) => Settled(s, a)
           /\ Fresh(s \o t, a) => Fresh(s, a)
<1>1. PICK u \in Seq(Event) : u = s \o t
  BY ConcatProperties
<1>2. /\ Len(s) \in Nat /\ Len(t) \in Nat /\ DOMAIN s = 1 .. Len(s)
      /\ DOMAIN u = 1 .. Len(s) + Len(t)
      /\ \A i \in 1 .. Len(s) + Len(t) : u[i] = IF i <= Len(s) THEN s[i] ELSE t[i - Len(s)]
  <2>1. /\ Len(u) = Len(s) + Len(t)
        /\ \A i \in 1 .. Len(s) + Len(t) : u[i] = IF i <= Len(s) THEN s[i] ELSE t[i - Len(s)]
    BY <1>1, ConcatProperties
  <2> QED
    BY <2>1, LenProperties
<1>3. \A i \in DOMAIN s : i \in DOMAIN u /\ u[i] = s[i]
  BY <1>2
<1>4. Settled(u, a) => Settled(s, a)
  BY <1>3 DEF Settled
<1>5. Fresh(u, a) => Fresh(s, a)
  BY <1>3 DEF Fresh
<1> QED
  BY <1>1, <1>4, <1>5

\* A call more.
LEMMA SettledNext ==
    ASSUME NEW s \in Seq(Event), NEW a \in Nat, Settled(s, a)
    PROVE  Settled(s, a + 1) /\ Fresh(s, a + 1)
<1>1. \A i \in DOMAIN s : s[i].attempt \in Nat
  <2>1. \A i \in DOMAIN s : s[i] \in Event
    BY LenProperties, ElementOfSeq
  <2> QED
    BY <2>1, ConnectionAssumption DEF Event, ConnectionAssumption
<1> QED
  BY <1>1 DEF Settled, Fresh

Reported == reports \o m_eventDeferrer

\* What the steps do to the events.
LEMMA ReportSteps ==
    ASSUME OneThread, Typed, Typed', Settled(Reported, attempts)
    PROVE  /\ UNCHANGED eventVars /\ attempts' = attempts + 1 =>
                 Settled(Reported, attempts)' /\ Fresh(Reported, attempts)'
           /\ UNCHANGED <<eventVars, attempts>> =>
                 /\ Settled(Reported, attempts)'
                 /\ Fresh(Reported, attempts) => Fresh(Reported, attempts)'
           /\ \A kind \in Events : Dispatch(kind) /\ attempts' = attempts =>
                 /\ kind \in {"connected", "connectFailed"} /\ Fresh(Reported, attempts)
                       => Settled(Reported, attempts)'
                 /\ kind \notin {"connected", "connectFailed"} =>
                       /\ Settled(Reported, attempts)'
                       /\ Fresh(Reported, attempts) => Fresh(Reported, attempts)'
           /\ (CleanupBegins \/ InvokeEvents) /\ attempts' = attempts =>
                 /\ Settled(Reported, attempts)'
                 /\ Fresh(Reported, attempts) => Fresh(Reported, attempts)'
<1>1. /\ reports \in Seq(Event) /\ m_eventDeferrer \in Seq(Event)
      /\ Reported \in Seq(Event) /\ attempts \in 0 .. MaxConnects /\ attempts \in Nat
  BY ConcatProperties DEF Typed, DataTyped, Reported
<1>2. Settled(Reported, attempts + 1) /\ Fresh(Reported, attempts + 1)
  BY <1>1, SettledNext
<1>3. ASSUME NEW kind \in Events, Dispatch(kind), attempts' = attempts,
             kind \in {"connected", "connectFailed"} => Fresh(Reported, attempts)
      PROVE  /\ Settled(Reported, attempts)'
             /\ kind \notin {"connected", "connectFailed"} =>
                   (Fresh(Reported, attempts) => Fresh(Reported, attempts)')
  <2>0. [attempt |-> attempts, kind |-> kind] \in Event
    BY <1>1 DEF Event
  <2>1. PICK e \in Event : /\ e = [attempt |-> attempts, kind |-> kind]
                           /\ e.attempt = attempts /\ e.kind = kind
    BY <2>0
  <2>2. m_eventDeferrer' = Append(m_eventDeferrer, e) /\ reports' = reports
    BY <1>3, <2>1 DEF Dispatch, OneThread, Async, Typed
  <2>3. reports' \o m_eventDeferrer' = Append(reports \o m_eventDeferrer, e)
    BY <1>1, <2>2, ConcatAppend
  <2>4. PICK s \in Seq(Event) : s = reports \o m_eventDeferrer
    BY <1>1 DEF Reported
  <2>5. /\ Settled(s, e.attempt)
        /\ IsOutcome(e) => Fresh(s, e.attempt)
    BY <1>3, <2>1, <2>4 DEF Reported, IsOutcome
  <2>6. /\ Settled(Append(s, e), e.attempt)
        /\ ~IsOutcome(e) /\ Fresh(s, e.attempt) => Fresh(Append(s, e), e.attempt)
    BY <2>5, SettledAppend
  <2> QED
    BY <1>3, <2>1, <2>3, <2>4, <2>6 DEF Reported, IsOutcome
<1>4. ASSUME CleanupBegins, attempts' = attempts
      PROVE  /\ Settled(Reported, attempts)'
             /\ Fresh(Reported, attempts) => Fresh(Reported, attempts)'
  <2>0. [attempt |-> attempts, kind |-> "disconnected"] \in Event
    BY <1>1 DEF Event, Events
  <2>1. PICK e \in Event : /\ e = [attempt |-> attempts, kind |-> "disconnected"]
                           /\ e.attempt = attempts /\ ~IsOutcome(e)
    BY <2>0 DEF IsOutcome
  <2>2. reports' \in {reports, Append(reports, e)} /\ m_eventDeferrer' = <<>>
    BY <1>4, <2>1 DEF CleanupBegins, Deliver
  <2>3. reports' \o m_eventDeferrer' = reports'
    BY <2>2, ConcatEmptySeq DEF Typed, DataTyped
  <2>4. /\ Settled(reports, attempts)
        /\ Fresh(Reported, attempts) => Fresh(reports, attempts)
    BY <1>1, SettledPrefix DEF Reported
  <2>5. /\ Settled(Append(reports, e), e.attempt)
        /\ ~IsOutcome(e) /\ Fresh(reports, e.attempt) => Fresh(Append(reports, e), e.attempt)
    BY <1>1, <2>1, <2>4, SettledAppend
  <2> QED
    BY <1>4, <2>1, <2>2, <2>3, <2>4, <2>5 DEF Reported
<1>5. ASSUME InvokeEvents, attempts' = attempts
      PROVE  /\ Settled(Reported, attempts)'
             /\ Fresh(Reported, attempts) => Fresh(Reported, attempts)'
  <2>1. reports' \in {reports, Reported} /\ m_eventDeferrer' = <<>>
    BY <1>5 DEF InvokeEvents, Reported
  <2>2. reports' \o m_eventDeferrer' = reports'
    BY <2>1, ConcatEmptySeq DEF Typed, DataTyped
  <2>3. /\ Settled(reports, attempts)
        /\ Fresh(Reported, attempts) => Fresh(reports, attempts)
    BY <1>1, SettledPrefix DEF Reported
  <2> QED
    BY <1>5, <2>1, <2>2, <2>3 DEF Reported
<1>6. UNCHANGED eventVars => reports' \o m_eventDeferrer' = reports \o m_eventDeferrer
  BY DEF eventVars
<1>7. UNCHANGED eventVars /\ attempts' = attempts + 1 =>
         Settled(Reported, attempts)' /\ Fresh(Reported, attempts)'
  BY <1>2, <1>6 DEF Reported
<1>8. UNCHANGED <<eventVars, attempts>> =>
         /\ Settled(Reported, attempts)'
         /\ Fresh(Reported, attempts) => Fresh(Reported, attempts)'
  BY <1>6 DEF Reported
<1> QED
  BY <1>3, <1>4, <1>5, <1>7, <1>8

\* An outcome is still to come while the client connects, while an answer is or may
\* come under way, and while the tick ends an attempt.
Due ==
    \/ m_socket.state # "closed" /\ m_socket.answer = "none"
    \/ m_connectionStatus \in Attempting /\ ~(tick \in {"hard", "hardEnds"} /\ resume = "keepalive")
    \/ \E p \in Received : m_receiveQueue = <<p>> /\ p.kind \in Replies
    \/ tick = "handle" /\ handling.kind \in Replies
    \/ tick \in {"timeoutCloses", "reconnect", "refuse", "refuseCloses"}

Outcomes ==
    /\ Settled(Reported, attempts)
    /\ tick # "resume"
    /\ Due => Fresh(Reported, attempts)

\* A call has one outcome.
LEMMA OutcomesNext ==
    ASSUME OneThread, "present" \notin Answers, "disconnectMoved" \notin Answers,
           Typed, Typed', Turns, Flow, Outcomes, [Next]_vars
    PROVE  Outcomes'
<1> USE DEF clientVars, queueVars, eventVars, tickVars, callerVars, callbackVars
<1>0. /\ tick \in Phases /\ resume \in Resumed /\ m_connectionStatus \in Statuses
      /\ ~Async /\ ~SocketThread /\ ~ErrorCallback
      /\ m_socket \in Socket /\ m_sendQueue \in Queue
      /\ tick \in HandlingPhases =>
            handling \in Received /\ handling.kind \notin {"none", "present", "disconnectMoved"}
  BY ConnectionAssumption
     DEF ConnectionAssumption, OneThread, Async, Typed, ThreadsTyped, DataTyped, Received
<1>1. CASE ConnectBegins
  BY <1>1, <1>0, ReportSteps, OnePacket
     DEF ConnectBegins, AppMayCall, ReceiveQueueAtConnect, Outcomes, Due, Flow, Own, Live,
         NothingReceived, Turns, Attempting, Replies, Events
<1>2. CASE ConnectEnds
  BY <1>2, <1>0, SocketSteps, ReportSteps, OnePacket
     DEF ConnectEnds, SocketRefuses, Outcomes, Due, Flow, Own, Live, NothingReceived,
         Turns, Attempting, Replies, Events
<1>3. CASE RequestBegins
  BY <1>3, <1>0, ReportSteps, OnePacket
     DEF RequestBegins, AppMayCall, Outcomes, Due, Flow, Own, Live, NothingReceived,
         Turns, Attempting, Replies, Events
<1>4. CASE RequestEnds
  BY <1>4, <1>0, ReportSteps, OnePacket
     DEF RequestEnds, Outcomes, Due, Flow, Own, Live, NothingReceived, Turns, Attempting,
         Replies, Events
<1>5. CASE GracefulDisconnect
  BY <1>5, <1>0, ReportSteps, OnePacket
     DEF GracefulDisconnect, AppMayCall, Outcomes, Due, Flow, Own, Live, NothingReceived,
         Turns, Attempting, Replies, Events
<1>6. CASE DisconnectBegins
  <2>1. m_socket'.state = m_socket.state /\ m_socket'.answer = m_socket.answer
    BY <1>6, <1>0, HardDisconnectSteps DEF DisconnectBegins
  <2> QED
    BY <1>6, <1>0, <2>1, ReportSteps
       DEF DisconnectBegins, AppMayCall, HardDisconnectBegins, Outcomes, Due, Flow, Own,
           Live, NothingReceived, Turns, Resumed, Attempting, Replies, HandlingPhases,
           Events
<1>7. CASE DisconnectEnds
  BY <1>7, <1>0, SocketSteps, ReportSteps, OnePacket
     DEF DisconnectEnds, HardDisconnectEnds, Outcomes, Due, Flow, Own, Live,
         NothingReceived, Turns, Attempting, Replies, Events
<1>8. CASE Shutdown
  BY <1>8, <1>0, SocketSteps, ReportSteps, OnePacket
     DEF Shutdown, AppMayCall, ShutdownCleanup, CleanupBegins, Outcomes, Due, Flow, Own, Live,
         NothingReceived, Turns, Attempting, Replies, Events
<1>9. CASE ShutdownJoins
  BY <1>9, <1>0, ReportSteps, OnePacket
     DEF ShutdownJoins, Outcomes, Due, Flow, Own, Live, NothingReceived, Turns,
         Attempting, Replies, Events
<1>10. CASE CheckTimeOut
  BY <1>10, <1>0, ReportSteps, OnePacket
     DEF CheckTimeOut, TickMayBegin, Outcomes, Due, Flow, Own, Live, NothingReceived,
         Turns, Resumed, Attempting, Replies, HandlingPhases, Events
<1>11. CASE TimeOutConnect
  BY <1>11, <1>0, ReportSteps, OnePacket
     DEF TimeOutConnect, GoTo, StatusAfterTimeOut, Outcomes, Due, Flow, Own, Live,
         NothingReceived, Turns, Attempting, Replies, HandlingPhases, Events
<1>12. CASE TimeOutConnectCloses
  BY <1>12, <1>0, SocketSteps, ReportSteps, OnePacket
     DEF TimeOutConnectCloses, Return, Outcomes, Due, Flow, Own, Live, NothingReceived,
         Turns, Resumed, Attempting, Replies, HandlingPhases, Events
<1>13. CASE TimeOutReconnect
  BY <1>13, <1>0, SocketSteps, ReportSteps, OnePacket
     DEF TimeOutReconnect, FailReconnect, GoTo, Return, Outcomes, Due, Flow, Own, Live,
         NothingReceived, Turns, Resumed, Attempting, Replies, HandlingPhases, Events
<1>14. CASE ReportLost
  BY <1>14, <1>0, ReportSteps, OnePacket
     DEF ReportLost, Return, Outcomes, Due, Flow, Own, Live, NothingReceived, Turns,
         Resumed, Attempting, Replies, HandlingPhases, Events
<1>15. CASE TickReconnects
  BY <1>15, <1>0, SocketSteps, ReportSteps, OnePacket
     DEF TickReconnects, Return, Reconnect, SocketRefuses, Outcomes, Due, Flow, Own, Live,
         NothingReceived, Turns, Resumed, Attempting, Replies, HandlingPhases, Events
<1>16. CASE Proceed
  BY <1>16, <1>0, ReportSteps, OnePacket
     DEF Proceed, GoTo, Outcomes, Due, Flow, Own, Live, NothingReceived, Turns,
         Attempting, Replies, HandlingPhases, Events
<1>17. CASE SendPackets
  <2>1. m_socket'.state = m_socket.state /\ m_socket'.answer = m_socket.answer
        /\ m_connectionStatus' \in {m_connectionStatus, "DISCONNECTED"}
    BY <1>17, <1>0, SendSteps
  <2> QED
    BY <1>17, <1>0, <2>1, ReportSteps
       DEF SendPackets, GoTo, Outcomes, Due, Flow, Own, Live, NothingReceived, Turns,
           Resumed, Attempting, Replies, HandlingPhases, Events
<1>18. CASE DisconnectSent
  BY <1>18, <1>0, SocketSteps, ReportSteps, OnePacket
     DEF DisconnectSent, GoTo, Outcomes, Due, Flow, Own, Live, NothingReceived, Turns,
         Attempting, Replies, HandlingPhases, Events
<1>19. CASE TickDisconnects
  <2>1. m_socket'.state = m_socket.state /\ m_socket'.answer = m_socket.answer
    BY <1>19, <1>0, HardDisconnectSteps DEF TickDisconnects
  <2> QED
    BY <1>19, <1>0, <2>1, ReportSteps
       DEF TickDisconnects, Return, HardDisconnectBegins, GoTo, Outcomes, Due, Flow, Own,
           Live, NothingReceived, Turns, Resumed, Attempting, Replies, HandlingPhases,
           Events
<1>20. CASE TickDisconnected
  BY <1>20, <1>0, SocketSteps, ReportSteps, OnePacket
     DEF TickDisconnected, HardDisconnectEnds, Return, Outcomes, Due, Flow, Own, Live,
         NothingReceived, Turns, Resumed, Attempting, Replies, HandlingPhases, Events
<1>21. CASE TakePacket
  <2>1. PICK p \in Received : m_receiveQueue = <<p>>
    BY <1>21 DEF TakePacket, Flow
  <2>2. handling' = p /\ m_receiveQueue' = <<>> /\ tick' = "handle"
    BY <1>21, <2>1, OnePacket DEF TakePacket
  <2>3. UNCHANGED <<m_socket, m_connectionStatus, eventVars, attempts>>
    BY <1>21 DEF TakePacket
  <2>4. Due' => Due
    BY <1>21, <2>1, <2>2, <2>3, OnePacket DEF TakePacket, Due
  <2> QED
    BY <2>2, <2>3, <2>4, ReportSteps DEF Outcomes
<1>22. CASE NoMorePackets
  BY <1>22, <1>0, ReportSteps, OnePacket
     DEF NoMorePackets, GoTo, Outcomes, Due, Flow, Own, Live, NothingReceived, Turns,
         Attempting, Replies, HandlingPhases, Events
<1>23. CASE CheckKeepAlive
  BY <1>23, <1>0, ReportSteps, OnePacket
     DEF CheckKeepAlive, Outcomes, Due, Flow, Own, Live, NothingReceived, Turns, Resumed,
         Attempting, Replies, HandlingPhases, Events
<1>24. CASE TickSocket
  BY <1>24, <1>0, ReportSteps, OnePacket
     DEF TickSocket, GoTo, Outcomes, Due, Flow, Own, Live, NothingReceived, Turns,
         Attempting, Replies, HandlingPhases, Events
<1>25. CASE InvokeEvents
  BY <1>25, <1>0, ReportSteps, OnePacket
     DEF InvokeEvents, GoTo, Outcomes, Due, Flow, Own, Live, NothingReceived, Turns,
         Attempting, Replies, HandlingPhases, Events
<1>26. CASE TickStops
  BY <1>26, <1>0, SocketSteps, ReportSteps, OnePacket
     DEF TickStops, ShutdownCleanup, CleanupBegins, GoTo, Outcomes, Due, Flow, Own, Live,
         NothingReceived, Turns, Attempting, Replies, HandlingPhases, Events
<1>27. CASE ConnectAccepted
  BY <1>27, <1>0, ReportSteps, OnePacket
     DEF ConnectAccepted, Handling, GoTo, Return, Outcomes, Due, Flow, Own, Live,
         NothingReceived, Turns, Resumed, Attempting, Replies, HandlingPhases, Events
<1>28. CASE ConnectRefused
  BY <1>28, <1>0, SocketSteps, ReportSteps, OnePacket
     DEF ConnectRefused, Handling, GoTo, FailReconnect, Return, Outcomes, Due, Flow, Own,
         Live, NothingReceived, Turns, Resumed, Attempting, Replies, HandlingPhases,
         Events
<1>29. CASE RefuseConnect
  BY <1>29, <1>0, ReportSteps, OnePacket
     DEF RefuseConnect, GoTo, Outcomes, Due, Flow, Own, Live, NothingReceived, Turns,
         Attempting, Replies, HandlingPhases, Events
<1>30. CASE RefuseConnectCloses
  BY <1>30, <1>0, SocketSteps, ReportSteps, OnePacket
     DEF RefuseConnectCloses, GoTo, Return, Outcomes, Due, Flow, Own, Live,
         NothingReceived, Turns, Resumed, Attempting, Replies, HandlingPhases, Events
<1>31. CASE ConnAckResumes
  BY <1>31, <1>0, ReportSteps, OnePacket
     DEF ConnAckResumes, Return, Outcomes, Due, Flow, Own, Live, NothingReceived, Turns,
         Resumed, Attempting, Replies, HandlingPhases, Events
<1>32. CASE DisconnectReceived
  BY <1>32, <1>0, SocketSteps, ReportSteps, OnePacket
     DEF DisconnectReceived, Handling, Return, Reconnect, Outcomes, Due, Flow, Own, Live,
         NothingReceived, Turns, Resumed, Attempting, Replies, HandlingPhases, Events
<1>33. CASE DecodeFails
  BY <1>33, <1>0, ReportSteps, OnePacket
     DEF DecodeFails, Handling, Outcomes, Due, Flow, Own, Live, NothingReceived, Turns,
         Resumed, Attempting, Replies, HandlingPhases, Events
<1>34. CASE SocketOpens
  BY <1>34, <1>0, SocketSteps, ReportSteps, OnePacket
     DEF SocketOpens, SocketTurn, GoTo, Outcomes, Due, Flow, Own, Live, NothingReceived,
         Turns, Attempting, Replies, HandlingPhases, Events
<1>35. CASE SocketFails
  BY <1>35, <1>0, SocketSteps, ReportSteps, OnePacket
     DEF SocketFails, SocketTurn, GoTo, ConnectCallbackFails, Outcomes, Due, Flow, Own,
         Live, NothingReceived, Turns, Attempting, Replies, HandlingPhases, Events
<1>36. CASE SocketErrs
  BY <1>36, <1>0, SocketSteps, ReportSteps, OnePacket
     DEF SocketErrs, SocketTurn, GoTo, ShutdownCleanup, CleanupBegins,
         ConnectCallbackFails, Outcomes,
         Due, Flow, Own, Live, NothingReceived, Turns, Attempting, Replies,
         HandlingPhases, Events
<1>37. CASE ErrorReports
  BY <1>37, <1>0, ReportSteps, OnePacket
     DEF ErrorReports, ConnectCallbackFails, Outcomes, Due, Flow, Own, Live,
         NothingReceived, Turns, Attempting, Replies, Events
<1>38. CASE SocketCloses
  BY <1>38, <1>0, SocketSteps, ReportSteps, OnePacket
     DEF SocketCloses, Outcomes, Due, Flow, Own, Live, NothingReceived, Turns, Attempting,
         Replies, Events
<1>39. CASE SocketClosed
  BY <1>39, <1>0, SocketSteps, ReportSteps, OnePacket
     DEF SocketClosed, Outcomes, Due, Flow, Own, Live, NothingReceived, Turns, Attempting,
         Replies, Events
<1>40. CASE BrokerSends
  <2>1. PICK p \in Received :
            /\ m_receiveQueue' = <<p>>
            /\ p.serial = m_socket.serial /\ p.kind # "none"
            /\ p.kind \in Replies => m_socket.answer = "none"
            /\ m_socket'.state = "open" /\ m_socket'.answer = p.kind
    BY <1>40, BrokerStep
  <2>2. /\ tick = "socket" /\ tick' = "events" /\ m_socket.state = "open"
        /\ UNCHANGED <<m_connectionStatus, eventVars, attempts>>
    BY <1>40, <1>0 DEF BrokerSends, Receives, SocketTurn, GoTo
  <2>3. \A q \in Received : m_receiveQueue' = <<q>> => q = p
    BY <2>1, OnePacket
  <2>4. Due' => Due
    BY <1>0, <2>1, <2>2, <2>3 DEF Due
  <2> QED
    BY <2>2, <2>4, ReportSteps DEF Outcomes
<1>41. CASE TimePasses
  BY <1>41, <1>0, ReportSteps, OnePacket
     DEF TimePasses, Outcomes, Due, Flow, Own, Live, NothingReceived, Turns, Attempting,
         Replies, Events
<1>42. CASE UNCHANGED vars
  <2>1. UNCHANGED <<eventVars, attempts>> /\ (Due' => Due)
    BY <1>42 DEF vars, Due
  <2> QED
    BY <1>42, <2>1, ReportSteps DEF vars, Outcomes
<1> QED
  BY <1>1, <1>2, <1>3, <1>4, <1>5, <1>6, <1>7, <1>8, <1>9, <1>10, <1>11, <1>12, <1>13,
     <1>14, <1>15, <1>16, <1>17, <1>18, <1>19, <1>20, <1>21, <1>22, <1>23, <1>24, <1>25,
     <1>26, <1>27, <1>28, <1>29, <1>30, <1>31, <1>32, <1>33, <1>34, <1>35, <1>36, <1>37,
     <1>38, <1>39, <1>40, <1>41, <1>42, NothingSplit
     DEF Next, App, Tick, Environment

\* Settled events name a call's failure once, and nothing next to it.
LEMMA SettledCounts ==
    ASSUME Typed, Settled(Reported, attempts)
    PROVE  FailsAtMostOnce
<1>1. Settled(reports, attempts)
  BY SettledPrefix DEF Typed, DataTyped, Reported
<1> SUFFICES ASSUME NEW a \in 1 .. MaxConnects
             PROVE  /\ Count(a, "connectFailed") <= 1
                    /\ Count(a, "connectFailed") = 1 => Count(a, "connected") = 0
  BY DEF FailsAtMostOnce
<1> DEFINE At(kind) == {i \in DOMAIN reports : reports[i] = [attempt |-> a, kind |-> kind]}
<1>2. \A i \in At("connectFailed") \union At("connected") :
          IsOutcome(reports[i]) /\ reports[i].attempt = a
  BY DEF IsOutcome
<1>3. \A i, j \in At("connectFailed") \union At("connected") : i = j
  BY <1>1, <1>2 DEF Settled
<1>4. Cardinality({}) = 0 /\ \A i : Cardinality({i}) = 1
  <2>1. \A i : Cardinality({i}) = 1
    BY ONLY FS_Singleton, Zenon
  <2>2. Cardinality({}) = 0
    BY ONLY FS_EmptySet, Zenon
  <2> QED
    BY <2>1, <2>2
<1>5. CASE At("connectFailed") = {}
  <2>1. Count(a, "connectFailed") = Cardinality({})
    BY <1>5, Zenon DEF Count
  <2> QED
    BY <1>4, <2>1
<1>6. ASSUME NEW i \in At("connectFailed")
      PROVE  /\ Count(a, "connectFailed") <= 1
             /\ Count(a, "connectFailed") = 1 => Count(a, "connected") = 0
  <2>1. At("connectFailed") = {i}
    BY <1>3, <1>6
  <2>2. \A j \in At("connected") : i = j
    BY <1>3, <1>6
  <2>3. i \notin At("connected")
    BY <1>6
  <2>4. At("connected") = {}
    BY <2>2, <2>3
  <2>5. Count(a, "connectFailed") = Cardinality({i}) /\ Count(a, "connected") = Cardinality({})
    BY <2>1, <2>4, Zenon DEF Count
  <2> QED
    BY <1>4, <2>5
<1> QED
  BY <1>5, <1>6

\* On one thread, when the broker neither claims a session the client does not know
\* nor sends a connected client elsewhere, a connect() call is reported failed at
\* most once and never after or before it was reported to have succeeded
\* (the handlers of MqttClientImpl.cpp that dispatch ConnectEvent).
THEOREM FailuresToldOnce ==
    ASSUME OneThread, "present" \notin Answers, "disconnectMoved" \notin Answers
    PROVE  Spec => []FailsAtMostOnce
<1>1. Init => Outcomes
  <2> SUFFICES ASSUME Init PROVE Outcomes
    OBVIOUS
  <2>1. Reported = <<>> /\ DOMAIN Reported = {}
    BY ConcatEmptySeq, EmptySeq DEF Init, Reported
  <2>2. Settled(Reported, attempts) /\ Fresh(Reported, attempts)
    BY <2>1 DEF Settled, Fresh
  <2> QED
    BY <2>2 DEF Init, Outcomes
<1>2. Typed /\ Turns /\ Flow /\ Outcomes /\ [Next]_vars => Outcomes'
  BY TypedNext, OutcomesNext
<1>3. Typed /\ Outcomes => FailsAtMostOnce
  BY SettledCounts DEF Outcomes
<1> QED
  BY TypedAlways, TurnsAlways, FlowAlways, <1>1, <1>2, <1>3, PTL DEF Spec

-----------------------------------------------------------------------------
(* What is sent, on one thread.                                             *)

\* A sequence of packets has one CONNECT packet at most, and it comes before the
\* requests.
Once(s) == \A i, j \in DOMAIN s : s[i] = "CONNECT" /\ s[j] = "CONNECT" => i = j
Led(s) == /\ Once(s)
          /\ \A i \in DOMAIN s : s[i] = "REQUEST" => \E j \in DOMAIN s : j < i /\ s[j] = "CONNECT"

\* The positions of a concatenation are those of its parts.
LEMMA ConcatPositions ==
    ASSUME NEW s \in Seq(Packets), NEW t \in Seq(Packets), NEW u, u = s \o t
    PROVE  /\ Len(s) \in Nat /\ DOMAIN s = 1 .. Len(s) /\ DOMAIN t = 1 .. Len(t) /\ Len(t) \in Nat
           /\ DOMAIN u = 1 .. Len(s) + Len(t)
           /\ \A i \in DOMAIN u : \/ i \in DOMAIN s /\ u[i] = s[i]
                                  \/ /\ i > Len(s) /\ i - Len(s) \in DOMAIN t
                                     /\ u[i] = t[i - Len(s)]
           /\ \A i \in DOMAIN s : i \in DOMAIN u /\ u[i] = s[i]
<1>1. /\ u \in Seq(Packets) /\ Len(u) = Len(s) + Len(t)
      /\ \A i \in 1 .. Len(s) + Len(t) : u[i] = IF i <= Len(s) THEN s[i] ELSE t[i - Len(s)]
  BY ConcatProperties
<1>2. /\ Len(s) \in Nat /\ DOMAIN s = 1 .. Len(s) /\ DOMAIN t = 1 .. Len(t) /\ Len(t) \in Nat
      /\ DOMAIN u = 1 .. Len(s) + Len(t)
  BY <1>1, LenProperties
<1> QED
  BY <1>1, <1>2

\* Sending more packets.
LEMMA LedConcat ==
    ASSUME NEW s \in Seq(Packets), NEW t \in Seq(Packets), Led(s), Once(t),
           ~("CONNECT" \in ToSet(s) /\ "CONNECT" \in ToSet(t)),
           "REQUEST" \in ToSet(t) => "CONNECT" \in ToSet(s)
    PROVE  Led(s \o t)
<1>1. PICK u : u = s \o t
  OBVIOUS
<1>2. /\ Len(s) \in Nat /\ DOMAIN s = 1 .. Len(s) /\ DOMAIN t = 1 .. Len(t) /\ Len(t) \in Nat
      /\ DOMAIN u = 1 .. Len(s) + Len(t)
      /\ \A i \in DOMAIN u : \/ i \in DOMAIN s /\ u[i] = s[i]
                             \/ /\ i > Len(s) /\ i - Len(s) \in DOMAIN t
                                /\ u[i] = t[i - Len(s)]
      /\ \A i \in DOMAIN s : i \in DOMAIN u /\ u[i] = s[i]
  BY <1>1, ConcatPositions
<1>3. /\ \A i \in DOMAIN s, j \in DOMAIN t : ~(s[i] = "CONNECT" /\ t[j] = "CONNECT")
      /\ \A i \in DOMAIN t : t[i] = "REQUEST" => \E j \in DOMAIN s : s[j] = "CONNECT"
  BY DEF ToSet
<1>4. Once(u)
  <2> SUFFICES ASSUME NEW i \in DOMAIN u, NEW j \in DOMAIN u, u[i] = "CONNECT", u[j] = "CONNECT"
               PROVE  i = j
    BY DEF Once
  <2>1. CASE i \in DOMAIN s /\ u[i] = s[i]
    <3>1. ~(j - Len(s) \in DOMAIN t /\ u[j] = t[j - Len(s)])
      BY <1>3, <2>1
    <3>2. j \in DOMAIN s /\ u[j] = s[j]
      BY <1>2, <3>1
    <3> QED
      BY <2>1, <3>2 DEF Led, Once
  <2>2. CASE i - Len(s) \in DOMAIN t /\ u[i] = t[i - Len(s)]
    <3>1. ~(j \in DOMAIN s /\ u[j] = s[j])
      BY <1>3, <2>2
    <3>2. j - Len(s) \in DOMAIN t /\ u[j] = t[j - Len(s)]
      BY <1>2, <3>1
    <3>3. i - Len(s) = j - Len(s)
      BY <2>2, <3>2 DEF Once
    <3> QED
      BY <1>2, <3>3
  <2> QED
    BY <1>2, <2>1, <2>2
<1>5. ASSUME NEW i \in DOMAIN u, u[i] = "REQUEST"
      PROVE  \E j \in DOMAIN u : j < i /\ u[j] = "CONNECT"
  <2>1. CASE i \in DOMAIN s /\ u[i] = s[i]
    BY <1>2, <1>5, <2>1 DEF Led
  <2>2. CASE i > Len(s) /\ i - Len(s) \in DOMAIN t /\ u[i] = t[i - Len(s)]
    <3>1. PICK j \in DOMAIN s : s[j] = "CONNECT"
      BY <1>3, <1>5, <2>2
    <3> QED
      BY <1>2, <2>2, <3>1
  <2> QED
    BY <1>2, <2>1, <2>2
<1> QED
  BY <1>1, <1>4, <1>5 DEF Led

\* One packet more.
LEMMA OneMore ==
    ASSUME NEW s \in Seq(Packets), NEW p \in Packets
    PROVE  /\ Once(s) /\ (p = "CONNECT" => "CONNECT" \notin ToSet(s)) => Once(Append(s, p))
           /\ "CONNECT" \notin ToSet(s) => Once(s)
           /\ Led(s) /\ p = "DISCONNECT" => Led(Append(s, p))
<1>1. PICK u : u = Append(s, p)
  OBVIOUS
<1>2. /\ Len(s) \in Nat /\ DOMAIN s = 1 .. Len(s) /\ DOMAIN u = 1 .. Len(s) + 1
      /\ u[Len(s) + 1] = p
      /\ \A i \in DOMAIN s : i \in DOMAIN u /\ u[i] = s[i]
  <2>1. /\ u \in Seq(Packets) /\ Len(u) = Len(s) + 1
        /\ u[Len(s) + 1] = p /\ \A i \in 1 .. Len(s) : u[i] = s[i]
    BY <1>1, AppendProperties
  <2> QED
    BY <2>1, LenProperties
<1>3. \A i \in DOMAIN u : (i \in DOMAIN s /\ u[i] = s[i]) \/ (i = Len(s) + 1 /\ u[i] = p)
  BY <1>2
<1>4. Once(s) /\ (p = "CONNECT" => "CONNECT" \notin ToSet(s)) => Once(u)
  BY <1>3 DEF Once, ToSet
<1>5. "CONNECT" \notin ToSet(s) => Once(s)
  BY DEF Once, ToSet
<1>6. Led(s) /\ p = "DISCONNECT" => Led(u)
  <2> SUFFICES ASSUME Led(s), p = "DISCONNECT" PROVE Led(u)
    OBVIOUS
  <2>1. Once(u)
    BY <1>4 DEF Led
  <2>2. ASSUME NEW i \in DOMAIN u, u[i] = "REQUEST"
        PROVE  \E j \in DOMAIN u : j < i /\ u[j] = "CONNECT"
    BY <1>2, <1>3, <2>2 DEF Led
  <2> QED
    BY <2>1, <2>2 DEF Led
<1> QED
  BY <1>1, <1>4, <1>5, <1>6

\* What the wire of a socket shows of that.
LEMMA LedLeads ==
    ASSUME m_socket.wire \in Seq(Packets), Led(m_socket.wire)
    PROVE  ConnectLeads
<1>1. PICK s \in Seq(Packets) : s = m_socket.wire
  OBVIOUS
<1> DEFINE I == {i \in DOMAIN s : s[i] = "CONNECT"}
<1>2. Cardinality(I) <= 1
  <2>1. \A i, j \in I : i = j
    BY <1>1 DEF Led, Once
  <2> HIDE DEF I
  <2> QED
    BY <2>1, AtMostOne
<1>3. ASSUME NEW i \in DOMAIN s, s[i] = "REQUEST"
      PROVE  "CONNECT" \in ToSet(SubSeq(s, 1, i))
  <2>1. PICK j \in DOMAIN s : j < i /\ s[j] = "CONNECT"
    BY <1>1, <1>3 DEF Led
  <2>2. Len(s) \in Nat /\ DOMAIN s = 1 .. Len(s) /\ \A k \in 1 .. i : s[k] \in Packets
    BY LenProperties, ElementOfSeq
  <2>3. PICK u : u = SubSeq(s, 1, i)
    OBVIOUS
  <2>4. /\ u \in Seq(Packets) /\ Len(u) = i /\ \A k \in 1 .. i : u[k] = s[k]
    BY <2>2, <2>3, SubSeqProperties
  <2>5. j \in DOMAIN u /\ u[j] = "CONNECT"
    BY <2>1, <2>2, <2>4, LenProperties
  <2> QED
    BY <2>3, <2>5 DEF ToSet
<1> QED
  BY <1>1, <1>2, <1>3 DEF ConnectLeads

\* Nothing but what belongs to the present socket is queued for it.
Unsent == ToSet(m_sendQueue.composers) \intersect {"CONNECT", "REQUEST"}

Leading ==
    /\ m_sendQueue.buffer = <<>>
    /\ m_connectionStatus # "RECONNECTING" /\ tick \notin {"retimeout", "reconnect"}
    /\ m_connectionStatus = "DISCONNECTED" /\ tick \notin {"timeoutCloses", "refuseCloses"}
          => Unsent = {} /\ (tick # "sent" => m_socket.state = "closed")
    /\ app = "connect" => m_socket.state = "closed"
    /\ app \in {"connect", "disconnect"} \/ tick = "hardEnds" \/ m_socket.state = "opening"
          => Unsent = {}
    /\ m_socket.state = "open" =>
          /\ ~("CONNECT" \in ToSet(m_socket.wire) /\ "CONNECT" \in ToSet(m_sendQueue.composers))
          /\ "REQUEST" \in ToSet(m_sendQueue.composers) => "CONNECT" \in ToSet(m_socket.wire)
          /\ Once(m_sendQueue.composers)
    /\ Led(m_socket.wire)

\* The steps queue nothing for another socket.
LEMMA LeadingNext ==
    ASSUME OneThread, ~SendMayFail, "keepQueue" \notin DisconnectArgs,
           "moved" \notin Answers, "disconnectMoved" \notin Answers,
           Typed, Turns, Flow, Leading, [Next]_vars
    PROVE  Leading'
<1> USE DEF clientVars, queueVars, eventVars, tickVars, callerVars, callbackVars
<1>0. /\ tick \in Phases /\ resume \in Resumed /\ m_connectionStatus \in Statuses
      /\ ~Async /\ ~SocketThread /\ ~ErrorCallback
      /\ m_socket \in Socket /\ m_sendQueue \in Queue
      /\ tick \in HandlingPhases =>
            handling \in Received /\ handling.kind \notin {"none", "moved", "disconnectMoved"}
  BY ConnectionAssumption
     DEF ConnectionAssumption, OneThread, Async, Typed, ThreadsTyped, DataTyped, Received
<1>e. ToSet(<<>>) = {} /\ Led(<<>>) /\ Once(<<>>)
  <2>1. DOMAIN <<>> = {}
    BY EmptySeq, LenProperties
  <2> QED
    BY <2>1, ElementsEmpty DEF Led, Once
<1>q. \A p \in Packets : AddToQueue(p) =>
         /\ ToSet(m_sendQueue'.composers) = ToSet(m_sendQueue.composers) \union {p}
         /\ m_sendQueue'.buffer = m_sendQueue.buffer
         /\ "CONNECT" \notin ToSet(m_sendQueue.composers) => Once(m_sendQueue'.composers)
         /\ Once(m_sendQueue.composers) /\ p # "CONNECT" => Once(m_sendQueue'.composers)
  BY <1>0, QueueSteps, QueueElements, OneMore
<1>1. CASE ConnectBegins
  BY <1>1, <1>0, <1>e, <1>q
     DEF ConnectBegins, AppMayCall, ReceiveQueueAtConnect, Leading, Unsent, Flow, Live,
         Turns
<1>2. CASE ConnectEnds
  BY <1>2, <1>0, <1>e, <1>q, SocketSteps
     DEF ConnectEnds, SocketRefuses, Leading, Unsent, Flow, Live, Turns
<1>3. CASE RequestBegins
  BY <1>3, <1>0, <1>e, <1>q
     DEF RequestBegins, AppMayCall, Leading, Unsent, Flow, Live, Turns
<1>4. CASE RequestEnds
  BY <1>4, <1>0, <1>e, <1>q, QueueSteps
     DEF RequestEnds, Leading, Unsent, Flow, Live, Turns, Packets
<1>5. CASE GracefulDisconnect
  BY <1>5, <1>0, <1>e, <1>q, QueueSteps
     DEF GracefulDisconnect, AppMayCall, Leading, Unsent, Flow, Live, Turns, Packets
<1>6. CASE DisconnectBegins
  <2>1. /\ m_socket'.state = m_socket.state /\ m_socket'.answer = m_socket.answer
        /\ \/ m_socket' = m_socket
           \/ m_socket.state = "open" /\ m_socket'.wire = Append(m_socket.wire, "DISCONNECT")
        /\ m_sendQueue'.buffer = m_sendQueue.buffer
        /\ m_sendQueue'.composers = <<>>
    BY <1>6, <1>0, HardDisconnectSteps DEF DisconnectBegins
  <2>2. Led(m_socket'.wire)
    BY <1>0, <2>1, SocketSteps, OneMore DEF Leading, Packets
  <2>3. m_socket' = m_socket \/ ToSet(m_socket'.wire) = ToSet(m_socket.wire) \union {"DISCONNECT"}
    BY <1>0, <2>1, WireGrows DEF Packets
  <2> QED
    BY <1>6, <1>0, <1>e, <2>1, <2>2, <2>3
       DEF DisconnectBegins, AppMayCall, HardDisconnectBegins, Leading, Unsent, Flow,
           Live, Turns, Resumed, HandlingPhases, Packets
<1>7. CASE DisconnectEnds
  BY <1>7, <1>0, <1>e, <1>q, SocketSteps, QueueSteps
     DEF DisconnectEnds, HardDisconnectEnds, Leading, Unsent, Flow, Live, Turns
<1>8. CASE Shutdown
  BY <1>8, <1>0, <1>e, <1>q, SocketSteps, QueueSteps
     DEF Shutdown, AppMayCall, ShutdownCleanup, CleanupBegins, Leading, Unsent, Flow, Live,
         Turns
<1>9. CASE ShutdownJoins
  BY <1>9, <1>0, <1>e, <1>q DEF ShutdownJoins, Leading, Unsent, Flow, Live, Turns
<1>10. CASE CheckTimeOut
  BY <1>10, <1>0, <1>e, <1>q
     DEF CheckTimeOut, TickMayBegin, Leading, Unsent, Flow, Live, Turns, Resumed,
         HandlingPhases
<1>11. CASE TimeOutConnect
  BY <1>11, <1>0, <1>e, <1>q
     DEF TimeOutConnect, GoTo, StatusAfterTimeOut, Leading, Unsent, Flow, Live, Turns,
         HandlingPhases
<1>12. CASE TimeOutConnectCloses
  BY <1>12, <1>0, <1>e, <1>q, SocketSteps, QueueSteps
     DEF TimeOutConnectCloses, Return, Leading, Unsent, Flow, Live, Turns, Resumed,
         HandlingPhases
<1>13. CASE TimeOutReconnect
  BY <1>13, <1>0, <1>e, <1>q, SocketSteps, QueueSteps
     DEF TimeOutReconnect, FailReconnect, GoTo, Return, Leading, Unsent, Flow, Live,
         Turns, Resumed, HandlingPhases
<1>14. CASE ReportLost
  BY <1>14, <1>0, <1>e, <1>q
     DEF ReportLost, Return, Leading, Unsent, Flow, Live, Turns, Resumed, HandlingPhases
<1>15. CASE TickReconnects
  BY <1>15, <1>0, <1>e, <1>q, SocketSteps
     DEF TickReconnects, Return, Reconnect, SocketRefuses, Leading, Unsent, Flow, Live,
         Turns, Resumed, HandlingPhases
<1>16. CASE Proceed
  BY <1>16, <1>0, <1>e, <1>q
     DEF Proceed, GoTo, Leading, Unsent, Flow, Live, Turns, HandlingPhases
<1>17. CASE SendPackets
  <2>1. m_socket.state = "open" /\ ComposedPackets = m_sendQueue.composers
    BY <1>17, <1>0, QueueSteps, ConcatEmptySeq
       DEF SendPackets, Turns, Leading, ComposedPackets
  <2>2. /\ m_socket'.state = "open" /\ m_sendQueue'.composers = <<>>
        /\ m_sendQueue'.buffer = <<>>
        /\ \/ m_socket' = m_socket /\ m_connectionStatus' = m_connectionStatus /\ tick' = "receive"
           \/ /\ m_socket'.wire = m_socket.wire \o m_sendQueue.composers
              /\ \/ m_connectionStatus' = "DISCONNECTED" /\ tick' = "sent"
                 \/ m_connectionStatus' = m_connectionStatus /\ tick' = "receive"
    BY <1>17, <1>0, <2>1, SendSteps DEF Leading
  <2>3. Led(m_socket'.wire)
    BY <1>0, <2>1, <2>2, SocketSteps, QueueSteps, LedConcat DEF Leading
  <2> QED
    BY <1>17, <1>0, <1>e, <2>2, <2>3 DEF SendPackets, Leading, Unsent, Turns
<1>18. CASE DisconnectSent
  BY <1>18, <1>0, <1>e, <1>q, SocketSteps
     DEF DisconnectSent, GoTo, Leading, Unsent, Flow, Live, Turns, HandlingPhases
<1>19. CASE TickDisconnects
  <2>1. /\ m_socket'.state = m_socket.state /\ m_socket'.answer = m_socket.answer
        /\ \/ m_socket' = m_socket
           \/ m_socket.state = "open" /\ m_socket'.wire = Append(m_socket.wire, "DISCONNECT")
        /\ m_sendQueue'.buffer = m_sendQueue.buffer
        /\ m_sendQueue'.composers = <<>> \/ (m_sendQueue' = m_sendQueue /\ tick' = resume)
    BY <1>19, <1>0, HardDisconnectSteps DEF TickDisconnects, Return
  <2>2. Led(m_socket'.wire)
    BY <1>0, <2>1, SocketSteps, OneMore DEF Leading, Packets
  <2>3. m_socket' = m_socket \/ ToSet(m_socket'.wire) = ToSet(m_socket.wire) \union {"DISCONNECT"}
    BY <1>0, <2>1, WireGrows DEF Packets
  <2> QED
    BY <1>19, <1>0, <1>e, <2>1, <2>2, <2>3
       DEF TickDisconnects, Return, HardDisconnectBegins, GoTo, Leading, Unsent, Flow,
           Live, Turns, Resumed, HandlingPhases, Packets
<1>20. CASE TickDisconnected
  BY <1>20, <1>0, <1>e, <1>q, SocketSteps, QueueSteps
     DEF TickDisconnected, HardDisconnectEnds, Return, Leading, Unsent, Flow, Live, Turns,
         Resumed, HandlingPhases
<1>21. CASE TakePacket
  BY <1>21, <1>0, <1>e, <1>q
     DEF TakePacket, Leading, Unsent, Flow, Live, Turns, Resumed, HandlingPhases
<1>22. CASE NoMorePackets
  BY <1>22, <1>0, <1>e, <1>q
     DEF NoMorePackets, GoTo, Leading, Unsent, Flow, Live, Turns, HandlingPhases
<1>23. CASE CheckKeepAlive
  BY <1>23, <1>0, <1>e, <1>q
     DEF CheckKeepAlive, Leading, Unsent, Flow, Live, Turns, Resumed, HandlingPhases
<1>24. CASE TickSocket
  BY <1>24, <1>0, <1>e, <1>q
     DEF TickSocket, GoTo, Leading, Unsent, Flow, Live, Turns, HandlingPhases
<1>25. CASE InvokeEvents
  BY <1>25, <1>0, <1>e, <1>q
     DEF InvokeEvents, GoTo, Leading, Unsent, Flow, Live, Turns, HandlingPhases
<1>26. CASE TickStops
  BY <1>26, <1>0, <1>e, <1>q, SocketSteps, QueueSteps
     DEF TickStops, ShutdownCleanup, CleanupBegins, GoTo, Leading, Unsent, Flow, Live, Turns,
         HandlingPhases
<1>27. CASE ConnectAccepted
  BY <1>27, <1>0, <1>e, <1>q
     DEF ConnectAccepted, Handling, GoTo, Return, Leading, Unsent, Flow, Live, Turns,
         Resumed, HandlingPhases
<1>28. CASE ConnectRefused
  BY <1>28, <1>0, <1>e, <1>q, SocketSteps, QueueSteps
     DEF ConnectRefused, Handling, GoTo, FailReconnect, Return, Leading, Unsent, Flow,
         Live, Turns, Resumed, HandlingPhases
<1>29. CASE RefuseConnect
  BY <1>29, <1>0, <1>e, <1>q
     DEF RefuseConnect, GoTo, Leading, Unsent, Flow, Live, Turns, HandlingPhases
<1>30. CASE RefuseConnectCloses
  BY <1>30, <1>0, <1>e, <1>q, SocketSteps, QueueSteps
     DEF RefuseConnectCloses, GoTo, Return, Leading, Unsent, Flow, Live, Turns, Resumed,
         HandlingPhases
<1>31. CASE ConnAckResumes
  BY <1>31, <1>0, <1>e, <1>q
     DEF ConnAckResumes, Return, Leading, Unsent, Flow, Live, Turns, Resumed,
         HandlingPhases
<1>32. CASE DisconnectReceived
  BY <1>32, <1>0, <1>e, <1>q, SocketSteps, QueueSteps
     DEF DisconnectReceived, Handling, Return, Reconnect, Leading, Unsent, Flow, Live,
         Turns, Resumed, HandlingPhases
<1>33. CASE DecodeFails
  BY <1>33, <1>0, <1>e, <1>q
     DEF DecodeFails, Handling, Leading, Unsent, Flow, Live, Turns, Resumed,
         HandlingPhases
<1>34. CASE SocketOpens
  BY <1>34, <1>0, <1>e, <1>q, SocketSteps, QueueSteps
     DEF SocketOpens, SocketTurn, GoTo, Leading, Unsent, Flow, Live, Turns,
         HandlingPhases, Packets
<1>35. CASE SocketFails
  BY <1>35, <1>0, <1>e, <1>q, SocketSteps
     DEF SocketFails, SocketTurn, GoTo, ConnectCallbackFails, Leading, Unsent, Flow, Live,
         Turns, HandlingPhases
<1>36. CASE SocketErrs
  BY <1>36, <1>0, <1>e, <1>q, SocketSteps, QueueSteps
     DEF SocketErrs, SocketTurn, GoTo, ShutdownCleanup, CleanupBegins,
         ConnectCallbackFails, Leading,
         Unsent, Flow, Live, Turns, HandlingPhases
<1>37. CASE ErrorReports
  BY <1>37, <1>0, <1>e, <1>q
     DEF ErrorReports, ConnectCallbackFails, Leading, Unsent, Flow, Live, Turns
<1>38. CASE SocketCloses
  BY <1>38, <1>0, <1>e, <1>q, SocketSteps
     DEF SocketCloses, Leading, Unsent, Flow, Live, Turns
<1>39. CASE SocketClosed
  BY <1>39, <1>0, <1>e, <1>q, SocketSteps, QueueSteps
     DEF SocketClosed, Leading, Unsent, Flow, Live, Turns
<1>40. CASE BrokerSends
  BY <1>40, <1>0, <1>e, <1>q, SocketSteps
     DEF BrokerSends, Receives, SocketTurn, GoTo, Leading, Unsent, Flow, Live, Turns,
         HandlingPhases
<1>41. CASE TimePasses
  BY <1>41, <1>0, <1>e, <1>q DEF TimePasses, Leading, Unsent, Flow, Live, Turns
<1>42. CASE UNCHANGED vars
  BY <1>42 DEF vars, Leading, Unsent, Flow, Live, Turns, Resumed, HandlingPhases, Packets
<1> QED
  BY <1>1, <1>2, <1>3, <1>4, <1>5, <1>6, <1>7, <1>8, <1>9, <1>10, <1>11, <1>12, <1>13,
     <1>14, <1>15, <1>16, <1>17, <1>18, <1>19, <1>20, <1>21, <1>22, <1>23, <1>24, <1>25,
     <1>26, <1>27, <1>28, <1>29, <1>30, <1>31, <1>32, <1>33, <1>34, <1>35, <1>36, <1>37,
     <1>38, <1>39, <1>40, <1>41, <1>42, NothingSplit
     DEF Next, App, Tick, Environment

\* On one thread, when the socket takes what it is offered, the broker sends the
\* client nowhere else and a disconnect clears the queue: a connection starts with
\* its CONNECT packet, has no other, and takes over no request from an earlier one
\* (handleSocketConnectEvent and the queue clearing of MqttClientImpl.cpp).
THEOREM ConnectPacketLeads ==
    ASSUME OneThread, ~SendMayFail, "keepQueue" \notin DisconnectArgs,
           "moved" \notin Answers, "disconnectMoved" \notin Answers
    PROVE  Spec => []ConnectLeads
<1>1. Init => Leading
  <2>1. DOMAIN <<>> = {}
    BY EmptySeq, LenProperties
  <2> QED
    BY <2>1, ElementsEmpty DEF Init, NoSocket, Leading, Unsent, Led, Once
<1>2. Typed /\ Turns /\ Flow /\ Leading /\ [Next]_vars => Leading'
  BY LeadingNext
<1>3. Typed /\ Leading => ConnectLeads
  BY SocketSteps, LedLeads DEF Typed, DataTyped, Leading
<1> QED
  BY TypedAlways, TurnsAlways, FlowAlways, <1>1, <1>2, <1>3, PTL DEF Spec

-----------------------------------------------------------------------------
(* Addresses.                                                               *)

\* All the addresses of a list: those used, the one in use, the others.
Whole(a) == a.used \o <<a.primary>> \o a.others

\* Lists of addresses of A, each of them once; as connect() is given them, and as
\* they are used up.
Given1(A) == {c \in [primary : A, others : Seq(A)] : IsInjective(<<c.primary>> \o c.others)}
Used1(A) == {a \in [primary : A, others : Seq(A), used : Seq(A)] : IsInjective(Whole(a))}

\* The first list: nothing is used.
LEMMA ResetOnce ==
    ASSUME NEW A, NEW c \in Given1(A)
    PROVE  Reset(c) \in Used1(A)
<1>1. /\ c.primary \in A /\ c.others \in Seq(A) /\ <<c.primary>> \in Seq(A)
      /\ IsInjective(<<c.primary>> \o c.others)
  BY DEF Given1
<1>2. <<>> \o <<c.primary>> = <<c.primary>>
  BY <1>1, ConcatEmptySeq
<1>3. /\ Reset(c) \in [primary : A, others : Seq(A), used : Seq(A)]
      /\ Reset(c).used = <<>> /\ Reset(c).primary = c.primary /\ Reset(c).others = c.others
  BY <1>1, EmptySeq DEF Reset
<1>4. Whole(Reset(c)) = <<c.primary>> \o c.others
  BY <1>2, <1>3 DEF Whole
<1> QED
  BY <1>1, <1>3, <1>4 DEF Used1

\* The next address in use: the same addresses in the same order.
LEMMA TryCycleOnce ==
    ASSUME NEW A, NEW a \in Used1(A)
    PROVE  TryCycle(a) \in Used1(A)
<1>1. /\ a.primary \in A /\ a.others \in Seq(A) /\ a.used \in Seq(A)
      /\ <<a.primary>> \in Seq(A) /\ IsInjective(Whole(a))
  BY DEF Used1
<1>2. CASE ~AddressLeft(a)
  BY <1>2 DEF TryCycle
<1>3. CASE AddressLeft(a)
  <2> DEFINE h == Head(a.others)
             t == Tail(a.others)
             b == TryCycle(a)
  <2>1. h \in A /\ t \in Seq(A) /\ <<h>> \in Seq(A) /\ a.others = <<h>> \o t
    BY <1>1, <1>3, HeadThenTail DEF AddressLeft
  <2>2. /\ b.primary = h /\ b.others = t /\ b.used = Append(a.used, a.primary)
        /\ Append(a.used, a.primary) = a.used \o <<a.primary>>
        /\ a.used \o <<a.primary>> \in Seq(A)
        /\ b \in [primary : A, others : Seq(A), used : Seq(A)]
    BY <1>1, <1>3, <2>1, AppendIsConcat, AppendProperties DEF TryCycle
  <2> HIDE DEF h, t, b
  <2>3. PICK u \in Seq(A) : u = a.used \o <<a.primary>>
    BY <2>2
  <2>4. (u \o <<h>>) \o t = u \o (<<h>> \o t)
    BY <2>1, ConcatAssociative
  <2>5. Whole(b) = (u \o <<h>>) \o t
    BY <2>2, <2>3 DEF Whole
  <2>6. Whole(a) = u \o (<<h>> \o t)
    BY <2>1, <2>3 DEF Whole
  <2> QED
    BY <1>1, <2>2, <2>4, <2>5, <2>6 DEF Used1, b
<1> QED
  BY <1>2, <1>3

\* One address more, if it is not known.
AddOne(a, address) ==
    IF address \in Known(a) THEN a ELSE [a EXCEPT !.others = Append(@, address)]

\* An address that is not known is another.
LEMMA AddOneOnce ==
    ASSUME NEW A, NEW a \in Used1(A), NEW address \in A
    PROVE  AddOne(a, address) \in Used1(A)
<1>1. /\ a.primary \in A /\ a.others \in Seq(A) /\ a.used \in Seq(A)
      /\ <<a.primary>> \in Seq(A) /\ IsInjective(Whole(a))
  BY DEF Used1
<1>2. CASE address \in Known(a)
  BY <1>2 DEF AddOne
<1>3. CASE address \notin Known(a)
  <2>1. PICK b : b = AddOne(a, address)
    OBVIOUS
  <2>2. Append(a.others, address) \in Seq(A)
    BY <1>1, AppendProperties
  <2>3. /\ b \in [primary : A, others : Seq(A), used : Seq(A)]
        /\ b.primary = a.primary /\ b.used = a.used /\ b.others = Append(a.others, address)
    BY <1>1, <1>3, <2>1, <2>2 DEF AddOne, Used1
  <2>4. PICK u \in Seq(A) : u = a.used \o <<a.primary>>
    BY <1>1, ConcatProperties
  <2>5. PICK w \in Seq(A) : w = u \o a.others
    BY <1>1, ConcatProperties
  <2>6. w = Whole(a)
    BY <2>4, <2>5 DEF Whole
  <2>7. Whole(b) = Append(w, address)
    <3>1. u \o Append(a.others, address) = Append(u \o a.others, address)
      BY <1>1, ConcatAppend
    <3> QED
      BY <2>3, <2>4, <2>5, <3>1 DEF Whole
  <2>8. address \notin ToSet(w)
    <3>1. ToSet(w) = ToSet(u) \union ToSet(a.others)
      BY <1>1, <2>5, ElementsConcat
    <3>2. u = Append(a.used, a.primary)
      BY <1>1, <2>4, AppendIsConcat
    <3>3. ToSet(Append(a.used, a.primary)) = ToSet(a.used) \union {a.primary}
      BY <1>1, ElementsAppend
    <3> QED
      BY <1>3, <3>1, <3>2, <3>3 DEF Known
  <2>9. IsInjective(Append(w, address))
    <3>1. PICK v : v = Append(w, address)
      OBVIOUS
    <3>2. /\ Len(w) \in Nat /\ DOMAIN w = 1 .. Len(w) /\ DOMAIN v = 1 .. Len(w) + 1
          /\ v[Len(w) + 1] = address /\ \A i \in 1 .. Len(w) : v[i] = w[i]
      <4>1. /\ v \in Seq(A) /\ Len(v) = Len(w) + 1
            /\ v[Len(w) + 1] = address /\ \A i \in 1 .. Len(w) : v[i] = w[i]
        BY <3>1, AppendProperties
      <4> QED
        BY <4>1, LenProperties
    <3>3. \A i \in DOMAIN v : (i \in DOMAIN w /\ v[i] = w[i]) \/ (i = Len(w) + 1 /\ v[i] = address)
      BY <3>2
    <3>4. \A i \in DOMAIN w : w[i] # address
      BY <2>8 DEF ToSet
    <3>5. \A i, j \in DOMAIN w : w[i] = w[j] => i = j
      BY <1>1, <2>6 DEF IsInjective
    <3>6. \A i, j \in DOMAIN v : v[i] = v[j] => i = j
      BY <3>3, <3>4, <3>5
    <3> QED
      BY <3>1, <3>6 DEF IsInjective
  <2> QED
    BY <2>1, <2>3, <2>7, <2>9 DEF Used1
<1> QED
  BY <1>2, <1>3

\* The recursion of AddAddresses.
Adds(f, a, s) ==
    f = [i \in 0 .. Len(s) |->
            IF i = 0 THEN a
            ELSE IF s[i] \in Known(f[i - 1]) THEN f[i - 1]
            ELSE [f[i - 1] EXCEPT !.others = Append(@, s[i])]]

\* All the addresses of a redirection.
LEMMA AddAddressesOnce ==
    ASSUME NEW A, NEW a, a \in Used1(A), NEW s, s \in Seq(A)
    PROVE  AddAddresses(a, s) \in Used1(A)
<1> DEFINE n == Len(s)
           S == Used1(A)
           F == [i \in Nat |-> [x \in S |-> IF i \in 1 .. n THEN AddOne(x, s[i]) ELSE x]]
<1>1. n \in Nat /\ \A i \in 1 .. n : s[i] \in A
  BY LenProperties, ElementOfSeq
<1>2. \A i \in 1 .. n : \A x \in S : AddOne(x, s[i]) \in S
  BY <1>1, AddOneOnce
<1>3. \A i \in Nat : \A x \in S : F[i][x] = (IF i \in 1 .. n THEN AddOne(x, s[i]) ELSE x)
  BY Zenon
<1> HIDE DEF S, n
<1>4. F \in [Nat -> [S -> S]]
  BY <1>2
<1>5. \A i \in 1 .. n : \A x \in S : F[i][x] = AddOne(x, s[i])
  BY <1>1, <1>3
<1> HIDE DEF F
<1>6. PICK f \in [0 .. n -> S] : f[0] = a /\ \A i \in 1 .. n : f[i] = F[i][f[i - 1]]
  <2>1. a \in S
    BY DEF S
  <2>2. n \in Nat
    BY <1>1
  <2> QED
    BY ONLY <1>4, <2>1, <2>2, FunctionByRecursion
<1>7. \A i \in 0 .. n : f[i] = IF i = 0 THEN a ELSE AddOne(f[i - 1], s[i])
  BY <1>1, <1>5, <1>6
<1>8. Adds(f, a, s)
  BY <1>6, <1>7 DEF Adds, AddOne, n
<1> DEFINE g == CHOOSE h : Adds(h, a, s)
<1>9. Adds(g, a, s)
  BY <1>8
<1>10. AddAddresses(a, s) = g[n]
  BY DEF AddAddresses, Adds, n
<1> HIDE DEF g
<1>11. \A i \in 0 .. n : g[i] = IF i = 0 THEN a ELSE AddOne(g[i - 1], s[i])
  <2> DEFINE h == [i \in 0 .. n |-> IF i = 0 THEN a ELSE AddOne(g[i - 1], s[i])]
  <2>1. \A i \in 0 .. n : h[i] = IF i = 0 THEN a ELSE AddOne(g[i - 1], s[i])
    OBVIOUS
  <2>2. g = h
    BY <1>9 DEF Adds, AddOne, n
  <2> HIDE DEF h
  <2> QED
    BY <2>1, <2>2
<1> DEFINE T == {i \in Nat : i \in 0 .. n => g[i] \in S}
<1>12. T = Nat
  <2>1. 0 \in T
    BY <1>1, <1>11 DEF S
  <2>2. ASSUME NEW i \in T PROVE i + 1 \in T
    <3>1. SUFFICES ASSUME i + 1 \in 0 .. n PROVE g[i + 1] \in S
      OBVIOUS
    <3>2. i + 1 \in 1 .. n /\ i + 1 # 0 /\ i + 1 - 1 = i /\ i \in 0 .. n
      BY <1>1, <3>1
    <3>3. g[i + 1] = AddOne(g[i], s[i + 1])
      BY <1>11, <3>1, <3>2
    <3> QED
      BY <1>2, <3>2, <3>3
  <2> HIDE DEF T
  <2>3. T \in SUBSET Nat
    BY DEF T
  <2> QED
    BY ONLY <2>1, <2>2, <2>3, Induction
<1>13. n \in T /\ n \in 0 .. n
  BY <1>1, <1>12
<1> QED
  BY <1>10, <1>13 DEF S

\* What the client keeps of a connection; a packet that sends it away names where.
Info(A) == [connectionStartTime : {"running", "expired"}, connectAddress : Given1(A),
            reconnectAddress : Used1(A), server : A, contacted : Seq(A),
            hasBeenConnected : BOOLEAN, hasSession : BOOLEAN]
Pointing == {p \in Received : p.kind \in {"moved", "disconnectMoved"}
                                  => p.redirection \in Redirections}

Addressed(A) ==
    /\ m_connectionInfo \in Info(A)
    /\ m_receiveQueue \in Seq(Pointing)
    /\ callback = "received" => arriving \in Pointing
    /\ tick \in HandlingPhases => handling \in Pointing

\* The addresses are of A, and nobody is sent away for good.
AddressesOf(A) ==
    /\ Null \in A /\ Given \in Given1(A)
    /\ \A r \in Redirections : ~r.permanent /\ r.reference \in Seq(A)

\* Before the first connect().
LEMMA NewInfoTyped ==
    ASSUME NEW A, AddressesOf(A)
    PROVE  NewInfo \in Info(A)
<1>1. NoAddress \in Given1(A)
  <2>1. <<Null>> \o <<>> = <<Null>> /\ <<Null>> \in Seq(A)
    BY ConcatEmptySeq DEF AddressesOf
  <2>2. IsInjective(<<Null>>)
    BY DEF IsInjective
  <2>3. NoAddress \in [primary : A, others : Seq(A)]
    BY EmptySeq DEF NoAddress, AddressesOf
  <2> QED
    BY <2>1, <2>2, <2>3 DEF Given1, NoAddress
<1>2. Reset(NoAddress) \in Used1(A)
  BY <1>1, ResetOnce
<1> QED
  BY <1>1, <1>2, EmptySeq DEF Info, NewInfo, AddressesOf

\* What the handlers make of what is kept of a connection.
LEMMA InfoSteps ==
    ASSUME NEW A, AddressesOf(A), m_connectionInfo \in Info(A)
    PROVE  /\ NewInfo \in Info(A) /\ ClearedInfo \in Info(A) /\ AcceptedInfo \in Info(A)
           /\ [m_connectionInfo EXCEPT !.connectAddress = Given, !.reconnectAddress = Reset(Given),
                                       !.server = Null, !.contacted = <<Given.primary>>]
                 \in Info(A)
           /\ \A t \in {"running", "expired"} :
                 [m_connectionInfo EXCEPT !.connectionStartTime = t] \in Info(A)
           /\ [m_connectionInfo EXCEPT !.hasBeenConnected = FALSE] \in Info(A)
           /\ [m_connectionInfo EXCEPT !.reconnectAddress = TryCycle(@)] \in Info(A)
           /\ \A r \in Redirections : RedirectedInfo(r) \in Info(A)
           /\ \A i \in Info(A) : Reconnect(i) => m_connectionInfo' \in Info(A)
<1>1. /\ m_connectionInfo.connectAddress \in Given1(A)
      /\ m_connectionInfo.reconnectAddress \in Used1(A)
      /\ m_connectionInfo.contacted \in Seq(A) /\ m_connectionInfo.server \in A
      /\ m_connectionInfo.hasSession \in BOOLEAN
  BY DEF Info
<1>2. \A a \in Used1(A) : [m_connectionInfo EXCEPT !.reconnectAddress = a] \in Info(A)
  BY DEF Info
<1>3. NewInfo \in Info(A) /\ ClearedInfo \in Info(A)
  BY <1>1, NewInfoTyped DEF Info, ClearedInfo
<1>4. AcceptedInfo \in Info(A)
  <2>1. Reset(m_connectionInfo.connectAddress) \in Used1(A)
    BY <1>1, ResetOnce
  <2>2. PICK server : server = LastContacted
    OBVIOUS
  <2>3. server \in A
    <3>1. CASE m_connectionInfo.contacted = <<>>
      BY <1>1, <2>2, <3>1 DEF LastContacted
    <3>2. CASE m_connectionInfo.contacted # <<>>
      <4>1. Len(m_connectionInfo.contacted) \in 1 .. Len(m_connectionInfo.contacted)
        BY <1>1, <3>2, LenProperties, EmptySeq
      <4>2. Last(m_connectionInfo.contacted) \in A
        BY <1>1, <4>1, ElementOfSeq DEF Last
      <4> QED
        BY <2>2, <3>2, <4>2 DEF LastContacted
    <3> QED
      BY <3>1, <3>2
  <2>4. AcceptedInfo = [m_connectionInfo EXCEPT
                          !.hasBeenConnected = TRUE, !.hasSession = TRUE,
                          !.server = server, !.contacted = <<>>,
                          !.reconnectAddress = Reset(m_connectionInfo.connectAddress)]
    BY <2>2, Zenon DEF AcceptedInfo
  <2> QED
    BY <2>1, <2>3, <2>4, EmptySeq DEF Info
<1>5. [m_connectionInfo EXCEPT !.connectAddress = Given, !.reconnectAddress = Reset(Given),
                               !.server = Null, !.contacted = <<Given.primary>>] \in Info(A)
  <2>1. Reset(Given) \in Used1(A) /\ Given \in Given1(A) /\ Null \in A
    BY ResetOnce DEF AddressesOf
  <2>2. <<Given.primary>> \in Seq(A)
    BY <2>1 DEF Given1
  <2> QED
    BY <2>1, <2>2 DEF Info
<1>6. /\ \A t \in {"running", "expired"} :
            [m_connectionInfo EXCEPT !.connectionStartTime = t] \in Info(A)
      /\ [m_connectionInfo EXCEPT !.hasBeenConnected = FALSE] \in Info(A)
  BY DEF Info
<1>7. [m_connectionInfo EXCEPT !.reconnectAddress = TryCycle(@)] \in Info(A)
  BY <1>1, <1>2, TryCycleOnce
<1>8. ASSUME NEW r \in Redirections
      PROVE  RedirectedInfo(r) \in Info(A)
  <2>1. ~r.permanent /\ r.reference \in Seq(A)
    BY DEF AddressesOf
  <2>2. PICK a \in Used1(A) :
            a = TryCycle(AddAddresses(m_connectionInfo.reconnectAddress, r.reference))
    BY <1>1, <2>1, AddAddressesOnce, TryCycleOnce
  <2>3. RedirectedInfo(r) = [m_connectionInfo EXCEPT !.reconnectAddress = a]
    BY <2>1, <2>2, Zenon DEF RedirectedInfo
  <2> QED
    BY <1>2, <2>3
<1>9. ASSUME NEW i \in Info(A), Reconnect(i)
      PROVE  m_connectionInfo' \in Info(A)
  <2>1. PICK p : p = i.reconnectAddress.primary
    OBVIOUS
  <2>2. p \in A /\ i.contacted \in Seq(A)
    BY <2>1 DEF Info, Used1
  <2>3. PICK s \in Seq(A) : s = Append(i.contacted, p)
    BY <2>2, AppendProperties
  <2>4. m_connectionInfo' = [i EXCEPT !.connectionStartTime = "running", !.contacted = s]
    BY <1>9, <2>1, <2>3, Zenon DEF Reconnect
  <2> QED
    BY <2>4 DEF Info
<1> QED
  BY <1>3, <1>4, <1>5, <1>6, <1>7, <1>8, <1>9

\* What the client keeps of a connection stays what it is.
LEMMA AddressedNext ==
    ASSUME NEW A, AddressesOf(A), Typed, Addressed(A), [Next]_vars
    PROVE  Addressed(A)'
<1> USE DEF clientVars, queueVars, eventVars, tickVars, callerVars, callbackVars
<1>0. /\ m_connectionInfo \in Info(A) /\ <<>> \in Seq(Pointing)
      /\ tick \in Phases /\ resume \in Resumed
  BY EmptySeq DEF Addressed, Typed, ThreadsTyped
<1>1. CASE ConnectBegins
  BY <1>1, <1>0, InfoSteps DEF ConnectBegins, AppMayCall, ReceiveQueueAtConnect, Addressed
<1>2. CASE ConnectEnds
  BY <1>2, <1>0, InfoSteps DEF ConnectEnds, SocketRefuses, Addressed
<1>3. CASE RequestBegins
  BY <1>3, <1>0 DEF RequestBegins, AppMayCall, Addressed
<1>4. CASE RequestEnds
  BY <1>4, <1>0 DEF RequestEnds, Addressed
<1>5. CASE GracefulDisconnect
  BY <1>5, <1>0 DEF GracefulDisconnect, AppMayCall, Addressed
<1>6. CASE DisconnectBegins
  BY <1>6, <1>0 DEF DisconnectBegins, AppMayCall, HardDisconnectBegins, Addressed
<1>7. CASE DisconnectEnds
  BY <1>7, <1>0, InfoSteps DEF DisconnectEnds, HardDisconnectEnds, ClearState, Addressed
<1>8. CASE Shutdown
  BY <1>8, <1>0, InfoSteps
     DEF Shutdown, AppMayCall, ShutdownCleanup, CleanupBegins, ClearState, Addressed
<1>9. CASE ShutdownJoins
  BY <1>9, <1>0 DEF ShutdownJoins, Addressed
<1>10. CASE CheckTimeOut
  BY <1>10, <1>0 DEF CheckTimeOut, TickMayBegin, Addressed, Resumed, HandlingPhases
<1>11. CASE TimeOutConnect
  BY <1>11, <1>0 DEF TimeOutConnect, GoTo, StatusAfterTimeOut, Addressed, HandlingPhases
<1>12. CASE TimeOutConnectCloses
  BY <1>12, <1>0, InfoSteps
     DEF TimeOutConnectCloses, Return, Addressed, Resumed, HandlingPhases
<1>13. CASE TimeOutReconnect
  BY <1>13, <1>0, InfoSteps
     DEF TimeOutReconnect, FailReconnect, GoTo, Return, Addressed, Resumed, HandlingPhases
<1>14. CASE ReportLost
  BY <1>14, <1>0 DEF ReportLost, Return, Addressed, Resumed, HandlingPhases
<1>15. CASE TickReconnects
  BY <1>15, <1>0, InfoSteps
     DEF TickReconnects, Return, Reconnect, SocketRefuses, Addressed, Resumed,
         HandlingPhases
<1>16. CASE Proceed
  BY <1>16, <1>0 DEF Proceed, GoTo, Addressed, HandlingPhases
<1>17. CASE SendPackets
  BY <1>17, <1>0 DEF SendPackets, GoTo, Addressed, Resumed, HandlingPhases
<1>18. CASE DisconnectSent
  BY <1>18, <1>0, InfoSteps
     DEF DisconnectSent, GoTo, ClearState, Addressed, HandlingPhases
<1>19. CASE TickDisconnects
  BY <1>19, <1>0
     DEF TickDisconnects, Return, HardDisconnectBegins, GoTo, Addressed, Resumed,
         HandlingPhases
<1>20. CASE TickDisconnected
  BY <1>20, <1>0, InfoSteps
     DEF TickDisconnected, HardDisconnectEnds, Return, ClearState, Addressed, Resumed,
         HandlingPhases
<1>21. CASE TakePacket
  <2>1. /\ Head(m_receiveQueue) \in Pointing /\ Tail(m_receiveQueue) \in Seq(Pointing)
    BY <1>21, HeadThenTail DEF TakePacket, Addressed
  <2> QED
    BY <1>21, <2>1 DEF TakePacket, Addressed
<1>22. CASE NoMorePackets
  BY <1>22, <1>0 DEF NoMorePackets, GoTo, Addressed, HandlingPhases
<1>23. CASE CheckKeepAlive
  BY <1>23, <1>0 DEF CheckKeepAlive, Addressed, Resumed, HandlingPhases
<1>24. CASE TickSocket
  BY <1>24, <1>0 DEF TickSocket, GoTo, Addressed, HandlingPhases
<1>25. CASE InvokeEvents
  BY <1>25, <1>0 DEF InvokeEvents, GoTo, Addressed, HandlingPhases
<1>26. CASE TickStops
  BY <1>26, <1>0, InfoSteps
     DEF TickStops, ShutdownCleanup, CleanupBegins, GoTo, ClearState, Addressed,
         HandlingPhases
<1>27. CASE ConnectAccepted
  BY <1>27, <1>0, InfoSteps
     DEF ConnectAccepted, Handling, GoTo, Return, Addressed, Resumed, HandlingPhases
<1>28. CASE ConnectRefused
  BY <1>28, <1>0, InfoSteps
     DEF ConnectRefused, Handling, GoTo, FailReconnect, Return, Addressed, Resumed,
         HandlingPhases
<1>29. CASE RefuseConnect
  BY <1>29, <1>0 DEF RefuseConnect, GoTo, Addressed, HandlingPhases
<1>30. CASE RefuseConnectCloses
  <2>1. tick = "refuseCloses" /\ handling \in Pointing
    BY <1>30 DEF RefuseConnectCloses, Addressed, HandlingPhases
  <2>2. handling.kind = "moved" => RedirectedInfo(handling.redirection) \in Info(A)
    BY <1>0, <2>1, InfoSteps DEF Pointing
  <2> QED
    BY <1>30, <1>0, <2>1, <2>2, InfoSteps
       DEF RefuseConnectCloses, GoTo, Return, Addressed, Resumed, HandlingPhases
<1>31. CASE ConnAckResumes
  BY <1>31, <1>0 DEF ConnAckResumes, Return, Addressed, Resumed, HandlingPhases
<1>32. CASE DisconnectReceived
  <2>1. tick = "handle" /\ handling \in Pointing
    BY <1>32 DEF DisconnectReceived, Handling, Addressed, HandlingPhases
  <2>2. handling.kind = "disconnectMoved" => RedirectedInfo(handling.redirection) \in Info(A)
    BY <1>0, <2>1, InfoSteps DEF Pointing
  <2>3. \A i \in Info(A) : Reconnect(i) => m_connectionInfo' \in Info(A) /\ m_receiveQueue' = <<>>
    BY <1>0, InfoSteps DEF Reconnect
  <2> QED
    BY <1>32, <1>0, <2>2, <2>3, InfoSteps
       DEF DisconnectReceived, Handling, Return, ClearState, Addressed, Resumed,
           HandlingPhases
<1>33. CASE DecodeFails
  <2>1. PICK k \in 0 .. Len(m_receiveQueue) :
            m_receiveQueue' = SubSeq(m_receiveQueue, k + 1, Len(m_receiveQueue))
    BY <1>33 DEF DecodeFails
  <2>2. m_receiveQueue' \in Seq(Pointing)
    BY <2>1, SubSeqProperties DEF Addressed
  <2> QED
    BY <1>33, <1>0, <2>2 DEF DecodeFails, Addressed, HandlingPhases
<1>34. CASE SocketOpens
  BY <1>34, <1>0 DEF SocketOpens, SocketTurn, GoTo, Addressed, HandlingPhases
<1>35. CASE SocketFails
  BY <1>35, <1>0
     DEF SocketFails, SocketTurn, GoTo, ConnectCallbackFails, Addressed, HandlingPhases
<1>36. CASE SocketErrs
  BY <1>36, <1>0, InfoSteps
     DEF SocketErrs, SocketTurn, GoTo, ShutdownCleanup, CleanupBegins,
         ConnectCallbackFails, ClearState,
         Addressed, HandlingPhases
<1>37. CASE ErrorReports
  BY <1>37, <1>0 DEF ErrorReports, ConnectCallbackFails, Addressed
<1>38. CASE SocketCloses
  BY <1>38, <1>0 DEF SocketCloses, Addressed
<1>39. CASE SocketClosed
  BY <1>39, <1>0, InfoSteps DEF SocketClosed, ClearState, Addressed
<1>40. CASE BrokerSends
  <2>1. PICK kind \in Answers, r \in Redirections \union {Null} :
            /\ kind \in {"moved", "disconnectMoved"} => r \in Redirections
            /\ Receives([kind |-> kind, redirection |-> r, serial |-> m_socket.serial])
    BY <1>40 DEF BrokerSends
  <2>2. [kind |-> kind, redirection |-> r, serial |-> m_socket.serial] \in Received
    BY SocketSteps DEF Typed, DataTyped, Received
  <2>3. [kind |-> kind, redirection |-> r, serial |-> m_socket.serial] \in Pointing
    BY <2>1, <2>2 DEF Pointing
  <2>4. m_receiveQueue' \in Seq(Pointing) /\ (callback' = "received" => arriving' \in Pointing)
    BY <2>1, <2>3, AppendProperties DEF Receives, Addressed
  <2> QED
    BY <1>40, <2>4 DEF BrokerSends, SocketTurn, GoTo, Addressed, HandlingPhases
<1>41. CASE TimePasses
  BY <1>41, <1>0, InfoSteps DEF TimePasses, Addressed
<1>42. CASE AppCleansUp
  BY <1>42, <1>0, InfoSteps DEF AppCleansUp, CleanupGoesOn, ClearState, Addressed
<1>43. CASE TickCleansUp
  BY <1>43, <1>0, InfoSteps
     DEF TickCleansUp, CleanupGoesOn, ClearState, Addressed, HandlingPhases
<1>44. CASE CallbackCleansUp
  BY <1>44, <1>0, InfoSteps DEF CallbackCleansUp, CleanupGoesOn, ClearState, Addressed
<1>45. CASE ConnectQueued
  BY <1>45, <1>0 DEF ConnectQueued, Addressed
<1>46. CASE PacketQueued
  BY <1>46, <1>0, AppendProperties DEF PacketQueued, Addressed
<1>47. CASE UNCHANGED vars
  BY <1>47 DEF vars, Addressed, Resumed, HandlingPhases
<1> QED
  BY <1>1, <1>2, <1>3, <1>4, <1>5, <1>6, <1>7, <1>8, <1>9, <1>10, <1>11, <1>12, <1>13,
     <1>14, <1>15, <1>16, <1>17, <1>18, <1>19, <1>20, <1>21, <1>22, <1>23, <1>24, <1>25,
     <1>26, <1>27, <1>28, <1>29, <1>30, <1>31, <1>32, <1>33, <1>34, <1>35, <1>36, <1>37,
     <1>38, <1>39, <1>40, <1>41, <1>42, <1>43, <1>44, <1>45, <1>46, <1>47
     DEF Next, App, Tick, Environment

\* The types of the state, and that no address is twice among those the client
\* goes through: tryCycleToNextPrimaryAddress, addAddresses and reset
\* (Params/ConnectAddress.h) move addresses and never add one that is known, as
\* long as the broker sends nobody away for good, which puts the new server in
\* the place of the one in use without asking whether it is known.
THEOREM TypeCorrect ==
    ASSUME NEW A, AddressesOf(A)
    PROVE  Spec => []TypeOK
<1>1. Init => Addressed(A)
  BY NewInfoTyped, EmptySeq DEF Init, Addressed, HandlingPhases
<1>2. Typed /\ Addressed(A) /\ [Next]_vars => Addressed(A)'
  BY AddressedNext
<1>3. ASSUME Typed, Addressed(A)
      PROVE  TypeOK
  <2>1. /\ m_socket.state \in States /\ m_socket.wire \in Seq(Packets)
        /\ m_sendQueue.composers \in Seq(Packets) /\ m_sendQueue.buffer \in Seq(Packets)
    BY <1>3, SocketSteps, QueueSteps DEF Typed, DataTyped
  <2>2. m_sendQueue.composers \o m_sendQueue.buffer \o m_socket.wire \in Seq(Packets)
    <3>1. m_sendQueue.composers \o m_sendQueue.buffer \in Seq(Packets)
      BY <2>1, ConcatProperties
    <3> QED
      BY <2>1, <3>1, ConcatProperties
  <2>3. reports \o m_eventDeferrer \in Seq(Event)
    BY <1>3, ConcatProperties DEF Typed, DataTyped
  <2>4. \A S : \A s \in Seq(S) : ToSet(s) \subseteq S
    BY ElementOfSeq, LenProperties DEF ToSet
  <2>5. /\ ToSet(m_sendQueue.composers \o m_sendQueue.buffer \o m_socket.wire) \subseteq Packets
        /\ ToSet(reports \o m_eventDeferrer) \subseteq [attempt : 0 .. MaxConnects, kind : Events]
    BY <2>2, <2>3, <2>4 DEF Event
  <2>6. m_connectionInfo.reconnectAddress \in Used1(A)
    BY <1>3 DEF Addressed, Info
  <2>7. \A a \in {m_connectionInfo.reconnectAddress} :
            IsInjective(a.used \o <<a.primary>> \o a.others)
    BY <2>6 DEF Used1, Whole
  <2>8. resume \in Phases
    BY <1>3 DEF Typed, ThreadsTyped, Resumed, Phases
  <2> QED
    BY <1>3, <2>1, <2>5, <2>7, <2>8 DEF TypeOK, Typed, ThreadsTyped, DataTyped, States
<1> QED
  BY TypedAlways, <1>1, <1>2, <1>3, PTL DEF Spec
=============================================================================
