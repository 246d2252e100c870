------------------------------ MODULE Connection ------------------------------
(***************************************************************************)
(* The life cycle of a connection (Mqtt/MqttClientImpl.cpp).               *)
(*                                                                         *)
(* Three threads act on one MqttClientImpl: the application's, the one     *)
(* that ticks (the application's own in SYNC mode) and the socket's (the   *)
(* ticking one when the socket calls back from its tick()).  Some handlers *)
(* hold m_mutex and some do not: a handler is one action while nothing     *)
(* can come between its steps, and is split where something can.           *)
(*                                                                         *)
(* The socket is any IWebSocket and the broker is anything that answers a  *)
(* CONNECT packet.  Of a packet only its kind is kept, and where it sends  *)
(* the client; of time only whether the connect time-out has passed.       *)
(***************************************************************************)
EXTENDS Integers, Sequences, SequencesExt, FiniteSets, ReconnectAddress

CONSTANTS
    TickModes,          \* "SYNC", where the application makes the ticks, or "ASYNC"
    SocketThread,       \* the socket calls back from a thread of its own
    ErrorCallback,      \* a failed connect calls the error callback first,
                        \* as DefaultWebsocket does
    ConnectMayFail,     \* the socket's connect() may return false
    SendMayFail,        \* the socket may refuse the bytes it is offered
    Answers,            \* what the broker may send
    DisconnectArgs,     \* how the application may disconnect: graceful, hard (with
                        \* or without clearing the queue) or by shutdown
    Given,              \* the addresses connect() is given: primary and others
    Redirections,       \* where the broker may send the client: whether for good, and
                        \* the addresses it names, if any
    MaxConnects,        \* bound: accepted connect() calls
    MaxSockets,         \* bound: sockets opened when the broker redirects
    MaxRequests,        \* bound: publish, subscribe and unsubscribe calls
    Null

ASSUME ConnectionAssumption ==
    /\ TickModes \subseteq {"SYNC", "ASYNC"}
    /\ {SocketThread, ErrorCallback, ConnectMayFail, SendMayFail} \subseteq BOOLEAN
    /\ Answers \subseteq {"accepted", "present", "refused", "moved", "disconnect",
                          "disconnectMoved", "malformed"}
    /\ DisconnectArgs \subseteq {"graceful", "hard", "keepQueue", "shutdown"}
    /\ ErrorCallback => SocketThread
    /\ \A r \in Redirections : r.permanent => r.reference # <<>>
    /\ {MaxConnects, MaxSockets, MaxRequests} \subseteq Nat

VARIABLES
    m_connectionStatus,
    m_connectionInfo,   \* connectionStartTime (running or expired), connectAddress,
                        \* reconnectAddress, hasBeenConnected, whether there is a
                        \* session state from before; history: the server that last
                        \* accepted the client, the addresses contacted since
    m_socket,           \* state, a serial number, the packets it took, the answer
    onDisconnect,       \* the socket's disconnect callback is set
    m_sendQueue,        \* composers, composed bytes not taken yet, m_startGracefulClear
    m_receiveQueue,     \* packets received: kind, redirection, socket it came over
    m_mutex,            \* "free" or the thread that holds it
    m_eventDeferrer,    \* events waiting for the end of the tick (SYNC)
    tickMode,           \* of the options the client was made with
    m_isRunningAsync,
    app,                \* where the application's call is
    tick, resume,       \* where the tick is, and the phase it goes on with
    handling,           \* the received packet being handled
    callback,           \* where the socket's callback is
    arriving            \* the packet the socket's callback is about to queue

\* History: accepted connect() calls; the events reported, in order, with their calls;
\* the calls after which the application asked to disconnect, and those after which
\* its shutdown() was done; whether the application still hears events; publish,
\* subscribe and unsubscribe calls made.
VARIABLES attempts, reports, givenUp, stopped, listening, requests

clientVars == <<m_connectionStatus, m_connectionInfo, onDisconnect>>
queueVars == <<m_sendQueue, m_receiveQueue>>
eventVars == <<m_eventDeferrer, reports>>
tickVars == <<tick, resume, handling>>
callerVars == <<app, attempts, givenUp, stopped, listening, requests, tickMode,
                m_isRunningAsync>>
callbackVars == <<callback, arriving>>
vars == <<clientVars, m_socket, queueVars, m_mutex, eventVars, tickVars, callerVars,
          callbackVars>>

\* Ticks and events do not wait for the application.
Async == tickMode = "ASYNC"

NoAddress == [primary |-> Null, others |-> <<>>]
NewInfo == [connectionStartTime |-> "expired", connectAddress |-> NoAddress,
            reconnectAddress |-> Reset(NoAddress), server |-> Null, contacted |-> <<>>,
            hasBeenConnected |-> FALSE, hasSession |-> FALSE]
NoSocket == [state |-> "closed", serial |-> 0, wire |-> <<>>, answer |-> "none"]

Init ==
    /\ m_connectionStatus = "DISCONNECTED"
    /\ m_connectionInfo = NewInfo
    /\ m_socket = NoSocket /\ onDisconnect = TRUE
    /\ m_sendQueue = [composers |-> <<>>, buffer |-> <<>>, gracefulClear |-> FALSE]
    /\ m_receiveQueue = <<>>
    /\ m_mutex = "free"
    /\ m_eventDeferrer = <<>>
    /\ tickMode \in TickModes
    /\ m_isRunningAsync = Async
    /\ app = "idle" /\ tick = "idle" /\ resume = "idle" /\ handling = Null
    /\ callback = "none" /\ arriving = Null
    /\ attempts = 0 /\ reports = <<>>
    /\ givenUp = {} /\ stopped = {} /\ listening = TRUE /\ requests = 0

-----------------------------------------------------------------------------
(* Steps that the handlers share.                                           *)

\* In SYNC mode an event waits for the end of the tick, in ASYNC mode it is
\* delivered at once.
Deliver(e) == IF listening THEN Append(reports, e) ELSE reports

Dispatch(kind) ==
    LET e == [attempt |-> attempts, kind |-> kind]
    IN  IF Async THEN reports' = Deliver(e) /\ UNCHANGED m_eventDeferrer
                 ELSE m_eventDeferrer' = Append(m_eventDeferrer, e) /\ UNCHANGED reports

\* Mutants: the socket is left open; the composers stay in the queue.
CloseSocketForgotten == UNCHANGED m_socket
ClearSendQueueForgotten == UNCHANGED m_sendQueue

CloseSocket == m_socket' = [m_socket EXCEPT !.state = "closed"]
OpenSocket == m_socket' = [NoSocket EXCEPT !.state = "opening", !.serial = m_socket.serial + 1]
SocketRefuses == ConnectMayFail /\ UNCHANGED m_socket

ClearSendQueue == m_sendQueue' = [m_sendQueue EXCEPT !.composers = <<>>]
AddToQueue(packet) == m_sendQueue' = [m_sendQueue EXCEPT !.composers = Append(@, packet)]

\* The session state outlives the connection.
ClearedInfo == [NewInfo EXCEPT !.hasSession = m_connectionInfo.hasSession]
ClearState == m_connectionInfo' = ClearedInfo

\* reconnect().  Whether the socket takes the call is not looked at.
Reconnect(info) ==
    /\ m_connectionStatus' = "RECONNECTING"
    /\ Dispatch("reconnecting")
    /\ m_receiveQueue' = <<>>
    /\ m_connectionInfo' = [info EXCEPT !.connectionStartTime = "running",
                                        !.contacted = Append(@, info.reconnectAddress.primary)]

\* shutdownCleanup reports the end and removes the listeners; then it closes the
\* socket and clears the queues.
CleanupBegins ==
    /\ m_connectionStatus' = "DISCONNECTED"
    /\ reports' = Deliver([attempt |-> attempts, kind |-> "disconnected"])
    /\ m_eventDeferrer' = <<>>
    /\ listening' = FALSE

ShutdownCleanup ==
    /\ CleanupBegins
    /\ CloseSocket
    /\ ClearSendQueue /\ m_receiveQueue' = <<>>
    /\ ClearState

\* It takes no mutex: other threads come in between its steps.
CleanupSteps == {"closes", "clears", "ends"}

CleanupGoesOn(step, next, done) ==
    \/ /\ step = "closes" /\ next = "clears"
       /\ CloseSocket
       /\ UNCHANGED <<m_connectionInfo, queueVars>>
    \/ /\ step = "clears" /\ next = "ends"
       /\ ClearSendQueue
       /\ UNCHANGED <<m_connectionInfo, m_socket, m_receiveQueue>>
    \/ /\ step = "ends" /\ next = done
       /\ m_receiveQueue' = <<>>
       /\ ClearState
       /\ UNCHANGED <<m_socket, m_sendQueue>>

-----------------------------------------------------------------------------
(* The application's calls.  In SYNC mode it calls between ticks.           *)

AppMayCall == app = "idle" /\ (Async \/ tick = "idle")

\* Mutant: what was received for an earlier connection is kept.
ReceiveQueueKept == m_receiveQueue

ReceiveQueueAtConnect == <<>>

ConnectBegins ==
    /\ AppMayCall /\ m_mutex = "free"
    /\ m_connectionStatus \in {"DISCONNECTED", "RECONNECTING"}
    /\ attempts < MaxConnects
    /\ m_receiveQueue' = ReceiveQueueAtConnect
    /\ m_connectionStatus' = "CONNECTING"
    /\ m_connectionInfo' = [m_connectionInfo EXCEPT !.connectAddress = Given,
                                                    !.reconnectAddress = Reset(Given),
                                                    !.server = Null,
                                                    !.contacted = <<Given.primary>>]
    /\ attempts' = attempts + 1
    /\ m_mutex' = "app" /\ app' = "connect"
    /\ UNCHANGED <<onDisconnect, m_socket, m_sendQueue, eventVars, tickVars, givenUp,
                   stopped, listening, requests, tickMode, m_isRunningAsync, callbackVars>>

\* A failure is reported by the result of connect() itself.
ConnectEnds ==
    /\ app = "connect"
    /\ \/ /\ OpenSocket
          /\ m_connectionInfo' = [m_connectionInfo EXCEPT !.connectionStartTime = "running"]
          /\ UNCHANGED <<m_connectionStatus, givenUp>>
       \/ /\ SocketRefuses
          /\ m_connectionStatus' = "DISCONNECTED"
          /\ givenUp' = givenUp \union {attempts}
          /\ UNCHANGED m_connectionInfo
    /\ m_mutex' = "free" /\ app' = "idle"
    /\ UNCHANGED <<onDisconnect, queueVars, eventVars, tickVars, attempts, stopped, listening,
                   requests, tickMode, m_isRunningAsync, callbackVars>>

\* publish, subscribe and unSubscribe look at the status without the mutex.
RequestBegins ==
    /\ AppMayCall /\ requests < MaxRequests
    /\ m_connectionStatus = "CONNECTED"
    /\ requests' = requests + 1
    /\ app' = "request"
    /\ UNCHANGED <<clientVars, m_socket, queueVars, m_mutex, eventVars, tickVars, attempts,
                   givenUp, stopped, listening, tickMode, m_isRunningAsync, callbackVars>>

RequestEnds ==
    /\ app = "request"
    /\ AddToQueue("REQUEST")
    /\ app' = "idle"
    /\ UNCHANGED <<clientVars, m_socket, m_receiveQueue, m_mutex, eventVars, tickVars,
                   attempts, givenUp, stopped, listening, requests, tickMode, m_isRunningAsync,
                   callbackVars>>

GracefulDisconnect ==
    /\ AppMayCall /\ m_mutex = "free" /\ "graceful" \in DisconnectArgs
    /\ m_connectionStatus # "DISCONNECTED" /\ attempts \notin givenUp
    /\ AddToQueue("DISCONNECT")
    /\ givenUp' = givenUp \union {attempts}
    /\ UNCHANGED <<clientVars, m_socket, m_receiveQueue, m_mutex, eventVars, tickVars, app,
                   attempts, stopped, listening, requests, tickMode, m_isRunningAsync,
                   callbackVars>>

\* handleInternalDisconnect when it is not graceful: the DISCONNECT packet goes
\* straight to the socket; then, still under the mutex, the connection ends.
HardDisconnectBegins(thread, clearQueue) ==
    /\ m_mutex = "free" /\ m_connectionStatus # "DISCONNECTED"
    /\ m_mutex' = thread
    /\ m_socket' = IF m_socket.state = "open"
                   THEN [m_socket EXCEPT !.wire = Append(@, "DISCONNECT")] ELSE m_socket
    /\ IF clearQueue THEN ClearSendQueue ELSE UNCHANGED m_sendQueue
    /\ UNCHANGED <<clientVars, m_receiveQueue, eventVars, attempts, stopped, listening,
                   requests, tickMode, m_isRunningAsync, callbackVars>>

HardDisconnectEnds(thread) ==
    /\ m_mutex = thread
    /\ m_mutex' = "free"
    /\ m_connectionStatus' = "DISCONNECTED"
    /\ onDisconnect' = FALSE
    /\ CloseSocket /\ ClearState
    /\ Dispatch("disconnected")
    /\ UNCHANGED <<queueVars, attempts, givenUp, stopped, listening, requests,
                   tickMode, m_isRunningAsync, callbackVars>>

DisconnectBegins ==
    /\ AppMayCall
    /\ \/ "hard" \in DisconnectArgs /\ HardDisconnectBegins("app", TRUE)
       \/ "keepQueue" \in DisconnectArgs /\ HardDisconnectBegins("app", FALSE)
    /\ app' = "disconnect" /\ givenUp' = givenUp \union {attempts}
    /\ UNCHANGED tickVars

DisconnectEnds ==
    /\ app = "disconnect"
    /\ HardDisconnectEnds("app")
    /\ app' = "idle"
    /\ UNCHANGED tickVars

\* shutdown(): in ASYNC mode the tick thread is told to stop and waited for, unless
\* somebody has told it before, who may still be waiting.
Shutdown ==
    /\ AppMayCall /\ "shutdown" \in DisconnectArgs
    /\ givenUp' = givenUp \union {attempts}
    /\ \/ /\ ~Async /\ m_connectionStatus # "DISCONNECTED" /\ ~SocketThread
          /\ ShutdownCleanup
          /\ stopped' = stopped \union {attempts}
          /\ UNCHANGED <<onDisconnect, app, m_isRunningAsync>>
       \/ /\ ~Async /\ m_connectionStatus # "DISCONNECTED" /\ SocketThread
          /\ CleanupBegins
          /\ app' = "closes"
          /\ UNCHANGED <<m_connectionInfo, onDisconnect, m_socket, queueVars, stopped,
                         m_isRunningAsync>>
       \/ /\ Async /\ m_isRunningAsync
          /\ m_isRunningAsync' = FALSE /\ app' = "joining"
          /\ UNCHANGED <<clientVars, m_socket, queueVars, eventVars, stopped, listening>>
       \/ /\ Async /\ ~m_isRunningAsync
          /\ UNCHANGED <<clientVars, m_socket, queueVars, eventVars, app, stopped, listening,
                         m_isRunningAsync>>
    /\ UNCHANGED <<m_mutex, tickVars, attempts, requests, tickMode, callbackVars>>

AppCleansUp ==
    /\ app \in CleanupSteps
    /\ CleanupGoesOn(app, app', "idle")
    /\ stopped' = IF app = "ends" THEN stopped \union {attempts} ELSE stopped
    /\ UNCHANGED <<m_connectionStatus, onDisconnect, m_mutex, eventVars, tickVars, attempts,
                   givenUp, listening, requests, tickMode, m_isRunningAsync, callbackVars>>

\* Mutant: shutdown() does not wait.
JoinForgotten ==
    /\ app = "joining"
    /\ app' = "idle"
    /\ stopped' = stopped \union {attempts}
    /\ UNCHANGED <<clientVars, m_socket, queueVars, m_mutex, eventVars, tickVars, attempts,
                   givenUp, listening, requests, tickMode, m_isRunningAsync, callbackVars>>

ShutdownJoins ==
    /\ app = "joining" /\ tick = "stopped"
    /\ app' = "idle"
    /\ stopped' = stopped \union {attempts}
    /\ UNCHANGED <<clientVars, m_socket, queueVars, m_mutex, eventVars, tickVars, attempts,
                   givenUp, listening, requests, tickMode, m_isRunningAsync, callbackVars>>

App ==
    \/ ConnectBegins \/ ConnectEnds \/ RequestBegins \/ RequestEnds \/ GracefulDisconnect
    \/ DisconnectBegins \/ DisconnectEnds \/ Shutdown \/ AppCleansUp \/ ShutdownJoins

-----------------------------------------------------------------------------
(* The tick.  tick() and the body of tickAsync's loop are the same steps.    *)

GoTo(phase) == tick' = phase /\ UNCHANGED <<resume, handling>>
Return == tick' = resume /\ handling' = Null /\ UNCHANGED resume

Attempting == {"CONNECTING", "RECONNECTING"}

\* Mutant: only a first connect times out.
TimedOutConnecting ==
    m_connectionStatus = "CONNECTING" /\ m_connectionInfo.connectionStartTime = "expired"

TimedOut ==
    m_connectionStatus \in Attempting /\ m_connectionInfo.connectionStartTime = "expired"

TickMayBegin == tick = "idle" /\ (Async \/ app = "idle") /\ (Async => m_isRunningAsync)

\* The status and the start time are read without the mutex.
CheckTimeOut ==
    /\ TickMayBegin
    /\ tick' = CASE TimedOut /\ m_connectionStatus = "CONNECTING"   -> "timeout"
                 [] TimedOut /\ m_connectionStatus = "RECONNECTING" -> "retimeout"
                 [] OTHER                                           -> "proceed"
    /\ resume' = "proceed"
    /\ UNCHANGED <<clientVars, m_socket, queueVars, m_mutex, eventVars, handling, callerVars,
                   callbackVars>>

\* Mutant: the client stays connecting.
StatusStays == "CONNECTING"

StatusAfterTimeOut == "DISCONNECTED"

TimeOutConnect ==
    /\ tick = "timeout"
    /\ m_connectionStatus' = StatusAfterTimeOut
    /\ GoTo("timeoutCloses")
    /\ UNCHANGED <<m_connectionInfo, onDisconnect, m_socket, queueVars, m_mutex, eventVars,
                   callerVars, callbackVars>>

TimeOutConnectCloses ==
    /\ tick = "timeoutCloses"
    /\ onDisconnect' = FALSE
    /\ CloseSocket
    /\ ClearSendQueue /\ m_receiveQueue' = <<>>
    /\ m_connectionInfo' = [m_connectionInfo EXCEPT !.hasBeenConnected = FALSE]
    /\ Dispatch("connectFailed")
    /\ Return
    /\ UNCHANGED <<m_connectionStatus, m_mutex, callerVars, callbackVars>>

\* handleTimeOutReconnect and handleFailedReconnect: the next address, if any.
FailReconnect ==
    /\ CloseSocket
    /\ m_receiveQueue' = <<>>
    /\ \/ /\ AddressLeft(m_connectionInfo.reconnectAddress)
          /\ m_connectionInfo' = [m_connectionInfo EXCEPT !.reconnectAddress = TryCycle(@)]
          /\ tick' = "reconnect"
          /\ UNCHANGED <<m_connectionStatus, m_sendQueue, eventVars, resume, handling>>
       \/ /\ ~AddressLeft(m_connectionInfo.reconnectAddress)
          /\ ClearSendQueue
          /\ m_connectionStatus' = "DISCONNECTED"
          /\ Dispatch("reconnectFailed")
          /\ IF m_connectionInfo.hasBeenConnected THEN GoTo("lost") ELSE Return
          /\ UNCHANGED m_connectionInfo
    /\ UNCHANGED <<m_mutex, callerVars, callbackVars>>

TimeOutReconnect == tick = "retimeout" /\ FailReconnect /\ onDisconnect' = FALSE

\* A connection that was established before is reported lost as well.
ReportLost ==
    /\ tick = "lost"
    /\ Dispatch("disconnected")
    /\ Return
    /\ UNCHANGED <<clientVars, m_socket, queueVars, m_mutex, callerVars, callbackVars>>

TickReconnects ==
    /\ tick = "reconnect"
    /\ Reconnect(m_connectionInfo)
    /\ OpenSocket \/ SocketRefuses
    /\ Return
    /\ UNCHANGED <<onDisconnect, m_sendQueue, m_mutex, callerVars, callbackVars>>

Proceed ==
    /\ tick = "proceed"
    /\ GoTo(IF m_connectionStatus = "DISCONNECTED" THEN "events"
            ELSE IF m_socket.state = "open" THEN "send" ELSE "socket")
    /\ UNCHANGED <<clientVars, m_socket, queueVars, m_mutex, eventVars, callerVars,
                   callbackVars>>

\* tickSendPackets: the composed bytes and the queue are taken, or kept for
\* another batch, or the queue breaks off; SendQueue has the details.
ComposedPackets == m_sendQueue.buffer \o m_sendQueue.composers

SendPackets ==
    /\ tick = "send"
    /\ \/ /\ m_sendQueue.composers = <<>> \/ m_sendQueue.gracefulClear
          /\ m_sendQueue' = [m_sendQueue EXCEPT
                !.composers = <<>>,
                !.gracefulClear = @ /\ m_sendQueue.composers = <<>>]
          /\ GoTo("receive")
          /\ UNCHANGED <<m_connectionStatus, m_socket>>
       \/ /\ m_sendQueue.composers # <<>> /\ ~m_sendQueue.gracefulClear
          /\ m_socket.state = "open"
          /\ m_socket' = [m_socket EXCEPT !.wire = @ \o ComposedPackets]
          /\ LET disconnects == "DISCONNECT" \in ToSet(ComposedPackets)
             IN  /\ m_sendQueue' = [composers |-> <<>>, buffer |-> <<>>,
                                    gracefulClear |-> disconnects]
                 /\ m_connectionStatus' = IF disconnects THEN "DISCONNECTED"
                                                         ELSE m_connectionStatus
                 /\ GoTo(IF disconnects THEN "sent" ELSE "receive")
       \/ /\ m_sendQueue.composers # <<>> /\ ~m_sendQueue.gracefulClear
          /\ m_socket.state # "open" \/ SendMayFail
          /\ m_sendQueue' = [m_sendQueue EXCEPT !.composers = <<>>, !.buffer = ComposedPackets]
          /\ tick' \in {"receive", "hard"} /\ resume' = "receive"
          /\ UNCHANGED <<m_connectionStatus, m_socket, handling>>
    /\ UNCHANGED <<m_connectionInfo, onDisconnect, m_receiveQueue, m_mutex, eventVars,
                   callerVars, callbackVars>>

\* The rest of handleDisconnectSentEvent, which does not hold the mutex.
DisconnectSent ==
    /\ tick = "sent"
    /\ onDisconnect' = FALSE
    /\ CloseSocket /\ ClearState
    /\ Dispatch("disconnected")
    /\ GoTo("receive")
    /\ UNCHANGED <<m_connectionStatus, queueVars, m_mutex, callerVars, callbackVars>>

\* A disconnect by the tick itself: the send queue broke off, a packet did not
\* decode, a ping was not answered.  Nothing happens when already disconnected.
TickDisconnects ==
    /\ tick = "hard"
    /\ IF m_connectionStatus = "DISCONNECTED"
       THEN /\ Return /\ m_mutex = "free"
            /\ UNCHANGED <<clientVars, m_socket, queueVars, m_mutex, eventVars, attempts,
                           stopped, listening, requests, tickMode, m_isRunningAsync,
                           callbackVars>>
       ELSE HardDisconnectBegins("tick", TRUE) /\ GoTo("hardEnds")
    /\ UNCHANGED <<app, givenUp>>

TickDisconnected ==
    /\ tick = "hardEnds"
    /\ HardDisconnectEnds("tick")
    /\ Return
    /\ UNCHANGED app

\* receiveNextBatch takes a packet out of the queue before it is handled.
TakePacket ==
    /\ tick = "receive" /\ m_receiveQueue # <<>>
    /\ handling' = Head(m_receiveQueue)
    /\ m_receiveQueue' = Tail(m_receiveQueue)
    /\ tick' = "handle" /\ resume' = "receive"
    /\ UNCHANGED <<clientVars, m_socket, m_sendQueue, m_mutex, eventVars, callerVars,
                   callbackVars>>

NoMorePackets ==
    /\ tick = "receive" /\ m_receiveQueue = <<>>
    /\ GoTo("keepalive")
    /\ UNCHANGED <<clientVars, m_socket, queueVars, m_mutex, eventVars, callerVars,
                   callbackVars>>

\* tickCheckKeepAlive; whether a ping went unanswered is left open.
CheckKeepAlive ==
    /\ tick = "keepalive"
    /\ tick' \in {"socket"} \union (IF m_connectionStatus = "CONNECTED" THEN {"hard"} ELSE {})
    /\ resume' = "socket"
    /\ UNCHANGED <<clientVars, m_socket, queueVars, m_mutex, eventVars, handling, callerVars,
                   callbackVars>>

\* A socket without a thread calls back from its tick(), at most once here.
TickSocket ==
    /\ tick = "socket" /\ (SocketThread \/ callback = "none")
    /\ GoTo("events")
    /\ UNCHANGED <<clientVars, m_socket, queueVars, m_mutex, eventVars, callerVars,
                   callbackVars>>

InvokeEvents ==
    /\ tick = "events" /\ (Async \/ m_mutex = "free")
    /\ reports' = IF listening THEN reports \o m_eventDeferrer ELSE reports
    /\ m_eventDeferrer' = <<>>
    /\ GoTo("idle")
    /\ UNCHANGED <<clientVars, m_socket, queueVars, m_mutex, callerVars, callbackVars>>

\* The tick thread ends (ASYNC).
TickStops ==
    /\ Async /\ ~m_isRunningAsync /\ tick = "idle"
    /\ CleanupBegins
    /\ GoTo("closes")
    /\ UNCHANGED <<m_connectionInfo, onDisconnect, m_socket, queueVars, m_mutex, app, attempts,
                   givenUp, stopped, requests, tickMode, m_isRunningAsync, callbackVars>>

TickCleansUp ==
    /\ tick \in CleanupSteps
    /\ CleanupGoesOn(tick, tick', "stopped")
    /\ UNCHANGED <<m_connectionStatus, onDisconnect, m_mutex, eventVars, resume, handling,
                   callerVars, callbackVars>>

-----------------------------------------------------------------------------
(* Handlers of received packets, called by the tick.                         *)

Handling(kinds) == tick = "handle" /\ handling.kind \in kinds

\* A CONNACK with a reason code below 128, without a session state or with one
\* that the client has as well.
ConnAckMatches == handling.kind = "present" => m_connectionInfo.hasSession

LastContacted ==
    IF m_connectionInfo.contacted = <<>> THEN m_connectionInfo.server
                                         ELSE Last(m_connectionInfo.contacted)

AcceptedInfo == [m_connectionInfo EXCEPT !.hasBeenConnected = TRUE, !.hasSession = TRUE,
                                         !.server = LastContacted, !.contacted = <<>>,
                                         !.reconnectAddress =
                                                Reset(m_connectionInfo.connectAddress)]

\* The status is set before it is asked whether the client was reconnecting.
ConnectAccepted ==
    /\ Handling({"accepted", "present"})
    /\ m_connectionStatus' = "CONNECTED"
    /\ m_connectionInfo' = AcceptedInfo
    /\ IF ConnAckMatches
       THEN Dispatch("connected") /\ Return
       ELSE GoTo("refuse") /\ UNCHANGED eventVars
    /\ UNCHANGED <<onDisconnect, m_socket, queueVars, m_mutex, callerVars, callbackVars>>

ConnectRefused ==
    /\ Handling({"refused", "moved"})
    /\ \/ m_connectionStatus # "RECONNECTING" /\ GoTo("refuse")
          /\ UNCHANGED <<clientVars, m_socket, queueVars, m_mutex, eventVars, callerVars,
                         callbackVars>>
       \/ m_connectionStatus = "RECONNECTING" /\ FailReconnect /\ UNCHANGED onDisconnect

\* handleFailedConnect.
RefuseConnect ==
    /\ tick = "refuse"
    /\ m_connectionStatus' = "DISCONNECTED"
    /\ GoTo("refuseCloses")
    /\ UNCHANGED <<m_connectionInfo, onDisconnect, m_socket, queueVars, m_mutex, eventVars,
                   callerVars, callbackVars>>

\* tryStartBrokerRedirection: the client may go where it is sent, or to another
\* address.  Of the addresses a temporary redirection names, the first that is
\* known already is as good as none.
RedirectionStarts(r) == r.reference # <<>> \/ AddressLeft(m_connectionInfo.reconnectAddress)

RedirectedInfo(r) ==
    LET known == m_connectionInfo.reconnectAddress IN
    IF r.permanent
    THEN LET server == Head(r.reference) IN
         [m_connectionInfo EXCEPT
            !.connectAddress.primary = server,
            !.reconnectAddress =
                AddAddresses([known EXCEPT !.primary = server], Tail(r.reference))]
    ELSE [m_connectionInfo EXCEPT
            !.reconnectAddress = TryCycle(AddAddresses(known, r.reference))]

RefuseConnectCloses ==
    /\ tick = "refuseCloses"
    /\ CloseSocket
    /\ m_receiveQueue' = <<>>
    /\ \/ /\ handling.kind = "moved" /\ RedirectionStarts(handling.redirection)
          /\ m_connectionInfo' = RedirectedInfo(handling.redirection)
          /\ tick' = "reconnect"
          /\ UNCHANGED <<m_sendQueue, eventVars, resume, handling>>
       \/ /\ handling.kind = "moved" => ~RedirectionStarts(handling.redirection)
          /\ ClearSendQueue
          /\ m_connectionInfo' = [m_connectionInfo EXCEPT !.hasBeenConnected = FALSE]
          /\ Dispatch("connectFailed")
          /\ IF handling.kind = "present" THEN GoTo("resume") ELSE Return
    /\ UNCHANGED <<m_connectionStatus, onDisconnect, m_mutex, callerVars, callbackVars>>

\* handleReceivedConnectAcknowledge goes on after handleFailedConnect.
ConnAckResumes ==
    /\ tick = "resume"
    /\ Dispatch("connected")
    /\ Return
    /\ UNCHANGED <<clientVars, m_socket, queueVars, m_mutex, callerVars, callbackVars>>

\* handleExternalDisconnect(const Disconnect&), under the mutex to its end.
DisconnectReceived ==
    /\ Handling({"disconnect", "disconnectMoved"}) /\ m_mutex = "free"
    /\ \/ /\ m_connectionStatus = "DISCONNECTED"
          /\ UNCHANGED <<clientVars, m_socket, queueVars, eventVars>>
       \/ /\ m_connectionStatus # "DISCONNECTED" /\ handling.kind = "disconnectMoved"
          /\ RedirectionStarts(handling.redirection)
          /\ onDisconnect' = FALSE
          /\ Reconnect(RedirectedInfo(handling.redirection))
          /\ OpenSocket \/ (ConnectMayFail /\ CloseSocket)
          /\ UNCHANGED m_sendQueue
       \/ /\ m_connectionStatus # "DISCONNECTED"
          /\ handling.kind = "disconnectMoved" => ~RedirectionStarts(handling.redirection)
          /\ onDisconnect' = FALSE
          /\ CloseSocket
          /\ ClearSendQueue /\ m_receiveQueue' = <<>>
          /\ m_connectionStatus' = "DISCONNECTED"
          /\ ClearState
          /\ Dispatch("disconnected")
    /\ Return
    /\ UNCHANGED <<m_mutex, callerVars, callbackVars>>

\* A packet that does not decode ends the batch; what a socket's thread has queued
\* since the batch began is left to the next one.
DecodeFails ==
    /\ Handling({"malformed"})
    /\ IF m_connectionStatus = "CONNECTING" THEN Dispatch("connectFailed")
                                            ELSE UNCHANGED eventVars
    /\ \E k \in 0 .. Len(m_receiveQueue) :
          /\ k < Len(m_receiveQueue) => SocketThread
          /\ m_receiveQueue' = SubSeq(m_receiveQueue, k + 1, Len(m_receiveQueue))
    /\ tick' = "hard" /\ resume' = "keepalive" /\ UNCHANGED handling
    /\ UNCHANGED <<clientVars, m_socket, m_sendQueue, m_mutex, callerVars, callbackVars>>

Tick ==
    \/ CheckTimeOut \/ TimeOutConnect \/ TimeOutConnectCloses \/ TimeOutReconnect
    \/ ReportLost \/ TickReconnects \/ Proceed \/ SendPackets \/ DisconnectSent
    \/ TickDisconnects \/ TickDisconnected \/ TakePacket \/ NoMorePackets
    \/ CheckKeepAlive \/ TickSocket \/ InvokeEvents \/ TickStops \/ TickCleansUp
    \/ ConnectAccepted \/ ConnectRefused \/ RefuseConnect \/ RefuseConnectCloses
    \/ ConnAckResumes \/ DisconnectReceived \/ DecodeFails

-----------------------------------------------------------------------------
(* The socket and the broker.                                                *)

SocketTurn ==
    /\ callback = "none"
    /\ IF SocketThread THEN UNCHANGED tickVars ELSE tick = "socket" /\ GoTo("events")

SocketOpens ==
    /\ SocketTurn
    /\ m_socket.state = "opening"
    /\ m_socket' = [m_socket EXCEPT !.state = "open"]
    /\ IF SocketThread THEN callback' = "opened" /\ UNCHANGED m_sendQueue
                       ELSE AddToQueue("CONNECT") /\ UNCHANGED callback
    /\ UNCHANGED <<clientVars, m_receiveQueue, m_mutex, eventVars, callerVars, arriving>>

\* The end of handleSocketConnectEvent(true) in a thread of the socket.
ConnectQueued ==
    /\ callback = "opened"
    /\ AddToQueue("CONNECT")
    /\ callback' = "none"
    /\ UNCHANGED <<clientVars, m_socket, m_receiveQueue, m_mutex, eventVars, tickVars,
                   callerVars, arriving>>

\* handleSocketConnectEvent(false): the status is overwritten before it is
\* asked whether the client was reconnecting.
ConnectCallbackFails ==
    /\ m_connectionStatus' = "DISCONNECTED"
    /\ Dispatch("connectFailed")
    /\ UNCHANGED <<m_connectionInfo, queueVars, listening>>

SocketFails ==
    /\ ~ErrorCallback
    /\ SocketTurn
    /\ m_socket.state = "opening"
    /\ CloseSocket
    /\ ConnectCallbackFails
    /\ UNCHANGED <<onDisconnect, m_mutex, app, attempts, givenUp, stopped, requests,
                   tickMode, m_isRunningAsync, callbackVars>>

\* The error callback shuts the client down; only then is the failure to connect
\* reported, to listeners that have been removed.
SocketErrs ==
    /\ ErrorCallback
    /\ SocketTurn
    /\ m_socket.state = "opening"
    /\ CloseSocket
    /\ \/ /\ ~Async /\ m_connectionStatus # "DISCONNECTED"
          /\ CleanupBegins
          /\ callback' = "closes"
          /\ UNCHANGED <<m_connectionInfo, queueVars, m_isRunningAsync>>
       \/ /\ Async /\ m_isRunningAsync
          /\ m_isRunningAsync' = FALSE /\ callback' = "joining"
          /\ UNCHANGED <<m_connectionStatus, m_connectionInfo, queueVars, eventVars, listening>>
       \/ /\ IF Async THEN ~m_isRunningAsync ELSE m_connectionStatus = "DISCONNECTED"
          /\ ConnectCallbackFails
          /\ UNCHANGED <<m_isRunningAsync, callback>>
    /\ UNCHANGED <<onDisconnect, m_mutex, app, attempts, givenUp, stopped, requests, tickMode,
                   arriving>>

CallbackCleansUp ==
    /\ callback \in CleanupSteps
    /\ CleanupGoesOn(callback, callback', "cleaned")
    /\ UNCHANGED <<m_connectionStatus, onDisconnect, m_mutex, eventVars, tickVars, callerVars,
                   arriving>>

\* The socket's thread has cleaned up, or waited for the tick thread to do so.
ErrorReports ==
    /\ callback = "cleaned" \/ (callback = "joining" /\ tick = "stopped")
    /\ callback' = "none"
    /\ ConnectCallbackFails
    /\ UNCHANGED <<onDisconnect, m_socket, m_mutex, tickVars, app, attempts, givenUp, stopped,
                   requests, tickMode, m_isRunningAsync, arriving>>

SocketCloses ==
    /\ callback = "none" /\ (SocketThread \/ tick = "socket")
    /\ m_socket.state = "open"
    /\ CloseSocket
    /\ callback' = IF onDisconnect THEN "closed" ELSE "none"
    /\ UNCHANGED <<clientVars, queueVars, m_mutex, eventVars, tickVars, callerVars, arriving>>

CloseIgnored == m_connectionStatus = "DISCONNECTED"

\* handleExternalDisconnect(int, string).
SocketClosed ==
    /\ callback = "closed" /\ m_mutex = "free"
    /\ callback' = "none"
    /\ IF CloseIgnored
       THEN UNCHANGED <<clientVars, m_socket, m_sendQueue, eventVars>>
       ELSE /\ m_connectionStatus' = "DISCONNECTED"
            /\ CloseSocket /\ ClearSendQueue /\ ClearState
            /\ Dispatch("disconnected")
            /\ UNCHANGED onDisconnect
    /\ UNCHANGED <<m_receiveQueue, m_mutex, tickVars, callerVars, arriving>>

\* The broker answers the first CONNECT packet of a connection once; when it has
\* accepted it, it may end the connection.
BrokerMaySend ==
    IF m_socket.answer = "none"
    THEN IF "CONNECT" \in ToSet(m_socket.wire)
         THEN {"accepted", "present", "refused", "moved", "malformed"} ELSE {}
    ELSE IF m_socket.answer \in {"accepted", "present"}
         THEN {"disconnect", "disconnectMoved", "malformed"} ELSE {}

Receives(packet) ==
    IF SocketThread
    THEN callback' = "received" /\ arriving' = packet /\ UNCHANGED m_receiveQueue
    ELSE m_receiveQueue' = Append(m_receiveQueue, packet) /\ UNCHANGED callbackVars

BrokerSends ==
    /\ SocketTurn
    /\ m_socket.state = "open"
    /\ \E kind \in Answers \intersect BrokerMaySend :
       \E r \in IF kind \in {"moved", "disconnectMoved"} THEN Redirections ELSE {Null} :
          /\ r # Null => m_socket.serial < MaxSockets
          /\ Receives([kind |-> kind, redirection |-> r, serial |-> m_socket.serial])
          /\ m_socket' = [m_socket EXCEPT !.answer = kind]
    /\ UNCHANGED <<clientVars, m_sendQueue, m_mutex, eventVars, callerVars>>

\* The end of handleSocketDataReceivedEvent in a thread of the socket.
PacketQueued ==
    /\ callback = "received"
    /\ m_receiveQueue' = Append(m_receiveQueue, arriving)
    /\ callback' = "none" /\ arriving' = Null
    /\ UNCHANGED <<clientVars, m_socket, m_sendQueue, m_mutex, eventVars, tickVars, callerVars>>

TimePasses ==
    /\ m_connectionInfo.connectionStartTime = "running"
    /\ m_connectionInfo' = [m_connectionInfo EXCEPT !.connectionStartTime = "expired"]
    /\ UNCHANGED <<m_connectionStatus, onDisconnect, m_socket, queueVars, m_mutex, eventVars,
                   tickVars, callerVars, callbackVars>>

Environment ==
    \/ SocketOpens \/ ConnectQueued \/ SocketFails
    \/ SocketErrs \/ CallbackCleansUp \/ ErrorReports \/ SocketCloses \/ SocketClosed
    \/ BrokerSends \/ PacketQueued \/ TimePasses

Next == App \/ Tick \/ Environment

Spec == Init /\ [][Next]_vars

\* The tick thread keeps ticking (in SYNC mode the application does, between its
\* calls), a call that has begun ends, time passes, and a callback that the
\* socket owes is made.
Fairness ==
    /\ SF_vars(Tick)
    /\ WF_vars(ConnectEnds) /\ WF_vars(DisconnectEnds) /\ WF_vars(RequestEnds)
    /\ WF_vars(AppCleansUp) /\ WF_vars(ShutdownJoins)
    /\ WF_vars(ConnectQueued) /\ WF_vars(PacketQueued)
    /\ WF_vars(CallbackCleansUp) /\ WF_vars(ErrorReports)
    /\ SF_vars(SocketClosed)
    /\ WF_vars(TimePasses)

FairSpec == Spec /\ Fairness

-----------------------------------------------------------------------------

Statuses == {"DISCONNECTED", "CONNECTING", "CONNECTED", "RECONNECTING"}
Phases == {"idle", "timeout", "timeoutCloses", "retimeout", "lost", "reconnect", "proceed",
           "send", "sent", "hard", "hardEnds", "receive", "handle", "refuse", "refuseCloses",
           "resume", "keepalive", "socket", "events", "closes", "clears", "ends", "stopped"}
Packets == {"CONNECT", "DISCONNECT", "REQUEST"}
Events == {"connected", "connectFailed", "disconnected", "reconnecting", "reconnectFailed"}

TypeOK ==
    /\ m_connectionStatus \in Statuses
    /\ m_socket.state \in {"closed", "opening", "open"}
    /\ \A a \in {m_connectionInfo.reconnectAddress} :
          IsInjective(a.used \o <<a.primary>> \o a.others)
    /\ ToSet(m_sendQueue.composers \o m_sendQueue.buffer \o m_socket.wire) \subseteq Packets
    /\ m_mutex \in {"free", "app", "tick"}
    /\ m_mutex = "app" <=> app \in {"connect", "disconnect"}
    /\ m_mutex = "tick" <=> tick = "hardEnds"
    /\ tick \in Phases /\ resume \in Phases
    /\ app \in {"idle", "connect", "request", "disconnect", "joining"} \union CleanupSteps
    /\ callback \in {"none", "opened", "received", "closed", "joining", "cleaned"}
                       \union CleanupSteps
    /\ callback # "received" => arriving = Null
    /\ tickMode \in TickModes
    /\ ToSet(reports \o m_eventDeferrer) \subseteq [attempt : 0 .. MaxConnects, kind : Events]

\* Nobody is inside a call, a tick or a callback, and no event waits.
Quiet == app = "idle" /\ tick = "idle" /\ callback = "none" /\ m_eventDeferrer = <<>>

\* A client that says it is disconnected has no socket left open or opening.
NoOrphanSocket == Quiet /\ m_connectionStatus = "DISCONNECTED" => m_socket.state = "closed"

\* Only the answer to the CONNECT packet of the present socket connects a client.
ConnectedByOwnAnswer ==
    [][m_connectionStatus' = "CONNECTED" /\ m_connectionStatus # "CONNECTED"
          => /\ m_connectionStatus \in Attempting
             /\ m_socket.state = "open" /\ handling.serial = m_socket.serial]_vars

\* A connection the application has ended does not come back by itself.
StaysDisconnected ==
    [][m_connectionStatus = "DISCONNECTED" /\ attempts \in givenUp /\ attempts' = attempts
          => m_connectionStatus' = "DISCONNECTED"]_vars

\* A connection starts with its CONNECT packet and has no other: neither that of an
\* earlier connection nor a request made on one is sent on it.
ConnectLeads ==
    /\ Cardinality({i \in DOMAIN m_socket.wire : m_socket.wire[i] = "CONNECT"}) <= 1
    /\ \A i \in DOMAIN m_socket.wire :
          m_socket.wire[i] = "REQUEST" => "CONNECT" \in ToSet(SubSeq(m_socket.wire, 1, i))

\* "Other addresses will be used for reconnection attempts when primary address
\* fails" (ConnectAddress.h:268): a socket that fails while others are left does
\* not end the attempt.
OtherAddressesTried ==
    [][m_connectionStatus = "RECONNECTING" /\ AddressLeft(m_connectionInfo.reconnectAddress)
          => m_connectionStatus' # "DISCONNECTED"]_vars

\* From one server that accepts the client to the next, each address is turned to
\* once, however the addresses given, cycled through and added by redirections meet:
\* a client that is refused does not come back (tryCycleToNextPrimaryAddress,
\* addAddresses).
NoAddressTwice == IsInjective(m_connectionInfo.contacted)

\* Nor does one that is connected and sent away come back to the server that sent it.
NotSentBack == m_connectionInfo.server \notin ToSet(m_connectionInfo.contacted)

\* "Disconnect packet contains a SERVER_REFERENCE for new temporary server"
\* (MqttClientImpl.cpp:566): a client that is sent somewhere goes there.
GoesWhereSent ==
    [][m_connectionStatus # "RECONNECTING" /\ m_connectionStatus' = "RECONNECTING"
          /\ handling.redirection.reference # <<>>
       => Last(m_connectionInfo'.contacted) \in ToSet(handling.redirection.reference)]_vars

\* When shutdown() has waited for the tick thread, or in SYNC mode has cleaned up, the
\* client is DISCONNECTED and has no socket until connect() is called again, whatever
\* the tick and the socket were doing.  shutdownCleanup takes no mutex, so its queues
\* may hold the packet of one callback that was under way, and no other.
ShutdownStops ==
    attempts \in stopped =>
        /\ m_connectionStatus = "DISCONNECTED" /\ m_socket.state = "closed"
        /\ Len(m_sendQueue.composers) + Len(m_receiveQueue) <= 1

\* "Client not running asynchronously, cannot shutdownAsync(). Ignoring."
\* (MqttClientImpl.cpp:309): a shutdown() that finds no tick thread to stop has
\* nothing to do.
ShutdownNeverIgnored ==
    [][app = "idle" /\ app' = "idle" /\ givenUp' # givenUp /\ Async /\ ~m_isRunningAsync
          => m_connectionStatus = "DISCONNECTED"]_vars

Count(a, kind) ==
    Cardinality({i \in DOMAIN reports : reports[i] = [attempt |-> a, kind |-> kind]})

\* A connect() call is reported failed at most once, and not when it was
\* reported to have succeeded.
FailsAtMostOnce ==
    \A a \in 1 .. MaxConnects :
        Count(a, "connectFailed") <= 1
        /\ (Count(a, "connectFailed") = 1 => Count(a, "connected") = 0)

\* "Connection result will arrive via onConnectEvent callback" (README.md:112):
\* a connect() call the application has not given up is reported.
ResultReported ==
    Quiet /\ m_connectionStatus = "DISCONNECTED" =>
        \A a \in 1 .. attempts \ givenUp :
            Count(a, "connected") + Count(a, "connectFailed") > 0

\* Every attempt ends, by success, failure or its time-out: the client never stays
\* connecting or reconnecting.  A client that has been shut down has no tick
\* thread any more to end an attempt.
AttemptEnds ==
    m_connectionStatus \in Attempting /\ listening ~> m_connectionStatus \notin Attempting

\* "Invoked when the client disconnects from the MQTT broker": the loss of the
\* socket does not go unnoticed.
LossNoticed ==
    m_connectionStatus = "CONNECTED" /\ m_socket.state = "closed"
        ~> m_connectionStatus # "CONNECTED"
=============================================================================
