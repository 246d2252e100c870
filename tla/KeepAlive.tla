------------------------------ MODULE KeepAlive ------------------------------
(***************************************************************************)
(* Pings and their time-out (tickCheckKeepAlive, handlePingSentEvent,      *)
(* handleReceivedPingResponse and the CONNACK handler of                   *)
(* MqttClientImpl.cpp).                                                    *)
(*                                                                         *)
(* A tick sends, receives and then looks at the clock.  The client knows   *)
(* when the last ping was reported sent and when it last believed that     *)
(* something was sent; the broker knows how long it has heard nothing.     *)
(* Times are ages, counted in units of one millisecond of the code, of     *)
(* which a second has MsPerSec.  A tick happens in every unit.  Of the     *)
(* other packets it only matters that they are sent.                       *)
(***************************************************************************)
EXTENDS Integers

CONSTANTS
    MsPerSec,           \* 1000 in the code
    Wrap,               \* 2^16, the values serverKeepAlive has room for
    PingAlways,         \* Config::pingAlways
    DefaultPingInterval, PingTimeOut,
    KeepAlives,         \* the keepAliveInSec the application may ask for
    ServerKeepAlives,   \* the SERVER_KEEP_ALIVE a CONNACK may carry, NoProperty included
    NoProperty,
    AnswerTime,         \* a broker that answers does so within this time
    MaxBlocked,         \* bound: how often in a row the socket takes nothing
    RedirectWhileAwaiting, \* the client may be moved while it awaits a PINGRESP
    MaxConnections,     \* bound: connections
    MaxPings,           \* bound: pings told apart in a queue
    Forever             \* bound: ages from here on are not told apart

ASSUME KeepAliveAssumption ==
    /\ MsPerSec \in Nat \ {0} /\ Wrap \in Nat \ {0} /\ Forever \in Nat \ {0}
    /\ DefaultPingInterval \in Nat \ {0} /\ PingTimeOut \in Nat \ {0}
    /\ AnswerTime \in Nat /\ MaxBlocked \in Nat
    /\ MaxConnections \in Nat /\ MaxPings \in Nat \ {0}
    /\ KeepAlives \subseteq Nat /\ ServerKeepAlives \subseteq (0 .. Wrap - 1) \union {NoProperty}
    /\ PingAlways \in BOOLEAN /\ RedirectWhileAwaiting \in BOOLEAN

VARIABLES
    m_connectionStatus,
    serverKeepAlive, pingInterval,
    awaitingPingResponse,
    sinceLastPing,      \* the age of lastPingReqSentTime
    sinceControlPacket, \* the age of lastControlPacketTime
    controlPacketSent,  \* m_batchResultData.controlPacketSent
    queue,              \* packets in the send queue: pings, and whether there are others
    buffered,           \* pings composed and not taken by the socket yet
    tick,               \* idle, receive or check
    ticked,             \* a tick has ended in this unit of time
    blocked,            \* how often in a row the socket has taken nothing
    keepAliveInForce,   \* the broker's: in seconds
    answering,          \* the broker is there
    silence,            \* the broker's: how long it has heard nothing
    unanswered,         \* the age of the oldest ping the broker has not answered, or NoPing
    responses,          \* a PINGRESP waits in the receive queue
    connections,
    endedBy             \* history: what ended the last connection

infoVars == <<serverKeepAlive, pingInterval, awaitingPingResponse, sinceLastPing,
              sinceControlPacket>>
sendVars == <<controlPacketSent, queue, buffered, blocked>>
brokerVars == <<keepAliveInForce, answering, silence, unanswered>>
tickVars == <<tick, ticked>>
vars == <<m_connectionStatus, infoVars, sendVars, brokerVars, tickVars, responses,
          connections, endedBy>>

NoPing == -1
EmptyQueue == [pings |-> 0, others |-> FALSE]

Init ==
    /\ m_connectionStatus = "DISCONNECTED"
    /\ serverKeepAlive = 0 /\ pingInterval = 0
    /\ awaitingPingResponse = FALSE
    /\ sinceLastPing = Forever /\ sinceControlPacket = Forever
    /\ controlPacketSent = FALSE /\ queue = EmptyQueue /\ buffered = 0 /\ blocked = 0
    /\ tick = "idle" /\ ticked = FALSE
    /\ keepAliveInForce = 0 /\ answering = TRUE /\ silence = 0 /\ unanswered = NoPing
    /\ responses = FALSE
    /\ connections = 0 /\ endedBy = "nothing"

OneMorePing(n) == IF n < MaxPings THEN n + 1 ELSE n
Older(age) == IF age < Forever THEN age + 1 ELSE age

-----------------------------------------------------------------------------
(* Connections.                                                             *)

\* Mutant: the member is as wide as the product.
ServerKeepAliveUnwrapped(keepAliveInSec, property) ==
    IF property # NoProperty THEN property ELSE keepAliveInSec * MsPerSec

\* The member is 16 bits wide, and the property is in seconds.
ServerKeepAliveOf(keepAliveInSec, property) ==
    IF property # NoProperty THEN property ELSE (keepAliveInSec * MsPerSec) % Wrap

\* The keep alive time the broker goes by, in seconds.
InForceOf(keepAliveInSec, property) ==
    IF property # NoProperty THEN property ELSE keepAliveInSec

PingIntervalOf(keepAlive) ==
    IF PingAlways /\ keepAlive = 0 THEN DefaultPingInterval ELSE keepAlive

\* The CONNACK handler.  lastPingReqSentTime and awaitingPingResponse are as the
\* last clear() or the last connection left them.
Accepted ==
    \E keepAliveInSec \in KeepAlives, property \in ServerKeepAlives :
        /\ m_connectionStatus' = "CONNECTED"
        /\ serverKeepAlive' = ServerKeepAliveOf(keepAliveInSec, property)
        /\ pingInterval' = PingIntervalOf(serverKeepAlive')
        /\ sinceControlPacket' = 0
        /\ keepAliveInForce' = InForceOf(keepAliveInSec, property)
        /\ answering' = TRUE /\ silence' = 0 /\ unanswered' = NoPing
        /\ connections' = connections + 1
        /\ controlPacketSent' = TRUE /\ buffered' = 0 /\ blocked' = 0

\* connect() and the CONNACK, whose steps are in Connection.  The CONNECT packet
\* is a control packet and takes with it what was left in the buffer.
Connect ==
    /\ m_connectionStatus = "DISCONNECTED" /\ tick = "idle"
    /\ connections < MaxConnections
    /\ Accepted
    /\ queue' = EmptyQueue
    /\ responses' = FALSE
    /\ UNCHANGED <<awaitingPingResponse, sinceLastPing, tickVars, endedBy>>

\* Mutant: the ping of the connection that ended is still awaited.
PingStillAwaited ==
    /\ serverKeepAlive' = 0 /\ pingInterval' = 0
    /\ sinceLastPing' = Forever /\ sinceControlPacket' = Forever
    /\ UNCHANGED awaitingPingResponse

\* MqttConnectionInfo::clear.
Clear ==
    /\ serverKeepAlive' = 0 /\ pingInterval' = 0
    /\ awaitingPingResponse' = FALSE
    /\ sinceLastPing' = Forever /\ sinceControlPacket' = Forever

\* A disconnect, by whichever side: the queue is cancelled, what was composed
\* stays in the buffer.
Disconnects(cause) ==
    /\ m_connectionStatus' = "DISCONNECTED"
    /\ Clear
    /\ queue' = EmptyQueue
    /\ endedBy' = cause

ConnectionLost ==
    /\ m_connectionStatus # "DISCONNECTED" /\ tick = "idle"
    /\ Disconnects("loss")
    /\ UNCHANGED <<controlPacketSent, buffered, blocked, brokerVars, tickVars, responses,
                   connections>>

\* A DISCONNECT packet that names another server: handleExternalDisconnect returns
\* before it clears anything but the receive queue.
Redirected ==
    /\ m_connectionStatus = "CONNECTED" /\ tick = "receive" /\ answering
    /\ connections < MaxConnections
    /\ awaitingPingResponse => RedirectWhileAwaiting
    /\ m_connectionStatus' = "RECONNECTING"
    /\ responses' = FALSE
    /\ tick' = "check"
    /\ UNCHANGED <<infoVars, sendVars, brokerVars, ticked, connections, endedBy>>

\* handleFailedReconnect, handleTimeOutReconnect: no clear().
ReconnectFails ==
    /\ m_connectionStatus = "RECONNECTING" /\ tick = "idle"
    /\ m_connectionStatus' = "DISCONNECTED"
    /\ queue' = EmptyQueue
    /\ endedBy' = "loss"
    /\ UNCHANGED <<infoVars, controlPacketSent, buffered, blocked, brokerVars, tickVars, responses,
                   connections>>

\* The CONNACK of the other server.
Reconnected ==
    /\ m_connectionStatus = "RECONNECTING" /\ tick = "idle"
    /\ Accepted
    /\ UNCHANGED <<awaitingPingResponse, sinceLastPing, queue, tickVars, responses, endedBy>>

AppSends ==
    /\ m_connectionStatus = "CONNECTED" /\ tick = "idle"
    /\ queue' = [queue EXCEPT !.others = TRUE]
    /\ UNCHANGED <<m_connectionStatus, infoVars, controlPacketSent, buffered, blocked,
                   brokerVars, tickVars, responses, connections, endedBy>>

-----------------------------------------------------------------------------
(* The tick.                                                                *)

\* Mutant: a ping that was sent is not awaited.
PingSentForgotten == sinceLastPing' = 0 /\ UNCHANGED awaitingPingResponse

PingSent == sinceLastPing' = 0 /\ awaitingPingResponse' = TRUE

\* trySendBatch reports a ping only when it is composed and sent in one batch, and
\* returns early when nothing is queued, whatever is left in the buffer.
SendBatch ==
    \/ /\ queue = EmptyQueue
       /\ UNCHANGED <<sendVars, brokerVars, awaitingPingResponse, sinceLastPing>>
    \/ /\ queue # EmptyQueue
       /\ queue' = EmptyQueue /\ buffered' = 0 /\ blocked' = 0
       /\ controlPacketSent' = TRUE
       /\ IF queue.pings > 0 THEN PingSent
                             ELSE UNCHANGED <<awaitingPingResponse, sinceLastPing>>
       /\ silence' = 0
       /\ unanswered' = IF queue.pings + buffered > 0 /\ unanswered = NoPing
                        THEN 0 ELSE unanswered
       /\ UNCHANGED <<keepAliveInForce, answering>>
    \/ /\ queue # EmptyQueue /\ blocked < MaxBlocked
       /\ queue' = EmptyQueue
       /\ buffered' = IF queue.pings > 0 THEN OneMorePing(buffered) ELSE buffered
       /\ blocked' = blocked + 1
       /\ UNCHANGED <<controlPacketSent, awaitingPingResponse, sinceLastPing, brokerVars>>

\* SendBatchResult::controlPacketSent is set by sendNextBatch and reset by nobody.
TickSendPackets ==
    /\ tick = "idle" /\ m_connectionStatus = "CONNECTED"
    /\ SendBatch
    /\ sinceControlPacket' = IF controlPacketSent' THEN 0 ELSE sinceControlPacket
    /\ tick' = "receive"
    /\ UNCHANGED <<m_connectionStatus, serverKeepAlive, pingInterval, ticked, responses,
                   connections, endedBy>>

\* handleReceivedPingResponse, when there is one.
TickReceivePackets ==
    /\ tick = "receive"
    /\ awaitingPingResponse' = (awaitingPingResponse /\ ~responses)
    /\ responses' = FALSE
    /\ tick' = "check"
    /\ UNCHANGED <<m_connectionStatus, serverKeepAlive, pingInterval, sinceLastPing,
                   sinceControlPacket, sendVars, brokerVars, ticked, connections, endedBy>>

PingTimedOut == awaitingPingResponse /\ sinceLastPing > PingTimeOut

\* Mutant: what the application sends puts off the ping also when it should not.
PingDueAfterControl == ~awaitingPingResponse /\ sinceControlPacket >= pingInterval

PingDue ==
    /\ ~awaitingPingResponse
    /\ IF PingAlways THEN sinceLastPing >= pingInterval
                     ELSE sinceControlPacket >= pingInterval

Pinging == m_connectionStatus = "CONNECTED" /\ (PingAlways \/ serverKeepAlive # 0)

TickCheckKeepAlive ==
    /\ tick = "check"
    /\ \/ /\ Pinging /\ PingTimedOut
          /\ Disconnects("ping")
       \/ /\ ~(Pinging /\ PingTimedOut)
          /\ queue' = IF Pinging /\ PingDue
                      THEN [queue EXCEPT !.pings = OneMorePing(@)] ELSE queue
          /\ UNCHANGED <<m_connectionStatus, infoVars, endedBy>>
    /\ tick' = "idle" /\ ticked' = TRUE
    /\ UNCHANGED <<controlPacketSent, buffered, blocked, brokerVars, responses, connections>>

Tick == TickSendPackets \/ TickReceivePackets \/ TickCheckKeepAlive

-----------------------------------------------------------------------------
(* The broker and time.                                                     *)

BrokerAnswers ==
    /\ m_connectionStatus = "CONNECTED" /\ answering
    /\ unanswered # NoPing
    /\ unanswered' = NoPing
    /\ responses' = TRUE
    /\ UNCHANGED <<m_connectionStatus, infoVars, sendVars, keepAliveInForce, answering,
                   silence, tickVars, connections, endedBy>>

\* From now on nothing comes, though the socket stays open.
BrokerFallsSilent ==
    /\ m_connectionStatus = "CONNECTED" /\ answering
    /\ answering' = FALSE
    /\ UNCHANGED <<m_connectionStatus, infoVars, sendVars, keepAliveInForce, silence,
                   unanswered, tickVars, responses, connections, endedBy>>

TimePasses ==
    /\ tick = "idle"
    /\ m_connectionStatus = "CONNECTED" => ticked
    /\ m_connectionStatus = "CONNECTED" /\ answering => unanswered < AnswerTime
    /\ ticked' = FALSE
    /\ sinceLastPing' = Older(sinceLastPing)
    /\ sinceControlPacket' = Older(sinceControlPacket)
    /\ silence' = IF m_connectionStatus = "CONNECTED" THEN Older(silence) ELSE silence
    /\ unanswered' = IF unanswered = NoPing THEN NoPing ELSE Older(unanswered)
    /\ UNCHANGED <<m_connectionStatus, serverKeepAlive, pingInterval, awaitingPingResponse,
                   sendVars, tick, keepAliveInForce, answering, responses, connections, endedBy>>

Next ==
    \/ Connect \/ ConnectionLost \/ Redirected \/ Reconnected \/ ReconnectFails \/ AppSends \/ Tick
    \/ BrokerAnswers \/ BrokerFallsSilent \/ TimePasses

Spec == Init /\ [][Next]_vars

\* Ticks are made at regular times, and time passes however many there are.
FairSpec == Spec /\ WF_vars(Tick) /\ SF_vars(TimePasses)

-----------------------------------------------------------------------------

Ages == 0 .. Forever

FlagsOK ==
    /\ awaitingPingResponse \in BOOLEAN /\ controlPacketSent \in BOOLEAN
    /\ ticked \in BOOLEAN /\ answering \in BOOLEAN /\ responses \in BOOLEAN

TypeOK ==
    /\ FlagsOK
    /\ m_connectionStatus \in {"DISCONNECTED", "CONNECTED", "RECONNECTING"}
    /\ serverKeepAlive \in 0 .. Wrap - 1 /\ pingInterval \in Nat /\ keepAliveInForce \in Nat
    /\ sinceLastPing \in Ages /\ sinceControlPacket \in Ages /\ silence \in Ages
    /\ unanswered \in Ages \union {NoPing}
    /\ queue \in [pings : 0 .. MaxPings, others : BOOLEAN]
    /\ buffered \in 0 .. MaxPings /\ blocked \in 0 .. MaxBlocked
    /\ tick \in {"idle", "receive", "check"}
    /\ connections \in Nat
    /\ endedBy \in {"nothing", "loss", "ping"}

\* "Failed ping: Did not receive PingResp packet." (MqttClientImpl.cpp:1287): the
\* client gives up a connection only when its broker has fallen silent.
HealthyBrokerKept ==
    endedBy = "ping" => ~answering \/ m_connectionStatus # "DISCONNECTED"

\* A broker may end a connection on which it has heard nothing for one and a half
\* times the keep alive time: the pings prevent it, whatever interval the 16 bits
\* of serverKeepAlive leave.
NotCutOff ==
    m_connectionStatus = "CONNECTED" /\ keepAliveInForce # 0 =>
        2 * silence <= 3 * (keepAliveInForce * MsPerSec)

\* A broker that falls silent is noticed, and the connection is given up.
SilenceNoticed ==
    m_connectionStatus = "CONNECTED" /\ ~answering ~> m_connectionStatus = "DISCONNECTED"
-----------------------------------------------------------------------------
(* The inductive invariants behind HealthyBrokerKept and NotCutOff.         *)

\* A ping that is awaited has been answered, or is not older than the oldest one
\* the broker still owes an answer to.  An answer that waits is read before the
\* clock is looked at.
AnswerInv ==
    /\ m_connectionStatus # "CONNECTED" => ~awaitingPingResponse
    /\ m_connectionStatus = "CONNECTED" /\ answering => unanswered <= AnswerTime
    /\ m_connectionStatus = "CONNECTED" /\ answering /\ awaitingPingResponse =>
        \/ unanswered # NoPing /\ sinceLastPing <= unanswered
        \/ responses /\ sinceLastPing <= AnswerTime
        \/ /\ responses /\ sinceLastPing <= AnswerTime + 1
           /\ ~ticked /\ tick \in {"idle", "receive"}
    /\ HealthyBrokerKept

\* While nothing is refused, this much time passes at most between two packets.
LongestGap == IF pingInterval > PingTimeOut THEN pingInterval ELSE PingTimeOut + 1

\* A gap leaves room for the keep alive time, refused sends included.
GapAllowed(interval, inForce) ==
    inForce # 0 =>
        /\ 2 * (interval + MaxBlocked + 1) <= 3 * (inForce * MsPerSec)
        /\ 2 * (PingTimeOut + MaxBlocked + 2) <= 3 * (inForce * MsPerSec)

\* Every keep alive time in force has room for refused sends, for the time-out of
\* a ping, and for the default interval where the 16 bits leave 0.
RoomForPings ==
    \A keepAliveInSec \in KeepAlives, property \in ServerKeepAlives :
        LET inForce == InForceOf(keepAliveInSec, property) IN
        inForce # 0 =>
            /\ 2 * (MaxBlocked + 1) <= inForce * MsPerSec
            /\ 2 * (PingTimeOut + MaxBlocked + 2) <= 3 * (inForce * MsPerSec)
            /\ ServerKeepAliveOf(keepAliveInSec, property) = 0 =>
                   2 * (DefaultPingInterval + MaxBlocked + 1) <= 3 * (inForce * MsPerSec)

\* Once a ping is due it is queued at every tick, so that after a unit of time
\* either it is sent or one more send has been refused.
SilenceInv ==
    /\ silence <= sinceLastPing
    /\ m_connectionStatus = "CONNECTED" =>
        /\ GapAllowed(pingInterval, keepAliveInForce)
        /\ tick # "idle" => silence <= LongestGap + blocked
        /\ tick = "idle" /\ ticked =>
            \/ silence < LongestGap + blocked
            \/ queue.pings > 0 /\ silence <= LongestGap + blocked
        /\ tick = "idle" /\ ~ticked =>
            \/ silence <= LongestGap + blocked
            \/ queue.pings > 0 /\ silence <= LongestGap + blocked + 1
=============================================================================
