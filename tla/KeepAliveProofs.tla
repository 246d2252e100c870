--------------------------- MODULE KeepAliveProofs ---------------------------
(***************************************************************************)
(* For every value of the constants: the variables of KeepAlive keep their *)
(* types; a client that is not moved while it awaits a PINGRESP does not   *)
(* give up a broker that answers in time; and a client that always pings   *)
(* is heard of in time by every broker whose keep alive time has room for  *)
(* the time-out of a ping, although the interval wraps around in 16 bits.  *)
(***************************************************************************)
EXTENDS KeepAlive, TLAPS

\* What the CONNACK leaves in serverKeepAlive fits its 16 bits.
LEMMA ServerKeepAliveType ==
    ASSUME NEW k \in KeepAlives, NEW p \in ServerKeepAlives
    PROVE  ServerKeepAliveOf(k, p) \in 0 .. Wrap - 1
<1>1. CASE p # NoProperty
    BY <1>1, KeepAliveAssumption DEF ServerKeepAliveOf
<1>2. CASE p = NoProperty
  <2> DEFINE ms == k * MsPerSec
  <2>1. ms \in Nat
      BY KeepAliveAssumption, SMT
  <2>2. ms % Wrap \in 0 .. Wrap - 1
    <3> HIDE DEF ms
    <3> QED
        BY <2>1, KeepAliveAssumption, SMT
  <2> QED
      BY <1>2, <2>2 DEF ServerKeepAliveOf
<1> QED
    BY <1>1, <1>2

\* The ages and the number of pings in the queue stay in their ranges.
LEMMA OlderType == ASSUME NEW age \in Ages PROVE Older(age) \in Ages
BY KeepAliveAssumption, SMT DEF Older, Ages

\* One ping more stays within the bound.
LEMMA OneMorePingType ==
    ASSUME NEW n \in 0 .. MaxPings PROVE OneMorePing(n) \in 1 .. MaxPings
BY KeepAliveAssumption, SMT DEF OneMorePing

-----------------------------------------------------------------------------
(* Types.                                                                   *)

\* The initial state is typed.
LEMMA InitTypeOK == Init => TypeOK
<1> SUFFICES ASSUME Init PROVE TypeOK
    OBVIOUS
<1>1. FlagsOK
    BY Zenon DEF Init, FlagsOK, EmptyQueue
<1> QED
    BY <1>1, KeepAliveAssumption, SMT DEF Init, TypeOK, Ages, EmptyQueue, NoPing

\* The flags stay flags, whatever the step.
LEMMA NextFlagsOK == TypeOK /\ [Next]_vars => FlagsOK'
<1> SUFFICES ASSUME TypeOK, [Next]_vars PROVE FlagsOK'
    OBVIOUS
<1>1. FlagsOK
    BY DEF TypeOK
<1>2. CASE Connect
    BY <1>1, <1>2, Zenon DEF FlagsOK, Connect, Accepted, EmptyQueue, tickVars
<1>3. CASE Reconnected
    BY <1>1, <1>3, Zenon DEF FlagsOK, Reconnected, Accepted, tickVars
<1>4. CASE ConnectionLost
    BY <1>1, <1>4, Zenon DEF FlagsOK, ConnectionLost, Disconnects, Clear, EmptyQueue, brokerVars, tickVars
<1>30. CASE ReconnectFails
    BY <1>1, <1>30, Zenon DEF FlagsOK, ReconnectFails, infoVars, brokerVars, tickVars
<1>5. CASE Redirected
    BY <1>1, <1>5, Zenon DEF FlagsOK, Redirected, infoVars, sendVars, brokerVars
<1>6. CASE AppSends
    BY <1>1, <1>6, Zenon DEF FlagsOK, AppSends, infoVars, brokerVars, tickVars
<1>7. CASE TickSendPackets
  <2>1. awaitingPingResponse' \in BOOLEAN /\ controlPacketSent' \in BOOLEAN
        /\ answering' = answering
      BY <1>1, <1>7, Zenon DEF FlagsOK, TickSendPackets, SendBatch, PingSent, sendVars, brokerVars
  <2> QED
      BY <1>1, <1>7, <2>1, Zenon DEF FlagsOK, TickSendPackets
<1>8. CASE TickReceivePackets
    BY <1>1, <1>8, Zenon DEF FlagsOK, TickReceivePackets, sendVars, brokerVars
<1>9. CASE TickCheckKeepAlive
    BY <1>1, <1>9, Zenon DEF FlagsOK, TickCheckKeepAlive, Disconnects, Clear, infoVars, brokerVars
<1>10. CASE BrokerAnswers
    BY <1>1, <1>10, Zenon DEF FlagsOK, BrokerAnswers, infoVars, sendVars, tickVars
<1>11. CASE BrokerFallsSilent
    BY <1>1, <1>11, Zenon DEF FlagsOK, BrokerFallsSilent, infoVars, sendVars, tickVars
<1>12. CASE TimePasses
    BY <1>1, <1>12, Zenon DEF FlagsOK, TimePasses, sendVars
<1>13. CASE UNCHANGED vars
    BY <1>1, <1>13, Zenon DEF FlagsOK, vars, infoVars, sendVars, brokerVars, tickVars
<1> QED
    BY <1>30, <1>2, <1>3, <1>4, <1>5, <1>6, <1>7, <1>8, <1>9, <1>10, <1>11, <1>12, <1>13
       DEF Next, Tick

\* Every step keeps the types.
LEMMA NextTypeOK == TypeOK /\ [Next]_vars => TypeOK'
<1> SUFFICES ASSUME TypeOK, [Next]_vars PROVE TypeOK'
    OBVIOUS
<1> USE KeepAliveAssumption
<1>0. FlagsOK'
    BY NextFlagsOK
<1>1. ASSUME Accepted
      PROVE  /\ m_connectionStatus' = "CONNECTED"
             /\ serverKeepAlive' \in 0 .. Wrap - 1 /\ pingInterval' \in Nat
             /\ sinceControlPacket' \in Ages /\ silence' \in Ages
             /\ keepAliveInForce' \in Nat
             /\ unanswered' \in Ages \union {NoPing}
             /\ buffered' \in 0 .. MaxPings /\ blocked' \in 0 .. MaxBlocked
             /\ connections' = connections + 1
    BY <1>1, ServerKeepAliveType, SMT DEF Accepted, PingIntervalOf, InForceOf, Ages
<1>2. CASE Connect
    BY <1>0, <1>1, <1>2, SMT DEF Connect, TypeOK, EmptyQueue, tickVars
<1>3. CASE Reconnected
    BY <1>0, <1>1, <1>3, SMT DEF Reconnected, TypeOK, tickVars
<1>4. CASE ConnectionLost
    BY <1>0, <1>4, SMT DEF ConnectionLost, Disconnects, Clear, TypeOK, EmptyQueue, brokerVars, tickVars, Ages
<1>30. CASE ReconnectFails
    BY <1>0, <1>30, SMT DEF ReconnectFails, TypeOK, EmptyQueue, infoVars, brokerVars, tickVars
<1>5. CASE Redirected
    BY <1>0, <1>5, SMT DEF Redirected, TypeOK, infoVars, sendVars, brokerVars
<1>6. CASE AppSends
  <2>1. queue' \in [pings : 0 .. MaxPings, others : BOOLEAN]
      BY <1>6 DEF AppSends, TypeOK
  <2> QED
      BY <1>0, <1>6, <2>1, Zenon DEF AppSends, TypeOK, infoVars, brokerVars, tickVars, Ages
<1>7. CASE TickSendPackets
  <2> DEFINE Queues == [pings : 0 .. MaxPings, others : BOOLEAN]
  <2>1. EmptyQueue \in Queues
      BY SMT DEF EmptyQueue
  <2>2. /\ queue' \in Queues /\ keepAliveInForce' = keepAliveInForce
        /\ sinceLastPing' \in Ages /\ silence' \in Ages
        /\ unanswered' \in Ages \union {NoPing}
    <3>1. 0 \in Ages
        BY SMT DEF Ages
    <3> QED
        BY <1>7, <2>1, <3>1, Zenon
           DEF TickSendPackets, SendBatch, PingSent, TypeOK, sendVars, brokerVars
  <2>3. buffered' \in 0 .. MaxPings /\ blocked' \in 0 .. MaxBlocked
    <3>1. buffered' \in {buffered, 0, OneMorePing(buffered)}
        BY <1>7 DEF TickSendPackets, SendBatch, sendVars
    <3>2. \/ blocked' \in {blocked, 0}
          \/ blocked < MaxBlocked /\ blocked' = blocked + 1
        BY <1>7 DEF TickSendPackets, SendBatch, sendVars
    <3> QED
        BY <3>1, <3>2, OneMorePingType, SMT DEF TypeOK
  <2>4. sinceControlPacket' \in Ages
      BY <1>7, SMT DEF TickSendPackets, TypeOK, Ages
  <2> QED
      BY <1>0, <1>7, <2>2, <2>3, <2>4, Zenon DEF TickSendPackets, TypeOK
<1>8. CASE TickReceivePackets
    BY <1>0, <1>8, SMT DEF TickReceivePackets, TypeOK, sendVars, brokerVars
<1>9. CASE TickCheckKeepAlive
  <2>1. CASE Disconnects("ping")
      BY <1>0, <1>9, <2>1, SMT
         DEF TickCheckKeepAlive, Disconnects, Clear, TypeOK, EmptyQueue, brokerVars, Ages
  <2>2. CASE ~Disconnects("ping")
    <3>1. \/ queue' = queue
          \/ queue' = [queue EXCEPT !.pings = OneMorePing(queue.pings)]
        BY <1>9, <2>2 DEF TickCheckKeepAlive
    <3>2. queue' \in [pings : 0 .. MaxPings, others : BOOLEAN]
      <4>1. queue.pings \in 0 .. MaxPings /\ OneMorePing(queue.pings) \in 0 .. MaxPings
          BY OneMorePingType, SMT DEF TypeOK
      <4> QED
          BY <3>1, <4>1 DEF TypeOK
    <3>3. UNCHANGED <<m_connectionStatus, infoVars, endedBy>>
        BY <1>9, <2>2, Zenon DEF TickCheckKeepAlive
    <3> QED
        BY <1>0, <1>9, <3>2, <3>3, Zenon DEF TickCheckKeepAlive, TypeOK, infoVars, brokerVars
  <2> QED
      BY <2>1, <2>2
<1>10. CASE BrokerAnswers
    BY <1>0, <1>10, SMT DEF BrokerAnswers, TypeOK, infoVars, sendVars, tickVars
<1>11. CASE BrokerFallsSilent
    BY <1>0, <1>11, SMT DEF BrokerFallsSilent, TypeOK, infoVars, sendVars, tickVars
<1>12. CASE TimePasses
  <2>1. sinceLastPing' \in Ages /\ sinceControlPacket' \in Ages /\ silence' \in Ages
      BY <1>12, OlderType DEF TimePasses, TypeOK
  <2>2. unanswered' \in Ages \union {NoPing}
      BY <1>12, OlderType DEF TimePasses, TypeOK
  <2> QED
      BY <1>0, <1>12, <2>1, <2>2 DEF TimePasses, TypeOK, sendVars
<1>13. CASE UNCHANGED vars
    BY <1>0, <1>13 DEF vars, infoVars, sendVars, brokerVars, tickVars, TypeOK, Ages
<1> QED
    BY <1>30, <1>2, <1>3, <1>4, <1>5, <1>6, <1>7, <1>8, <1>9, <1>10, <1>11, <1>12, <1>13
       DEF Next, Tick

\* Every variable keeps its type, serverKeepAlive its 16 bits.
THEOREM KeepAliveTypeCorrect == Spec => []TypeOK
<1>1. Init => TypeOK
    BY InitTypeOK
<1>2. TypeOK /\ [Next]_vars => TypeOK'
    BY NextTypeOK
<1> QED
    BY <1>1, <1>2, PTL DEF Spec
-----------------------------------------------------------------------------
(* A broker that answers is kept.                                           *)

\* AnswerInv holds at first.
LEMMA InitAnswerInv == Init => AnswerInv
BY Zenon DEF Init, AnswerInv, HealthyBrokerKept

\* A client that is not moved while it awaits a PINGRESP, and whose time-out
\* covers the broker's AnswerTime, preserves it.
LEMMA NextAnswerInv ==
    ASSUME AnswerTime <= PingTimeOut, ~RedirectWhileAwaiting,
           TypeOK, AnswerInv, [Next]_vars
    PROVE  AnswerInv'
<1> USE KeepAliveAssumption DEF NoPing
<1>1. ASSUME Accepted, UNCHANGED <<awaitingPingResponse, endedBy>>,
             m_connectionStatus # "CONNECTED"
      PROVE  AnswerInv'
  <2>1. ~awaitingPingResponse'
      BY <1>1 DEF AnswerInv
  <2> QED
      BY <1>1, <2>1, SMT DEF Accepted, AnswerInv, HealthyBrokerKept
<1>2. CASE Connect
    BY <1>1, <1>2 DEF Connect
<1>3. CASE Reconnected
    BY <1>1, <1>3 DEF Reconnected
<1>4. CASE ConnectionLost
    BY <1>4 DEF ConnectionLost, Disconnects, Clear, AnswerInv, HealthyBrokerKept
<1>30. CASE ReconnectFails
    BY <1>30 DEF ReconnectFails, infoVars, brokerVars, AnswerInv, HealthyBrokerKept
<1>5. CASE Redirected
    BY <1>5 DEF Redirected, infoVars, brokerVars, AnswerInv, HealthyBrokerKept
<1>6. CASE AppSends
    BY <1>6 DEF AppSends, infoVars, brokerVars, tickVars, AnswerInv, HealthyBrokerKept
<1>7. CASE TickSendPackets
    BY <1>7 DEF TickSendPackets, SendBatch, PingSent, sendVars, brokerVars, AnswerInv, HealthyBrokerKept, TypeOK, Ages
<1>8. CASE TickReceivePackets
    BY <1>8 DEF TickReceivePackets, brokerVars, AnswerInv, HealthyBrokerKept
<1>9. CASE TickCheckKeepAlive
    BY <1>9 DEF TickCheckKeepAlive, Disconnects, Clear, infoVars, brokerVars, AnswerInv, HealthyBrokerKept, Pinging, PingTimedOut, TypeOK, Ages
<1>10. CASE BrokerAnswers
    BY <1>10 DEF BrokerAnswers, infoVars, tickVars, AnswerInv, HealthyBrokerKept, TypeOK, Ages
<1>11. CASE BrokerFallsSilent
    BY <1>11 DEF BrokerFallsSilent, infoVars, tickVars, AnswerInv, HealthyBrokerKept
<1>12. CASE TimePasses
    BY <1>12 DEF TimePasses, AnswerInv, HealthyBrokerKept, Older, TypeOK, Ages
<1>13. CASE UNCHANGED vars
    BY <1>13 DEF vars, infoVars, brokerVars, tickVars, AnswerInv, HealthyBrokerKept
<1> QED
    BY <1>30, <1>2, <1>3, <1>4, <1>5, <1>6, <1>7, <1>8, <1>9, <1>10, <1>11, <1>12, <1>13
       DEF Next, Tick

\* "Failed ping: Did not receive PingResp packet." (MqttClientImpl.cpp:1287): no
\* client gives up a broker that answers every ping within the time-out, unless
\* it may be moved to another server while it awaits a PINGRESP.
THEOREM KeepAliveKeepsHealthyBroker ==
    ASSUME AnswerTime <= PingTimeOut, ~RedirectWhileAwaiting
    PROVE  Spec => []HealthyBrokerKept
<1>1. Init => TypeOK /\ AnswerInv
    BY InitTypeOK, InitAnswerInv
<1>2. TypeOK /\ AnswerInv /\ [Next]_vars => (TypeOK /\ AnswerInv)'
    BY NextTypeOK, NextAnswerInv
<1>3. AnswerInv => HealthyBrokerKept
    BY DEF AnswerInv
<1> QED
    BY <1>1, <1>2, <1>3, PTL DEF Spec
-----------------------------------------------------------------------------
(* The broker hears of the client in time.                                  *)

\* The interval may wrap around, but never to more than the keep alive time.
LEMMA IntervalAllowed ==
    ASSUME RoomForPings, NEW k \in KeepAlives, NEW p \in ServerKeepAlives
    PROVE  GapAllowed(PingIntervalOf(ServerKeepAliveOf(k, p)), InForceOf(k, p))
<1> USE KeepAliveAssumption
<1> DEFINE inForce == InForceOf(k, p)
           ms == inForce * MsPerSec
           stored == ServerKeepAliveOf(k, p)
<1> SUFFICES ASSUME inForce # 0
             PROVE  /\ 2 * (PingIntervalOf(stored) + MaxBlocked + 1) <= 3 * ms
                    /\ 2 * (PingTimeOut + MaxBlocked + 2) <= 3 * ms
    BY DEF GapAllowed
<1>1. /\ 2 * (MaxBlocked + 1) <= ms
      /\ 2 * (PingTimeOut + MaxBlocked + 2) <= 3 * ms
      /\ stored = 0 => 2 * (DefaultPingInterval + MaxBlocked + 1) <= 3 * ms
    BY DEF RoomForPings
<1>2. inForce \in Nat
    BY SMT DEF InForceOf
<1>3. ms \in Nat /\ inForce <= ms
  <2> HIDE DEF inForce
  <2> QED
      BY <1>2, SMT
<1>4. stored \in Nat
    BY ServerKeepAliveType, SMT
<1>5. stored <= ms
  <2>1. CASE p # NoProperty
      BY <2>1, <1>3 DEF ServerKeepAliveOf, InForceOf
  <2>2. CASE p = NoProperty
    <3>1. stored = ms % Wrap
        BY <2>2 DEF ServerKeepAliveOf, InForceOf
    <3>2. \A n \in Nat : n % Wrap <= n
        BY SMT
    <3> QED
        BY <1>3, <3>1, <3>2
  <2> QED
      BY <2>1, <2>2
<1>6. \/ PingIntervalOf(stored) = stored
      \/ stored = 0 /\ PingIntervalOf(stored) = DefaultPingInterval
    BY DEF PingIntervalOf
<1> QED
  <2> HIDE DEF ms, stored
  <2> QED
      BY <1>1, <1>3, <1>4, <1>5, <1>6, SMT

\* The strengthened invariant holds initially.
LEMMA InitSilenceInv == Init => SilenceInv
BY KeepAliveAssumption, SMT DEF Init, SilenceInv

\* A client that always pings preserves it.
LEMMA NextSilenceInv ==
    ASSUME PingAlways, RoomForPings, TypeOK, SilenceInv, [Next]_vars
    PROVE  SilenceInv'
<1> USE KeepAliveAssumption
<1>1. ASSUME Accepted, sinceLastPing' = sinceLastPing, tick' = "idle"
      PROVE  SilenceInv'
  <2>1. GapAllowed(pingInterval', keepAliveInForce')
      BY <1>1, IntervalAllowed DEF Accepted
  <2>2. pingInterval' \in Nat /\ silence' = 0 /\ blocked' = 0
      BY <1>1, ServerKeepAliveType, SMT DEF Accepted, PingIntervalOf
  <2>3. silence' <= sinceLastPing'
      BY <1>1, <2>2, SMT DEF TypeOK, Ages
  <2>4. PICK gap \in Nat : gap > 0 /\ LongestGap' = gap
    <3>1. LongestGap' \in Nat /\ LongestGap' > 0
        BY <2>2, SMT DEF LongestGap
    <3> QED
        BY <3>1, Zenon
  <2>5. silence' < gap + blocked' /\ silence' <= gap + blocked'
      BY <2>2, <2>4, SMT
  <2> QED
      BY <1>1, <2>1, <2>3, <2>4, <2>5, Zenon DEF SilenceInv
<1>2. CASE Connect
    BY <1>1, <1>2 DEF Connect, tickVars
<1>3. CASE Reconnected
    BY <1>1, <1>3 DEF Reconnected, tickVars
<1>4. CASE ConnectionLost
    BY <1>4, SMT DEF ConnectionLost, Disconnects, Clear, brokerVars, SilenceInv, TypeOK, Ages
<1>30. CASE ReconnectFails
    BY <1>30, SMT DEF ReconnectFails, infoVars, brokerVars, SilenceInv
<1>5. CASE Redirected
    BY <1>5, SMT DEF Redirected, infoVars, brokerVars, SilenceInv
<1> DEFINE Inert == UNCHANGED <<m_connectionStatus, pingInterval, sinceLastPing, blocked,
                                keepAliveInForce, silence>>
<1>6. ASSUME Inert, UNCHANGED <<tickVars, queue>> PROVE SilenceInv'
    BY <1>6 DEF SilenceInv, LongestGap, tickVars
<1>7. CASE AppSends
  <2>1. queue'.pings = queue.pings
      BY <1>7, SMT DEF AppSends, TypeOK
  <2> QED
      BY <1>7, <2>1 DEF AppSends, SilenceInv, LongestGap, infoVars, brokerVars, tickVars
<1>8. CASE TickSendPackets
  <2>1. UNCHANGED <<pingInterval, keepAliveInForce>> /\ tick' = "receive"
      BY <1>8 DEF TickSendPackets, SendBatch, brokerVars
  <2>2. LongestGap' = LongestGap /\ LongestGap \in Nat
      BY <2>1, SMT DEF LongestGap, TypeOK
  <2>3. silence' <= sinceLastPing'
      BY <1>8, SMT DEF TickSendPackets, SendBatch, PingSent, brokerVars, SilenceInv, TypeOK, Ages
  <2>4. silence' <= LongestGap + blocked'
    <3>1. CASE queue = EmptyQueue
      <4>1. silence' = silence /\ blocked' = blocked /\ queue.pings = 0
          BY <1>8, <3>1, SMT DEF TickSendPackets, SendBatch, sendVars, brokerVars, EmptyQueue
      <4> QED
          BY <1>8, <2>2, <4>1, SMT DEF TickSendPackets, SilenceInv, TypeOK, Ages
    <3>2. CASE queue # EmptyQueue
      <4>1. \/ silence' = 0 /\ blocked' = 0
            \/ silence' = silence /\ blocked' = blocked + 1
          BY <1>8, <3>2 DEF TickSendPackets, SendBatch, brokerVars
      <4> QED
          BY <1>8, <2>2, <4>1, SMT DEF TickSendPackets, SilenceInv, TypeOK, Ages
    <3> QED
        BY <3>1, <3>2
  <2> QED
      BY <1>8, <2>1, <2>2, <2>3, <2>4, SMT DEF TickSendPackets, SilenceInv
<1>9. CASE TickReceivePackets
    BY <1>9, SMT DEF TickReceivePackets, sendVars, brokerVars, SilenceInv, LongestGap
<1>10. CASE TickCheckKeepAlive
  <2>1. CASE Disconnects("ping")
      BY <1>10, <2>1, SMT
         DEF TickCheckKeepAlive, Disconnects, Clear, brokerVars, SilenceInv, TypeOK, Ages
  <2>2. CASE ~Disconnects("ping")
    <3>1. /\ ~(Pinging /\ PingTimedOut)
          /\ UNCHANGED <<m_connectionStatus, infoVars, blocked, brokerVars>>
          /\ queue' = IF Pinging /\ PingDue
                      THEN [queue EXCEPT !.pings = OneMorePing(@)] ELSE queue
          /\ tick = "check" /\ tick' = "idle" /\ ticked' = TRUE
        BY <1>10, <2>2, Zenon DEF TickCheckKeepAlive
    <3> SUFFICES ASSUME m_connectionStatus = "CONNECTED"
                 PROVE  \/ silence < LongestGap + blocked
                        \/ queue'.pings > 0 /\ silence <= LongestGap + blocked
        BY <3>1 DEF SilenceInv, LongestGap, infoVars, brokerVars
    <3>2. Pinging
        BY DEF Pinging
    <3>3. silence <= LongestGap + blocked /\ silence <= sinceLastPing
        BY <3>1 DEF SilenceInv
    <3>4. CASE PingDue
      <4>1. queue'.pings = OneMorePing(queue.pings)
          BY <3>1, <3>2, <3>4, SMT DEF TypeOK
      <4>2. OneMorePing(queue.pings) > 0
          BY SMT DEF OneMorePing, TypeOK
      <4> QED
          BY <3>3, <4>1, <4>2
    <3>5. CASE awaitingPingResponse
      <4>1. ~(sinceLastPing > PingTimeOut)
          BY <3>1, <3>2, <3>5 DEF PingTimedOut
      <4> QED
          BY <3>3, <4>1, SMT DEF LongestGap, TypeOK, Ages
    <3>6. CASE ~PingDue /\ ~awaitingPingResponse
      <4>1. ~(sinceLastPing >= pingInterval)
          BY <3>6 DEF PingDue
      <4> QED
          BY <3>3, <4>1, SMT DEF LongestGap, TypeOK, Ages
    <3> QED
        BY <3>4, <3>5, <3>6
  <2> QED
      BY <2>1, <2>2
<1>11. CASE BrokerAnswers
    BY <1>6, <1>11 DEF BrokerAnswers, infoVars, sendVars
<1>12. CASE BrokerFallsSilent
    BY <1>6, <1>12 DEF BrokerFallsSilent, infoVars, sendVars
<1>13. CASE TimePasses
    BY <1>13, SMT DEF TimePasses, Older, sendVars, SilenceInv, LongestGap, TypeOK, Ages
<1>14. CASE UNCHANGED vars
    BY <1>6, <1>14 DEF vars, infoVars, sendVars, brokerVars, tickVars
<1> QED
    BY <1>30, <1>2, <1>3, <1>4, <1>5, <1>7, <1>8, <1>9, <1>10, <1>11, <1>12, <1>13, <1>14
       DEF Next, Tick

\* Whatever 16 bits leave of the interval, and however often a send is refused up
\* to the bound, the broker hears of a client that always pings within one and a
\* half times the keep alive time.
THEOREM KeepAliveNotCutOff ==
    ASSUME PingAlways, RoomForPings
    PROVE  Spec => []NotCutOff
<1>1. Init => TypeOK /\ SilenceInv
    BY InitTypeOK, InitSilenceInv
<1>2. TypeOK /\ SilenceInv /\ [Next]_vars => (TypeOK /\ SilenceInv)'
    BY NextTypeOK, NextSilenceInv
<1>3. TypeOK /\ SilenceInv => NotCutOff
  <2> DEFINE allowed == 3 * (keepAliveInForce * MsPerSec)
  <2> SUFFICES ASSUME TypeOK, SilenceInv, m_connectionStatus = "CONNECTED", keepAliveInForce # 0
               PROVE  2 * silence <= allowed
      BY DEF NotCutOff
  <2>1. /\ 2 * (pingInterval + MaxBlocked + 1) <= allowed
        /\ 2 * (PingTimeOut + MaxBlocked + 2) <= allowed
      BY DEF SilenceInv, GapAllowed
  <2>2. LongestGap \in {pingInterval, PingTimeOut + 1}
      BY DEF LongestGap
  <2>3. silence <= LongestGap + blocked + 1
      BY <2>2, KeepAliveAssumption, SMT DEF SilenceInv, TypeOK, Ages
  <2>4. 2 * silence <= 2 * (LongestGap + MaxBlocked + 1)
      BY <2>2, <2>3, KeepAliveAssumption, SMT DEF TypeOK, Ages
  <2>5. allowed \in Int
      BY KeepAliveAssumption, SMT DEF TypeOK
  <2> QED
    <3> HIDE DEF allowed
    <3> QED
        BY <2>1, <2>2, <2>4, <2>5, KeepAliveAssumption, SMT DEF TypeOK, Ages
<1> QED
    BY <1>1, <1>2, <1>3, PTL DEF Spec
=============================================================================
