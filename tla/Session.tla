------------------------------- MODULE Session -------------------------------
(***************************************************************************)
(* The delivery of QoS 1 and 2 publishes in both directions: the session   *)
(* state (State/SessionState), the packet identifiers, and the handlers of *)
(* MqttClientImpl.cpp for PUBLISH, PUBACK, PUBREC, PUBREL and PUBCOMP,     *)
(* with a broker that follows the protocol.                                *)
(*                                                                         *)
(* A tick sends what is queued, handles what has arrived and queues the    *)
(* retries that are due.  The connection is in order and loses nothing     *)
(* until it breaks; then the packets on their way are gone and a new one   *)
(* resumes the session or starts a clean one.  Each batch is taken whole   *)
(* by the socket (SendQueue shows the partial sends), a publish() is one   *)
(* step (Connection shows its race with a disconnect), and asserts are     *)
(* compiled out.  A message is a number, 0 the empty one that stands in    *)
(* the session for a publish of the broker.                                *)
(***************************************************************************)
EXTENDS Naturals, Sequences, SequencesExt, FiniteSets, ReceiveMaximumTracker

CONSTANTS
    PublishQos,         \* what the application publishes with
    IncomingQos,        \* what the broker publishes with
    BrokerIds,          \* the identifiers the broker uses for its publishes
    ReceiveMaximum,     \* of either side
    RetryInterval,      \* retryPublishIntervalMS, in units of TimePasses
    Slow,               \* answers may take longer than that
    Resume,             \* what a new connection says of the session: present or not
    MayRefuse,          \* the broker may refuse a publish
    PublishLate,        \* the application goes on publishing after a connection was
                        \* lost or an answer was late
    MaxPublishes,       \* bound: publishes of the application
    MaxIncoming,        \* bound: publishes of the broker
    MaxLosses,          \* bound: connections lost
    MaxInFlight         \* bound: packets queued and on the way at which a tick
                        \* waits for the broker to read

ASSUME SessionAssumption ==
    /\ PublishQos \union IncomingQos \subseteq 0 .. 2
    /\ BrokerIds \subseteq Nat \ {0}
    /\ ReceiveMaximum \in Nat \ {0}
    /\ {Slow, MayRefuse, PublishLate} \union Resume \subseteq BOOLEAN
    /\ {RetryInterval, MaxPublishes, MaxIncoming, MaxLosses, MaxInFlight} \subseteq Nat

VARIABLES
    m_packetIdPool,
    m_messages,         \* MessageContainer: the list, each entry with the message, its
                        \* status, the time to nextRetryTime and whether the map finds it
    m_sendQueue, delayed,   \* composers queued, and those set aside by the batch
    m_receiveMaximumTracker,
    connected,
    tick,               \* idle, send, receive or retry, or crashed when updateMessage
                        \* dereferenced a null pointer
    toBroker, toClient, \* the packets on their way
    broker              \* the QoS 2 identifiers received and not released, and its
                        \* own publishes that are not complete

\* History: the application's publishes (QoS and identifier), how often each
\* reached the broker, those the application was told are complete or refused;
\* the broker's publishes, how often each reached the application, those that
\* are complete for the broker; whether the client cut the broker off for
\* exceeding the Receive Maximum; connections lost.
VARIABLES published, ids, delivered, completed, refused,
          sent, received, settled, cutOff, losses

queueVars == <<m_sendQueue, delayed>>
wireVars == <<toBroker, toClient>>
clientVars == <<m_packetIdPool, m_messages, m_receiveMaximumTracker, connected>>
outgoingVars == <<published, ids, delivered, completed, refused>>
incomingVars == <<sent, received, settled>>
lossVars == <<cutOff, losses>>
vars == <<clientVars, queueVars, tick, wireVars, broker, outgoingVars, incomingVars, lossVars>>

NewBroker == [received |-> {}, outbound |-> {}]

Init ==
    /\ m_packetIdPool = [m_nextId |-> 1, m_availableIds |-> <<>>]
    /\ m_messages = <<>> /\ m_sendQueue = <<>> /\ delayed = <<>>
    /\ m_receiveMaximumTracker = NewTracker(ReceiveMaximum, ReceiveMaximum)
    /\ connected = TRUE /\ tick = "idle"
    /\ toBroker = <<>> /\ toClient = <<>> /\ broker = NewBroker
    /\ published = <<>> /\ ids = <<>>
    /\ delivered = [n \in 0 .. MaxPublishes |-> 0]
    /\ completed = {} /\ refused = {}
    /\ sent = <<>> /\ received = [n \in 1 .. MaxIncoming |-> 0] /\ settled = {}
    /\ cutOff = FALSE /\ losses = 0

-----------------------------------------------------------------------------
(* The identifiers and the messages of the session.                         *)

NextId(pool) ==
    IF pool.m_availableIds # <<>> THEN Head(pool.m_availableIds) ELSE pool.m_nextId

AfterGetId(pool) ==
    IF pool.m_availableIds # <<>> THEN [pool EXCEPT !.m_availableIds = Tail(@)]
                                  ELSE [pool EXCEPT !.m_nextId = @ + 1]

UsedIds(pool) == (1 .. pool.m_nextId - 1) \ ToSet(pool.m_availableIds)

\* Mutant: the test of the bit is dropped.
ReleaseIdUntested(pool, id) == [pool EXCEPT !.m_availableIds = <<id>> \o @]

ReleaseId(pool, id) ==
    IF id \in UsedIds(pool) THEN [pool EXCEPT !.m_availableIds = <<id>> \o @] ELSE pool

\* The constructor of MessageContainerData: the status follows from the QoS.
NewMessage(id, n, qos, retryIn) ==
    [id |-> id, n |-> n, qos |-> qos, retryIn |-> retryIn, mapped |-> TRUE,
     status |-> IF qos = 1 THEN "WaitingForAck" ELSE "WaitingForPubRec"]

IsMessage(m, id) == m.mapped /\ m.id = id
InSession(ms, id) == \E i \in DOMAIN ms : IsMessage(ms[i], id)

\* The map forgets an earlier message with the same identifier, the list does not.
PushMessage(ms, m) ==
    Append([i \in DOMAIN ms |-> IF IsMessage(ms[i], m.id) THEN [ms[i] EXCEPT !.mapped = FALSE]
                                                          ELSE ms[i]], m)

\* Mutant: the message stays in the session.
EraseMessageForgotten(ms, id) == ms

EraseMessage(ms, id) == RemoveFirstMatch(ms, LAMBDA m : IsMessage(m, id))

\* updateMessage assigns the status before it asks whether the message moves to
\* the end of the list, so it never moves.
UpdateMessage(id, status) ==
    IF InSession(m_messages, id)
    THEN /\ m_messages' = [i \in DOMAIN m_messages |->
                IF IsMessage(m_messages[i], id)
                THEN [m_messages[i] EXCEPT !.status = status, !.retryIn = RetryInterval]
                ELSE m_messages[i]]
         /\ UNCHANGED tick
    ELSE tick' = "crashed" /\ UNCHANGED m_messages

RemoveMessage(id) ==
    /\ m_messages' = EraseMessage(m_messages, id)
    /\ m_packetIdPool' = ReleaseId(m_packetIdPool, id)

Packet(type, id, n, qos) == [type |-> type, id |-> id, n |-> n, qos |-> qos]
Answer(type, id) == Packet(type, id, 0, 0)
AddToQueue(p) == m_sendQueue' = Append(m_sendQueue, p)

-----------------------------------------------------------------------------
(* The application.                                                         *)

\* Mutant: the identifier is not taken out of the pool.
TakeIdForgotten == UNCHANGED m_packetIdPool

TakeId == m_packetIdPool' = AfterGetId(m_packetIdPool)

\* A QoS 0 publish has no identifier and leaves nothing in the session.
Publish(qos) ==
    /\ connected /\ tick \notin {"send", "crashed"}
    /\ Len(published) < MaxPublishes
    /\ LET n == Len(published) + 1
           id == IF qos = 0 THEN 0 ELSE NextId(m_packetIdPool)
       IN  /\ IF qos = 0
              THEN UNCHANGED <<m_packetIdPool, m_messages>>
              ELSE /\ TakeId
                   /\ m_messages' = PushMessage(m_messages, NewMessage(id, n, qos, RetryInterval))
           /\ AddToQueue(Packet("PUBLISH", id, n, qos))
           /\ ids' = Append(ids, id)
    /\ published' = Append(published, qos)
    /\ UNCHANGED <<m_receiveMaximumTracker, connected, delayed, tick, wireVars, broker,
                   delivered, completed, refused, incomingVars, lossVars>>

-----------------------------------------------------------------------------
(* A tick: sending.                                                         *)

BeginTick ==
    /\ connected /\ tick = "idle"
    /\ Len(m_sendQueue) + Len(toBroker) <= MaxInFlight
    /\ tick' = "send"
    /\ UNCHANGED <<clientVars, queueVars, wireVars, broker, outgoingVars, incomingVars, lossVars>>

CanSend(p) == p.type = "PUBLISH" /\ p.qos > 0 => HasSendAllowance(m_receiveMaximumTracker)

\* A publish waits for the broker's Receive Maximum while later packets pass it.
DelayPacket ==
    /\ tick = "send" /\ m_sendQueue # <<>> /\ ~CanSend(Head(m_sendQueue))
    /\ delayed' = Append(delayed, Head(m_sendQueue))
    /\ m_sendQueue' = Tail(m_sendQueue)
    /\ UNCHANGED <<clientVars, tick, wireVars, broker, outgoingVars, incomingVars, lossVars>>

\* Mutant: a sent PUBACK or PUBCOMP does not give its part of the allowance back.
TrackerAfterSendKept(p) ==
    IF p.type = "PUBLISH" /\ p.qos > 0 THEN DecrementSendAllowance(m_receiveMaximumTracker, p.id)
                                       ELSE m_receiveMaximumTracker

TrackerAfterSend(p) ==
    CASE p.type \in {"PUBACK", "PUBCOMP"} -> IncrementReceiveAllowance(m_receiveMaximumTracker, p.id)
      [] p.type = "PUBLISH" /\ p.qos > 0  -> DecrementSendAllowance(m_receiveMaximumTracker, p.id)
      [] OTHER                            -> m_receiveMaximumTracker

\* handlePubRecSentEvent, handlePubRelSentEvent and handlePubCompSentEvent.
AfterSent(p) ==
    CASE p.type = "PUBREC"  -> UpdateMessage(p.id, "WaitingForPubRel") /\ UNCHANGED m_packetIdPool
      [] p.type = "PUBREL"  -> UpdateMessage(p.id, "WaitingForPubComp") /\ UNCHANGED m_packetIdPool
      [] p.type = "PUBCOMP" -> RemoveMessage(p.id) /\ UNCHANGED tick
      [] OTHER              -> UNCHANGED <<m_messages, m_packetIdPool, tick>>

SendPacket ==
    /\ tick = "send" /\ m_sendQueue # <<>> /\ CanSend(Head(m_sendQueue))
    /\ LET p == Head(m_sendQueue)
       IN  /\ m_receiveMaximumTracker' = TrackerAfterSend(p)
           /\ AfterSent(p)
           /\ toBroker' = Append(toBroker, p)
    /\ m_sendQueue' = Tail(m_sendQueue)
    /\ UNCHANGED <<connected, delayed, toClient, broker, outgoingVars, incomingVars, lossVars>>

EndSend ==
    /\ tick = "send" /\ m_sendQueue = <<>>
    /\ m_sendQueue' = delayed /\ delayed' = <<>>
    /\ tick' = "receive"
    /\ UNCHANGED <<clientVars, wireVars, broker, outgoingVars, incomingVars, lossVars>>

-----------------------------------------------------------------------------
(* A tick: receiving.                                                       *)

Receives(type) == connected /\ tick = "receive" /\ toClient # <<>> /\ Head(toClient).type = type
TakePacket == toClient' = Tail(toClient) /\ UNCHANGED toBroker

\* clearQueue cancels the composers in order; that of a publish releases its identifier.
AfterCancel(pool, queue) ==
    LET after[i \in 0 .. Len(queue)] ==
            IF i = 0 THEN pool
            ELSE IF queue[i].type = "PUBLISH" THEN ReleaseId(after[i - 1], queue[i].id)
                                              ELSE after[i - 1]
    IN  after[Len(queue)]

LoseConnection ==
    /\ connected' = FALSE /\ tick' = "idle"
    /\ m_packetIdPool' = AfterCancel(m_packetIdPool, m_sendQueue)
    /\ m_sendQueue' = <<>>
    /\ toBroker' = <<>> /\ toClient' = <<>>
    /\ losses' = losses + 1
    /\ UNCHANGED delayed

ReceiveMaximumExceeded ==
    /\ cutOff' = TRUE
    /\ LoseConnection
    /\ UNCHANGED <<m_messages, m_receiveMaximumTracker, received>>

\* Mutant: a QoS 2 publish is not kept in the session.
AcknowledgePublishUnkept(p) ==
    /\ CASE p.qos = 0 -> UNCHANGED m_sendQueue
         [] p.qos = 1 -> AddToQueue(Answer("PUBACK", p.id))
         [] p.qos = 2 -> AddToQueue(Answer("PUBREC", p.id))
    /\ UNCHANGED m_messages

\* An incoming QoS 2 publish is kept without its payload and its QoS, in the
\* list and under the identifiers that the outgoing ones have too.
AcknowledgePublish(p) ==
    CASE p.qos = 0 -> UNCHANGED <<m_sendQueue, m_messages>>
      [] p.qos = 1 -> AddToQueue(Answer("PUBACK", p.id)) /\ UNCHANGED m_messages
      [] p.qos = 2 -> /\ m_messages' = PushMessage(m_messages, NewMessage(p.id, 0, 0, RetryInterval))
                      /\ AddToQueue(Answer("PUBREC", p.id))

\* Mutant: a QoS 2 publish waits for its PUBREL, which knows nothing of it.
FireEventLate(p) == received' = IF p.qos = 2 THEN received ELSE [received EXCEPT ![p.n] = @ + 1]

\* Every publish is given to the application, one received before as well.
FireEvent(p) == received' = [received EXCEPT ![p.n] = @ + 1]

FirePublishReceived(p) ==
    /\ FireEvent(p)
    /\ AcknowledgePublish(p)
    /\ TakePacket
    /\ UNCHANGED <<m_packetIdPool, connected, delayed, tick, lossVars>>

ReceivePublish ==
    /\ Receives("PUBLISH")
    /\ LET p == Head(toClient)
       IN  IF p.qos > 0 /\ ~MayReceive(m_receiveMaximumTracker, p.id)
           THEN ReceiveMaximumExceeded
           ELSE /\ m_receiveMaximumTracker' =
                       IF p.qos > 0 THEN DecrementReceiveAllowance(m_receiveMaximumTracker, p.id)
                                    ELSE m_receiveMaximumTracker
                /\ FirePublishReceived(p)
    /\ UNCHANGED <<broker, outgoingVars, sent, settled>>

\* The application knows a message by the identifier publish() returned last.
Known(id) == {n \in DOMAIN ids : ids[n] = id /\ \A k \in DOMAIN ids : ids[k] = id => k <= n}

Report(p) ==
    IF p.n = 0 THEN completed' = completed \union Known(p.id) /\ UNCHANGED refused
               ELSE refused' = refused \union Known(p.id) /\ UNCHANGED completed

\* A PUBACK, a PUBCOMP or a failed PUBREC ends the publish (n = 1 marks a
\* reason code that is a failure).
EndPublish(p) ==
    /\ RemoveMessage(p.id)
    /\ m_receiveMaximumTracker' = IncrementSendAllowance(m_receiveMaximumTracker, p.id)
    /\ Report(p)
    /\ UNCHANGED m_sendQueue

ReceivePubAck ==
    /\ Receives("PUBACK")
    /\ EndPublish(Head(toClient))
    /\ TakePacket
    /\ UNCHANGED <<connected, delayed, tick, broker, published, ids, delivered,
                   incomingVars, lossVars>>

ReceivePubComp ==
    /\ Receives("PUBCOMP")
    /\ EndPublish(Head(toClient))
    /\ TakePacket
    /\ UNCHANGED <<connected, delayed, tick, broker, published, ids, delivered,
                   incomingVars, lossVars>>

\* Whether the session knows the identifier is not looked at.
ReceivePubRec ==
    /\ Receives("PUBREC")
    /\ LET p == Head(toClient)
       IN  IF p.n = 1
           THEN EndPublish(p)
           ELSE /\ AddToQueue(Answer("PUBREL", p.id))
                /\ UNCHANGED <<m_packetIdPool, m_messages, m_receiveMaximumTracker, completed, refused>>
    /\ TakePacket
    /\ UNCHANGED <<connected, delayed, tick, broker, published, ids, delivered,
                   incomingVars, lossVars>>

ReceivePubRel ==
    /\ Receives("PUBREL")
    /\ LET id == Head(toClient).id
       IN  UpdateMessage(id, "NeedToSendPubComp") /\ AddToQueue(Answer("PUBCOMP", id))
    /\ TakePacket
    /\ UNCHANGED <<m_packetIdPool, m_receiveMaximumTracker, connected, delayed, broker,
                   outgoingVars, incomingVars, lossVars>>

ReceivePacket == ReceivePublish \/ ReceivePubAck \/ ReceivePubComp \/ ReceivePubRec \/ ReceivePubRel

\* What has not arrived yet waits for a later tick.
EndReceive ==
    /\ connected /\ tick = "receive" /\ Len(toClient) <= MaxInFlight
    /\ tick' = "retry"
    /\ UNCHANGED <<clientVars, queueVars, wireVars, broker, outgoingVars, incomingVars, lossVars>>

-----------------------------------------------------------------------------
(* A tick: retries.                                                         *)

\* The messages from the front of the list up to the first that is not due.
Due == {i \in DOMAIN m_messages : \A j \in 1 .. i : m_messages[j].retryIn = 0}

\* getRetryPacketType; a PUBCOMP is not retried.
Retry(m) ==
    CASE m.status \in {"WaitingForAck", "WaitingForPubRec"} ->
             <<Packet("PUBLISH", m.id, m.n, m.qos)>>
      [] m.status = "WaitingForPubRel"  -> <<Answer("PUBREC", m.id)>>
      [] m.status = "WaitingForPubComp" -> <<Answer("PUBREL", m.id)>>
      [] OTHER                          -> <<>>

\* Mutant: nothing is queued.
RetryMessagesForgotten == UNCHANGED m_sendQueue

\* The time of the next retry is left as it is: the next tick retries again.
RetryMessages ==
    m_sendQueue' = m_sendQueue \o FlattenSeq([i \in Due |-> Retry(m_messages[i])])

PendingPublishMessageRetries ==
    /\ connected /\ tick = "retry"
    /\ RetryMessages
    /\ tick' = "idle"
    /\ UNCHANGED <<clientVars, delayed, wireVars, broker, outgoingVars, incomingVars, lossVars>>

\* Connections are lost and answers are late when this may happen.
MayDisturb == PublishLate \/ Len(published) = MaxPublishes

TimePasses ==
    /\ Slow /\ MayDisturb /\ tick # "crashed"
    /\ \E i \in DOMAIN m_messages : m_messages[i].retryIn > 0
    /\ m_messages' = [i \in DOMAIN m_messages |->
           [m_messages[i] EXCEPT !.retryIn = IF @ > 0 THEN @ - 1 ELSE 0]]
    /\ UNCHANGED <<m_packetIdPool, m_receiveMaximumTracker, connected, queueVars, tick,
                   wireVars, broker, outgoingVars, incomingVars, lossVars>>

-----------------------------------------------------------------------------
(* The connection.  No handler runs inside a batch, which holds the queue.  *)

ConnectionLost ==
    /\ connected /\ tick \notin {"send", "crashed"} /\ losses < MaxLosses /\ MayDisturb
    /\ LoseConnection
    /\ UNCHANGED <<m_messages, m_receiveMaximumTracker, broker, outgoingVars,
                   incomingVars, cutOff>>

\* addPrevSessionState: the messages are due at once and start over; of two with
\* the same identifier the second is left out.
Restored(ms) ==
    LET again == [i \in DOMAIN ms |-> NewMessage(ms[i].id, ms[i].n, ms[i].qos, 0)]
        merged[i \in 0 .. Len(ms)] ==
            IF i = 0 THEN <<>>
            ELSE IF InSession(merged[i - 1], again[i].id) THEN merged[i - 1]
            ELSE PushMessage(merged[i - 1], again[i])
    IN  merged[Len(ms)]

\* Mutant: the previous messages are not merged.
MessagesAfterConnectForgotten(present) == <<>>

MessagesAfterConnect(present) == IF present THEN Restored(m_messages) ELSE <<>>

\* A broker that still has the session sends what is not complete again, in order.
Again(o) == IF o.released THEN Answer("PUBREL", o.id) ELSE Packet("PUBLISH", o.id, o.n, o.qos)
Resent(b) ==
    LET unfinished(n) == {o \in b.outbound : o.n = n}
    IN  FlattenSeq([n \in DOMAIN sent |->
            IF unfinished(n) = {} THEN <<>> ELSE <<Again(CHOOSE o \in unfinished(n) : TRUE)>>])

\* connect(), and the handler of the CONNACK in the receive phase of a tick.
Connected(present) ==
    /\ ~connected
    /\ connected' = TRUE /\ tick' = "receive"
    /\ m_receiveMaximumTracker' = NewTracker(ReceiveMaximum, ReceiveMaximum)
    /\ m_messages' = MessagesAfterConnect(present)
    /\ broker' = IF present THEN broker ELSE NewBroker
    /\ toClient' = IF present THEN Resent(broker) ELSE <<>>
    /\ UNCHANGED <<m_packetIdPool, queueVars, toBroker, outgoingVars, incomingVars, lossVars>>

-----------------------------------------------------------------------------
(* The broker.                                                              *)

ReachesBroker(type) == toBroker # <<>> /\ Head(toBroker).type = type
BrokerTakes == toBroker' = Tail(toBroker)
BrokerAnswers(p) == toClient' = Append(toClient, p)
Failed(type, id) == Packet(type, id, 1, 0)

BrokerDelivers(n) == delivered' = [delivered EXCEPT ![n] = @ + 1]

BrokerAccepts ==
    /\ ReachesBroker("PUBLISH") /\ BrokerTakes
    /\ LET p == Head(toBroker)
           known == p.qos = 2 /\ p.id \in broker.received
       IN  /\ IF known THEN UNCHANGED delivered ELSE BrokerDelivers(p.n)
           /\ CASE p.qos = 0 -> UNCHANGED toClient
                [] p.qos = 1 -> BrokerAnswers(Answer("PUBACK", p.id))
                [] p.qos = 2 -> BrokerAnswers(Answer("PUBREC", p.id))
           /\ broker' = IF p.qos = 2 THEN [broker EXCEPT !.received = @ \union {p.id}] ELSE broker
    /\ UNCHANGED <<clientVars, queueVars, tick, published, ids, completed, refused,
                   incomingVars, lossVars>>

BrokerRefuses ==
    /\ MayRefuse /\ ReachesBroker("PUBLISH") /\ BrokerTakes
    /\ LET p == Head(toBroker)
       IN  /\ p.qos > 0 /\ p.id \notin broker.received
           /\ BrokerAnswers(Failed(IF p.qos = 1 THEN "PUBACK" ELSE "PUBREC", p.id))
    /\ UNCHANGED <<clientVars, queueVars, tick, broker, outgoingVars, incomingVars, lossVars>>

BrokerReleases ==
    /\ ReachesBroker("PUBREL") /\ BrokerTakes
    /\ broker' = [broker EXCEPT !.received = @ \ {Head(toBroker).id}]
    /\ BrokerAnswers(Answer("PUBCOMP", Head(toBroker).id))
    /\ UNCHANGED <<clientVars, queueVars, tick, outgoingVars, incomingVars, lossVars>>

BrokerPublishes(qos) ==
    /\ connected /\ Len(sent) < MaxIncoming
    /\ Cardinality(broker.outbound) < ReceiveMaximum
    /\ \E id \in IF qos = 0 THEN {0} ELSE BrokerIds \ {o.id : o \in broker.outbound} :
          /\ BrokerAnswers(Packet("PUBLISH", id, Len(sent) + 1, qos))
          /\ broker' = IF qos = 0 THEN broker
                       ELSE [broker EXCEPT !.outbound = @ \union
                                {[id |-> id, n |-> Len(sent) + 1, qos |-> qos, released |-> FALSE]}]
    /\ sent' = Append(sent, qos)
    /\ UNCHANGED <<clientVars, queueVars, tick, toBroker, outgoingVars, received, settled, lossVars>>

\* The broker's own publishes with the identifier of the packet it reads.
Acknowledged == {o \in broker.outbound : o.id = Head(toBroker).id}

BrokerSettles ==
    /\ ReachesBroker("PUBACK") \/ ReachesBroker("PUBCOMP")
    /\ BrokerTakes
    /\ broker' = [broker EXCEPT !.outbound = @ \ Acknowledged]
    /\ settled' = settled \union {o.n : o \in Acknowledged}
    /\ UNCHANGED <<clientVars, queueVars, tick, toClient, outgoingVars, sent, received, lossVars>>

BrokerContinues ==
    /\ ReachesBroker("PUBREC") /\ BrokerTakes
    /\ broker' = [broker EXCEPT !.outbound =
           (@ \ Acknowledged) \union {[o EXCEPT !.released = TRUE] : o \in Acknowledged}]
    /\ BrokerAnswers(Answer("PUBREL", Head(toBroker).id))
    /\ UNCHANGED <<clientVars, queueVars, tick, outgoingVars, incomingVars, lossVars>>

BrokerReceives == BrokerAccepts \/ BrokerRefuses \/ BrokerReleases \/ BrokerSettles \/ BrokerContinues

-----------------------------------------------------------------------------

Tick ==
    \/ BeginTick \/ DelayPacket \/ SendPacket \/ EndSend
    \/ ReceivePacket \/ EndReceive \/ PendingPublishMessageRetries

Next ==
    \/ \E qos \in PublishQos : Publish(qos)
    \/ Tick
    \/ TimePasses
    \/ ConnectionLost \/ \E present \in Resume : Connected(present)
    \/ BrokerReceives \/ \E qos \in IncomingQos : BrokerPublishes(qos)

Spec == Init /\ [][Next]_vars

\* Ticks go on (tickAsync, or the application's loop), what is on its way
\* arrives while the connection lasts, and the application connects again.
Fairness ==
    /\ WF_vars(Tick)
    /\ SF_vars(ReceivePacket)
    /\ WF_vars(BrokerReceives)
    /\ WF_vars(\E present \in Resume : Connected(present))

FairSpec == Spec /\ Fairness

-----------------------------------------------------------------------------

Packets == [type : {"PUBLISH", "PUBACK", "PUBREC", "PUBREL", "PUBCOMP"},
            id : Nat, n : Nat, qos : 0 .. 2]
Messages == [id : Nat \ {0}, n : 0 .. MaxPublishes, qos : 0 .. 2, retryIn : 0 .. RetryInterval,
             mapped : BOOLEAN,
             status : {"WaitingForAck", "WaitingForPubRec", "WaitingForPubComp",
                       "WaitingForPubRel", "NeedToSendPubComp"}]

\* The types, with every identifier in the pool's stack below the next fresh one.
TypeOK ==
    /\ m_packetIdPool.m_nextId \in Nat \ {0}
    /\ ToSet(m_packetIdPool.m_availableIds) \subseteq 1 .. m_packetIdPool.m_nextId - 1
    /\ m_messages \in Seq(Messages)
    /\ m_sendQueue \in Seq(Packets) /\ delayed \in Seq(Packets)
    /\ toBroker \in Seq(Packets) /\ toClient \in Seq(Packets)
    /\ tick \in {"idle", "send", "receive", "retry", "crashed"}
    /\ {connected, cutOff} \subseteq BOOLEAN

\* While connected, the identifier of every publish in the session is in use,
\* so that getId cannot give it to another, and no two messages of the session
\* share one (the assert of MessageContainer::push).
IdsAgree ==
    /\ connected => \A i \in DOMAIN m_messages :
           m_messages[i].n # 0 => m_messages[i].id \in UsedIds(m_packetIdPool)
    /\ \A i, j \in DOMAIN m_messages : m_messages[i].id = m_messages[j].id => i = j

\* The handlers that look a message up in the session without asking whether it
\* is there always find it.
UpdatesFind == tick # "crashed"

\* A broker that respects the Receive Maximum is never disconnected for
\* exceeding it.
BrokerNotCutOff == ~cutOff

\* Once a connection has nothing more to do, the session is empty and every
\* identifier is back in the pool.
Quiet == m_sendQueue = <<>> /\ delayed = <<>> /\ toBroker = <<>> /\ toClient = <<>>
IdsReturned == losses = 0 /\ Quiet => m_messages = <<>> /\ UsedIds(m_packetIdPool) = {}

\* Every publish above QoS 0 that the application has not been told the outcome
\* of is in the session, across lost connections.
NothingForgotten ==
    \A n \in DOMAIN published :
        published[n] = 0 \/ n \in completed \union refused
        \/ \E i \in DOMAIN m_messages : m_messages[i].n = n

\* No publish reaches the broker that the application never made.
NothingInvented == delivered[0] = 0

\* A publish with QoS 2 reaches the broker's subscribers at most once (README.md:33,
\* "Full QoS support - QoS 0, 1, and 2 message delivery").
ExactlyOnce == \A n \in DOMAIN published : published[n] = 2 => delivered[n] <= 1

\* The delivery promised for the application's publishes and the broker's.
Outgoing == INSTANCE Delivery WITH
    MaxMessages <- MaxPublishes,
    delivered <- [n \in 1 .. MaxPublishes |-> delivered[n]]
Incoming == INSTANCE Delivery WITH
    MaxMessages <- MaxIncoming, published <- sent, delivered <- received,
    completed <- settled, refused <- {}

\* Exactly-once for QoS 2, at-least-once for QoS 1 when reported complete, for
\* what the application publishes.
OutgoingDelivery == Outgoing!Spec
\* The same for what the broker publishes.
IncomingDelivery == Incoming!Spec

\* The application is told in the end what became of each publish above QoS 0.
EveryPublishEnds ==
    \A n \in 1 .. MaxPublishes :
        n \in DOMAIN published /\ published[n] > 0 ~> n \in completed \union refused
=============================================================================
