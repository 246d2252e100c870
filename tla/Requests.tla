------------------------------ MODULE Requests ------------------------------
(***************************************************************************)
(* Subscriptions and unsubscriptions, the identifiers they hold and the    *)
(* mutexes they are made under (MqttClientImpl.cpp, SendQueue.cpp), from    *)
(* the application's call to the event that reports the broker's answer.    *)
(*                                                                         *)
(* Two threads make steps: the application's and the tick's, which are one  *)
(* in SYNC mode.  Both may make calls, the tick's from inside a callback.   *)
(* A step ends where a mutex is taken or given back, or where the code      *)
(* shares what it does with another thread.  Publishes have QoS 0 here:     *)
(* Session has the identifiers of the others.                               *)
(***************************************************************************)
EXTENDS PacketIdPool, FiniteSets

CONSTANTS
    TickModes,      \* of the instance: SYNC, ASYNC
    CallbackCalls,  \* what callbacks call: publish, subscribe, unsubscribe, disconnect
    StrayAnswers,   \* bound: answers to requests that were not made or had their answer
    MaxRequests,    \* bound: requests of the application
    MaxConnections, \* bound: connections
    None            \* no thread

ASSUME RequestsAssumption ==
    /\ TickModes \subseteq {"SYNC", "ASYNC"}
    /\ CallbackCalls \subseteq {"publish", "subscribe", "unsubscribe", "disconnect"}
    /\ {StrayAnswers, MaxRequests, MaxConnections} \subseteq Nat
    /\ None \notin {"app", "tick"}

Threads == {"app", "tick"}
Kinds == {"subscribe", "unsubscribe"}

VARIABLES
    tickMode,
    m_connectionStatus,
    m_mutex, queueMutex, \* the thread that holds the client's mutex, the send queue's
    pending,        \* pendingSubscriptions and pendingUnSubscriptions
    batch,          \* m_nextPacketComposersBatch, without publishes
    m_startGracefulClear,
    broker,         \* requests the broker has and has not answered
    received,       \* answers in the receive queue
    m_events,       \* what the deferrer holds
    pc, call,       \* of each thread: the step it is at, the call it makes
    resume,         \* of each thread: the step after the callback it is in
    requests,       \* requests and
    connections,    \* connections made so far
    holder,         \* history: what each identifier was last taken for
    cutOff,         \* history: where requests were when a connection or a redirection
                    \* ended: "call", being made, "queue", queued for one that failed,
                    \* "kept", in a queue that was not cleared
    strays,         \* history: answers to requests that were not made
    misreported     \* history: kinds of answers reported with another request's topics

lockVars == <<m_mutex, queueMutex>>
queueVars == <<batch, m_startGracefulClear>>
wireVars == <<broker, received>>
threadVars == <<pc, call, resume>>
countVars == <<requests, connections, cutOff, strays>>
requestsVars == <<vars, tickMode, m_connectionStatus, lockVars, pending, queueVars, wireVars,
                  m_events, threadVars, countVars, holder, misreported>>

NoCall == [kind |-> "none", id |-> 0, request |-> 0]

RequestsInit ==
    /\ Init
    /\ tickMode \in TickModes
    /\ m_connectionStatus = "DISCONNECTED"
    /\ m_mutex = None /\ queueMutex = None
    /\ pending = [k \in Kinds |-> <<>>]
    /\ batch = <<>> /\ m_startGracefulClear = FALSE
    /\ broker = {} /\ received = <<>>
    /\ m_events = <<>>
    /\ pc = [t \in Threads |-> "idle"] /\ resume = [t \in Threads |-> "idle"]
    /\ call = [t \in Threads |-> NoCall]
    /\ requests = 0 /\ connections = 0
    /\ holder = [id \in PacketIds |-> "none"]
    /\ cutOff = {} /\ strays = 0 /\ misreported = {}

-----------------------------------------------------------------------------
(* Steps of threads.                                                        *)

Goes(t, step) == pc' = [pc EXCEPT ![t] = step]

\* One thread runs the application and the ticks in SYNC mode.
OtherIdle(t) == tickMode = "SYNC" => \A u \in Threads \ {t} : pc[u] = "idle"

MayCall(t, kind) ==
    /\ crashed = "no" /\ requests < MaxRequests
    /\ \/ t = "app" /\ pc[t] = "idle" /\ OtherIdle(t)
       \/ pc[t] = "callback" /\ kind \in CallbackCalls

\* A call returns: to the application, or to what the callback interrupted.
Returns(t) == Goes(t, resume[t]) /\ resume' = [resume EXCEPT ![t] = "idle"]

\* DISPATCH_EVENT_TO_CONSUMER: deferred to the end of a tick, or a callback at once.
Dispatch(t, event, next) ==
    IF tickMode = "SYNC"
    THEN m_events' = Append(m_events, event) /\ Goes(t, next) /\ UNCHANGED resume
    ELSE /\ Goes(t, "callback")
         /\ resume' = [resume EXCEPT ![t] = next]
         /\ UNCHANGED m_events

\* releaseId does nothing for an identifier that is not in use.
Releases(id) ==
    \/ ReleaseId(id)
    \/ (id = 0 \/ (id < PoolSize /\ id \notin m_usedIds)) /\ UNCHANGED vars

Unlocks(mutex, t) == mutex' = IF mutex = t THEN None ELSE mutex

-----------------------------------------------------------------------------
(* Calls.                                                                   *)

\* subscribe, unSubscribe: the status is looked at without a mutex.  A call that
\* finds the client not connected returns.
RequestBegins(t, kind) ==
    /\ MayCall(t, kind)
    /\ m_connectionStatus = "CONNECTED"
    /\ requests' = requests + 1
    /\ call' = [call EXCEPT ![t] = [kind |-> kind, id |-> 0, request |-> requests']]
    /\ Goes(t, "identify")
    /\ UNCHANGED <<vars, tickMode, m_connectionStatus, lockVars, pending, queueVars, wireVars,
                   m_events, resume, connections, cutOff, strays, holder, misreported>>

NextId == IF m_availableIds # <<>> THEN Head(m_availableIds) ELSE m_nextId

RequestIdentified(t) ==
    /\ pc[t] = "identify"
    /\ GetId
    /\ call' = [call EXCEPT ![t].id = NextId]
    /\ holder' = [holder EXCEPT ![NextId] = call[t].kind]
    /\ Goes(t, "push")
    /\ UNCHANGED <<tickMode, m_connectionStatus, lockVars, pending, queueVars, wireVars, m_events,
                   resume, countVars, misreported>>

RequestPushes(t) ==
    /\ crashed = "no" /\ pc[t] = "push"
    /\ m_mutex = None
    /\ pending' = [pending EXCEPT ![call[t].kind] = Append(@, call[t])]
    /\ Goes(t, "add")
    /\ UNCHANGED <<vars, tickMode, m_connectionStatus, lockVars, queueVars, wireVars, m_events,
                   call, resume, countVars, holder, misreported>>

PublishBegins(t) ==
    /\ MayCall(t, "publish")
    /\ m_connectionStatus = "CONNECTED"
    /\ requests' = requests + 1
    /\ call' = [call EXCEPT ![t] = [NoCall EXCEPT !.kind = "publish"]]
    /\ Goes(t, "add")
    /\ UNCHANGED <<vars, tickMode, m_connectionStatus, lockVars, pending, queueVars, wireVars,
                   m_events, resume, connections, cutOff, strays, holder, misreported>>

DisconnectBegins(t) ==
    /\ MayCall(t, "disconnect")
    /\ m_connectionStatus # "DISCONNECTED"
    /\ requests' = requests + 1
    /\ call' = [call EXCEPT ![t] = [NoCall EXCEPT !.kind = "disconnect"]]
    /\ Goes(t, "lock")
    /\ UNCHANGED <<vars, tickMode, m_connectionStatus, lockVars, pending, queueVars, wireVars,
                   m_events, resume, connections, cutOff, strays, holder, misreported>>

\* Mutant: addToQueue is called with the client's mutex held, by publish() as well.
AddToQueueLocked(t) ==
    /\ crashed = "no" /\ pc[t] = "add"
    /\ queueMutex = None /\ (m_mutex # None => m_mutex = t /\ call[t].kind = "disconnect")
    /\ batch' = IF call[t].kind = "publish" THEN batch ELSE Append(batch, call[t])
    /\ call' = [call EXCEPT ![t] = NoCall]
    /\ Returns(t)
    /\ m_mutex' = IF m_mutex = t /\ call[t].kind = "disconnect" THEN None ELSE m_mutex
    /\ UNCHANGED <<vars, tickMode, m_connectionStatus, queueMutex, pending, m_startGracefulClear,
                   wireVars, m_events, countVars, holder, misreported>>

\* A graceful disconnect() alone still holds the client's mutex.
AddToQueue(t) ==
    /\ crashed = "no" /\ pc[t] = "add"
    /\ queueMutex = None
    /\ batch' = IF call[t].kind = "publish" THEN batch ELSE Append(batch, call[t])
    /\ call' = [call EXCEPT ![t] = NoCall]
    /\ Returns(t)
    /\ m_mutex' = IF m_mutex = t /\ call[t].kind = "disconnect" THEN None ELSE m_mutex
    /\ UNCHANGED <<vars, tickMode, m_connectionStatus, queueMutex, pending, m_startGracefulClear,
                   wireVars, m_events, countVars, holder, misreported>>

-----------------------------------------------------------------------------
(* The end of a connection.                                                 *)

\* The other thread is in the middle of subscribe() or unSubscribe().
Straddles == \E t \in Threads : call[t].kind \in Kinds

Queued == {i \in DOMAIN batch : batch[i].kind \in Kinds}

CutOff(queued) ==
    cutOff \union (IF Straddles THEN {"call"} ELSE {})
           \union (IF queued # {} THEN {"queue"} ELSE {})

CutOffInKeptQueue == CutOff({}) \union (IF Queued # {} THEN {"kept"} ELSE {})

Ends ==
    /\ m_connectionStatus' = "DISCONNECTED"
    /\ broker' = {}
    /\ cutOff' = CutOff({})

\* handleInternalDisconnect.  Callbacks are only let make graceful disconnects.
InternalDisconnect(t) ==
    /\ crashed = "no" /\ pc[t] = "lock"
    /\ m_mutex = None
    /\ \/ /\ m_connectionStatus = "DISCONNECTED"
          /\ Returns(t) /\ call' = [call EXCEPT ![t] = NoCall]
          /\ UNCHANGED <<m_connectionStatus, m_mutex, broker, cutOff>>
       \/ /\ m_connectionStatus # "DISCONNECTED"
          /\ m_mutex' = t
          /\ Goes(t, "add")
          /\ UNCHANGED <<m_connectionStatus, broker, cutOff, call, resume>>
       \/ /\ m_connectionStatus # "DISCONNECTED" /\ t = "app"
          /\ Ends
          /\ m_mutex' = t
          /\ call' = [call EXCEPT ![t] = NoCall]
          /\ Goes(t, "cancel") /\ UNCHANGED resume
       \/ /\ m_connectionStatus # "DISCONNECTED" /\ t = "app"    \* clearQueue = false
          /\ m_connectionStatus' = "DISCONNECTED" /\ broker' = {}
          /\ cutOff' = CutOffInKeptQueue
          /\ m_mutex' = t
          /\ call' = [call EXCEPT ![t] = NoCall]
          /\ Goes(t, "clear") /\ UNCHANGED resume
    /\ UNCHANGED <<vars, tickMode, queueMutex, pending, queueVars, received, m_events,
                   requests, connections, strays, holder, misreported>>

\* handleExternalDisconnect for the socket's loss, in the socket's own tick, and
\* handleInternalDisconnect where the tick calls it, also while RECONNECTING.
ConnectionLost ==
    /\ crashed = "no" /\ pc["tick"] = "idle" /\ OtherIdle("tick")
    /\ m_connectionStatus # "DISCONNECTED" /\ m_mutex = None
    /\ Ends
    /\ m_mutex' = "tick"
    /\ Goes("tick", "cancel")
    /\ UNCHANGED <<vars, tickMode, queueMutex, pending, queueVars, received, m_events, call,
                   resume, requests, connections, strays, holder, misreported>>

\* Behind clearQueue comes clearState, except where a redirection failed and in the
\* batch after a graceful disconnect.
AfterCancelling(t) ==
    IF pc[t] = "abandon" THEN "failed" ELSE IF m_mutex = t THEN "clear" ELSE "idle"

\* clearQueue, one composer a step, under the queue's mutex.  DISCONNECT packets
\* have no identifier.
CancelComposer(t) ==
    /\ crashed = "no" /\ pc[t] \in {"cancel", "abandon"}
    /\ queueMutex \in {None, t}
    /\ \/ /\ batch # <<>>
          /\ queueMutex' = t
          /\ IF Head(batch).kind \in Kinds THEN Releases(Head(batch).id) ELSE UNCHANGED vars
          /\ batch' = Tail(batch)
          /\ UNCHANGED pc
       \/ /\ batch = <<>>
          /\ queueMutex' = None
          /\ Goes(t, AfterCancelling(t))
          /\ UNCHANGED <<vars, batch>>
    /\ UNCHANGED <<tickMode, m_connectionStatus, m_mutex, pending, m_startGracefulClear, wireVars,
                   m_events, call, resume, countVars, holder, misreported>>

\* handleDisconnectSentEvent is called by sendNextBatch, the loss is reported in a tick.
AfterDisconnect(t) ==
    IF queueMutex = t THEN "sent" ELSE IF t = "tick" THEN "events" ELSE "idle"

\* Mutant: the identifiers of pending subscriptions are not released.
ClearStateKeepingIds(t) ==
    /\ crashed = "no" /\ pc[t] = "clear"
    /\ pending' = [pending EXCEPT !["subscribe"] = <<>>]
    /\ Unlocks(m_mutex, t)
    /\ Dispatch(t, "disconnect", AfterDisconnect(t))
    /\ UNCHANGED <<vars, tickMode, m_connectionStatus, queueMutex, queueVars, wireVars, call,
                   countVars, holder, misreported>>

\* clearState, one identifier a step; nothing is done about unsubscriptions.  Then
\* the mutex is given back and the DisconnectEvent dispatched.
ClearState(t) ==
    /\ crashed = "no" /\ pc[t] = "clear"
    /\ \/ /\ pending["subscribe"] # <<>>
          /\ Releases(Head(pending["subscribe"]).id)
          /\ pending' = [pending EXCEPT !["subscribe"] = Tail(@)]
          /\ UNCHANGED <<m_mutex, pc, resume, m_events>>
       \/ /\ pending["subscribe"] = <<>>
          /\ Unlocks(m_mutex, t)
          /\ Dispatch(t, "disconnect", AfterDisconnect(t))
          /\ UNCHANGED <<vars, pending>>
    /\ UNCHANGED <<tickMode, m_connectionStatus, queueMutex, queueVars, wireVars, call,
                   countVars, holder, misreported>>

-----------------------------------------------------------------------------
(* The tick.                                                                *)

\* The socket of a redirection is sent what is queued, too.
TickSendPackets ==
    /\ crashed = "no" /\ pc["tick"] = "idle" /\ OtherIdle("tick")
    /\ m_connectionStatus # "DISCONNECTED"
    /\ queueMutex = None
    /\ LET sent == {batch[i] : i \in DOMAIN batch}
           disconnects == \E c \in sent : c.kind = "disconnect" IN
       /\ batch' = <<>>
       /\ IF disconnects
          THEN /\ Ends                          \* handleDisconnectSentEvent
               /\ queueMutex' = "tick"
               /\ m_startGracefulClear' = TRUE
               /\ Goes("tick", "clear")
          ELSE /\ broker' = broker \union sent
               /\ Goes("tick", "receive")
               /\ UNCHANGED <<m_connectionStatus, cutOff, queueMutex, m_startGracefulClear>>
    /\ UNCHANGED <<vars, tickMode, m_mutex, pending, received, m_events, call, resume,
                   requests, connections, strays, holder, misreported>>

\* A tick of a client that is not connected only has events to deliver.
TickUnconnected ==
    /\ crashed = "no" /\ pc["tick"] = "idle" /\ OtherIdle("tick")
    /\ m_connectionStatus # "CONNECTED" /\ m_events # <<>>
    /\ Goes("tick", "events")
    /\ UNCHANGED <<vars, tickMode, m_connectionStatus, lockVars, pending, queueVars, wireVars,
                   m_events, call, resume, countVars, holder, misreported>>

\* sendNextBatch returns, after the callback of the DisconnectEvent if there was one.
BatchSent ==
    /\ crashed = "no" /\ pc["tick"] = "sent"
    /\ Unlocks(queueMutex, "tick")
    /\ Goes("tick", "receive")
    /\ UNCHANGED <<vars, tickMode, m_connectionStatus, m_mutex, pending, queueVars, wireVars,
                   m_events, call, resume, countVars, holder, misreported>>

\* Mutant: the oldest request is taken for the one that was answered.
OldestPending(answer) == IF pending[answer.kind] = <<>> THEN {} ELSE {1}

\* The pending requests with the identifier of the answer.
PendingOf(answer) ==
    {i \in DOMAIN pending[answer.kind] : pending[answer.kind][i].id = answer.id}

Without(s, i) == SubSeq(s, 1, i - 1) \o SubSeq(s, i + 1, Len(s))

\* handleReceivedSubscribeAcknowledge, handleReceivedUnSubscribeAcknowledge.
AnswerReceived ==
    /\ crashed = "no" /\ pc["tick"] = "receive"
    /\ received # <<>>
    /\ received' = Tail(received)
    /\ LET answer == Head(received) found == PendingOf(answer) IN
       /\ Releases(answer.id)
       /\ \/ /\ found = {}
             /\ UNCHANGED <<pending, misreported, m_events, pc, resume>>
          \/ \E i \in found :
             /\ \A j \in found : i <= j
             /\ pending' = [pending EXCEPT ![answer.kind] = Without(@, i)]
             /\ misreported' = IF pending[answer.kind][i].request = answer.request
                               THEN misreported ELSE misreported \union {answer.kind}
             /\ Dispatch("tick", "answer", "receive")
    /\ UNCHANGED <<tickMode, m_connectionStatus, lockVars, queueVars, broker, call, countVars,
                   holder>>

AllReceived ==
    /\ crashed = "no" /\ pc["tick"] = "receive"
    /\ received = <<>>
    /\ Goes("tick", "events")
    /\ UNCHANGED <<vars, tickMode, m_connectionStatus, lockVars, pending, queueVars, wireVars,
                   m_events, call, resume, countVars, holder, misreported>>

\* A DISCONNECT packet that names another server (handleExternalDisconnect, reconnect):
\* the ReconnectEvent is dispatched under the mutex and before the status changes.
RedirectionReceived ==
    /\ crashed = "no" /\ pc["tick"] = "receive"
    /\ m_connectionStatus = "CONNECTED" /\ connections < MaxConnections
    /\ m_mutex = None
    /\ m_mutex' = "tick"
    /\ received' = <<>> /\ broker' = {}
    /\ cutOff' = CutOff({})
    /\ Dispatch("tick", "reconnect", "redirect")
    /\ UNCHANGED <<vars, tickMode, m_connectionStatus, queueMutex, pending, queueVars, call,
                   requests, connections, strays, holder, misreported>>

RedirectionStarted ==
    /\ crashed = "no" /\ pc["tick"] = "redirect"
    /\ m_connectionStatus' = "RECONNECTING"
    /\ Unlocks(m_mutex, "tick")
    /\ Goes("tick", "events")
    /\ UNCHANGED <<vars, tickMode, queueMutex, pending, queueVars, wireVars, m_events, call, resume,
                   countVars, holder, misreported>>

\* What was sent to an address that was given up is lost; what is queued with the
\* attempt at the last one is cut off.
AttemptOver ==
    /\ crashed = "no" /\ m_connectionStatus = "RECONNECTING"
    /\ broker' = {}

\* handleFailedReconnect, handleTimeOutReconnect with an address left (reconnect).  Bounded
\* to attempts that were sent requests.
NextAddress ==
    /\ pc["tick"] = "idle" /\ OtherIdle("tick") /\ broker # {}
    /\ AttemptOver
    /\ Dispatch("tick", "reconnect", "events")
    /\ UNCHANGED <<vars, tickMode, m_connectionStatus, lockVars, pending, queueVars, received, call,
                   countVars, holder, misreported>>

\* The same without one: clearQueue, then the status, then the events, without the mutex
\* and without clearState.  What is pending stays pending.
RedirectionFails ==
    /\ pc["tick"] \in {"idle", "receive"} /\ OtherIdle("tick")
    /\ AttemptOver /\ cutOff' = CutOff(Queued)
    /\ received' = <<>>
    /\ Goes("tick", "abandon")
    /\ UNCHANGED <<vars, tickMode, m_connectionStatus, lockVars, pending, queueVars, m_events, call,
                   resume, requests, connections, strays, holder, misreported>>

RedirectionFailed ==
    /\ crashed = "no" /\ pc["tick"] = "failed"
    /\ m_connectionStatus' = "DISCONNECTED"
    /\ Dispatch("tick", "reconnect", "closed")
    /\ UNCHANGED <<vars, tickMode, lockVars, pending, queueVars, wireVars, call, countVars,
                   holder, misreported>>

\* The DisconnectEvent, if a connection was open before (hasBeenConnected).
ClosingTold ==
    /\ crashed = "no" /\ pc["tick"] = "closed"
    /\ \/ Dispatch("tick", "disconnect", "events")
       \/ Goes("tick", "events") /\ UNCHANGED <<m_events, resume>>
    /\ UNCHANGED <<vars, tickMode, m_connectionStatus, lockVars, pending, queueVars, wireVars, call,
                   countVars, holder, misreported>>

\* handleSocketConnectEvent of a socket that failed: the queue is kept as well.
RedirectionSocketFails ==
    /\ pc["tick"] = "idle" /\ OtherIdle("tick")
    /\ AttemptOver /\ cutOff' = CutOffInKeptQueue
    /\ m_connectionStatus' = "DISCONNECTED"
    /\ Dispatch("tick", "connect", "events")
    /\ UNCHANGED <<vars, tickMode, lockVars, pending, queueVars, received, call, requests, connections,
                   strays, holder, misreported>>

\* The deferred events are invoked under the mutex.
InvokeEvents ==
    /\ crashed = "no" /\ pc["tick"] = "events"
    /\ \/ /\ m_events = <<>>
          /\ Unlocks(m_mutex, "tick")
          /\ Goes("tick", "idle")
          /\ UNCHANGED <<m_events, resume>>
       \/ /\ m_events # <<>> /\ m_mutex \in {None, "tick"}
          /\ m_mutex' = "tick"
          /\ m_events' = Tail(m_events)
          /\ Goes("tick", "callback")
          /\ resume' = [resume EXCEPT !["tick"] = "events"]
    /\ UNCHANGED <<vars, tickMode, m_connectionStatus, queueMutex, pending, queueVars, wireVars,
                   call, countVars, holder, misreported>>

CallbackReturns(t) ==
    /\ crashed = "no" /\ pc[t] = "callback"
    /\ Returns(t)
    /\ UNCHANGED <<vars, tickMode, m_connectionStatus, lockVars, pending, queueVars, wireVars,
                   m_events, call, countVars, holder, misreported>>

-----------------------------------------------------------------------------
(* Connections and the broker.                                              *)

\* connect() or a redirection, up to the CONNACK, whose steps are in Connection.
Connect ==
    /\ crashed = "no" /\ pc["tick"] = "idle" /\ OtherIdle("tick")
    /\ connections < MaxConnections
    /\ \/ m_connectionStatus = "DISCONNECTED" /\ pc["app"] = "idle" /\ m_mutex = None
       \/ m_connectionStatus = "RECONNECTING"
    /\ ~m_startGracefulClear
    /\ m_connectionStatus' = "CONNECTED"
    /\ connections' = connections + 1
    /\ received' = <<>>
    /\ UNCHANGED <<vars, tickMode, lockVars, pending, queueVars, broker, m_events, threadVars,
                   requests, cutOff, strays, holder, misreported>>

\* An attempt of connect() without a connection: the first batch after a graceful
\* disconnect is cancelled with the CONNECT packet in it, or the attempt is refused or
\* times out (handleFailedConnect, handleTimeOutConnect).
ConnectFails ==
    /\ crashed = "no" /\ pc["tick"] = "idle" /\ OtherIdle("tick")
    /\ m_connectionStatus = "DISCONNECTED" /\ pc["app"] = "idle"
    /\ m_startGracefulClear \/ batch # <<>>
    /\ m_startGracefulClear' = FALSE
    /\ received' = <<>>
    /\ Goes("tick", "cancel")
    /\ UNCHANGED <<vars, tickMode, m_connectionStatus, lockVars, pending, batch, broker, m_events,
                   call, resume, countVars, holder, misreported>>

\* A packet that comes during a tick is left to the next one.
BrokerSends(answer) ==
    /\ crashed = "no" /\ pc["tick"] = "idle" /\ m_connectionStatus = "CONNECTED"
    /\ received' = Append(received, answer)
    /\ UNCHANGED <<vars, tickMode, m_connectionStatus, lockVars, pending, queueVars, m_events,
                   threadVars, requests, connections, cutOff, holder, misreported>>

BrokerAnswers ==
    \E request \in broker :
        BrokerSends(request) /\ broker' = broker \ {request} /\ UNCHANGED strays

\* Bounded to the first packet of the first connection.
BrokerAnswersUnasked ==
    \E kind \in Kinds, id \in PacketIds :
        /\ strays < StrayAnswers /\ connections = 1 /\ received = <<>>
        /\ BrokerSends([kind |-> kind, id |-> id, request |-> 0])
        /\ strays' = strays + 1
        /\ UNCHANGED broker

ThreadStep(t) ==
    \/ RequestIdentified(t) \/ RequestPushes(t) \/ AddToQueue(t)
    \/ InternalDisconnect(t) \/ CancelComposer(t) \/ ClearState(t) \/ CallbackReturns(t)

TickStep ==
    \/ BatchSent \/ AnswerReceived \/ AllReceived \/ RedirectionStarted \/ RedirectionFailed
    \/ ClosingTold \/ InvokeEvents

RequestsNext ==
    \/ \E t \in Threads :
          \/ \E kind \in Kinds : RequestBegins(t, kind)
          \/ PublishBegins(t) \/ DisconnectBegins(t) \/ ThreadStep(t)
    \/ ConnectionLost \/ TickSendPackets \/ TickUnconnected \/ TickStep \/ RedirectionReceived
    \/ NextAddress \/ RedirectionFails \/ RedirectionSocketFails
    \/ Connect \/ ConnectFails \/ BrokerAnswers \/ BrokerAnswersUnasked

RequestsSpec == RequestsInit /\ [][RequestsNext]_requestsVars

\* A thread that can go on does, and a mutex that is free is got.
FairRequestsSpec ==
    /\ RequestsSpec
    /\ \A t \in Threads : WF_requestsVars(ThreadStep(t))
    /\ WF_requestsVars(TickStep)

-----------------------------------------------------------------------------

Steps == {"idle", "identify", "push", "add", "lock", "cancel", "abandon", "clear", "sent",
          "receive", "redirect", "failed", "closed", "events", "callback"}

RequestsTypeOK ==
    /\ PoolInv
    /\ m_connectionStatus \in {"DISCONNECTED", "CONNECTED", "RECONNECTING"}
    /\ {m_mutex, queueMutex} \subseteq Threads \union {None}
    /\ pc \in [Threads -> Steps] /\ resume \in [Threads -> Steps]
    /\ \A k \in Kinds, i \in 1 .. MaxRequests :
          i \in DOMAIN pending[k] => pending[k][i].kind = k /\ pending[k][i].id \in 1 .. PoolSize - 1
    /\ \A i \in DOMAIN m_events : m_events[i] \in {"answer", "disconnect", "reconnect", "connect"}

\* A SUBACK is reported with the topics of the subscription it answers, over lost
\* connections, reused identifiers and redirections, when no connection ended in the
\* middle of a call or with its queue kept, and no redirection failed with a request queued:
\* behind those an entry is pending, or a request queued, whose identifier was given back
\* (handleReceivedSubscribeAcknowledge, subscribe, handleFailedReconnect, clearState).
SubscriptionsMatch == strays = 0 /\ cutOff = {} => "subscribe" \notin misreported

\* The same when a connection may end in the middle of a call (subscribe).
SubscriptionsMatchAnyTime ==
    strays = 0 /\ cutOff \subseteq {"call"} => "subscribe" \notin misreported

\* The same when a redirection may fail with a request queued: clearQueue gives its
\* identifier back, and without clearState it stays pending (handleFailedReconnect,
\* handleTimeOutReconnect).
SubscriptionsMatchRedirected ==
    strays = 0 /\ cutOff \subseteq {"queue"} => "subscribe" \notin misreported

\* The same of an UNSUBACK.
UnsubscriptionsMatch == strays = 0 /\ cutOff = {} => "unsubscribe" \notin misreported

Quiet == \A t \in Threads : pc[t] = "idle"

IdsHeldFor(kind) == {id \in m_usedIds : holder[id] = kind}

\* When nothing is going on, the identifiers in use for subscriptions are those of the
\* pending ones: none is lost and none is released early (clearState, cancel and
\* handleReceivedSubscribeAcknowledge each release some), under the same conditions.
IdsReturnedFor(kind) ==
    IdsHeldFor(kind) = {pending[kind][i].id : i \in DOMAIN pending[kind]}

SubscriptionIdsReturned ==
    Quiet /\ crashed = "no" /\ strays = 0 /\ cutOff = {} => IdsReturnedFor("subscribe")

\* The same of unsubscriptions.
UnsubscriptionIdsReturned ==
    Quiet /\ crashed = "no" /\ strays = 0 /\ cutOff = {} => IdsReturnedFor("unsubscribe")

\* Every call returns, every callback and every tick ends: no thread waits for a mutex
\* for ever (m_mutex, the send queue's mutex and the callbacks run under them).
CallsReturn == \A t \in Threads : pc[t] # "idle" ~> pc[t] = "idle" \/ crashed # "no"
=============================================================================
