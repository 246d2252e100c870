# A TLA+ verification of kmMqtt

kmMqtt is an MQTT 5.0 client library in C++14. This directory holds TLA+ models
of its client: the specifications, the TLC configurations that check them on
small instances, and proofs that TLAPS checks for every size.

To check a run: `tlc -config X.cfg M`, with `X.cfg` and `M` from the tables
below. To check the proofs: `tlapm M.tla` with `PacketIdPoolProofs`, `RequestsProofs`,
`SequenceLemmas`, `SendQueueProofs`, `ConnectionProofs`, `SessionProofs`, `KeepAliveProofs`
and `FramingProofs` for `M`.

1. [The system](#1-the-system)
2. [Modules](#2-modules)
3. [Runs](#3-runs)
4. [Where the code falls short](#4-where-the-code-falls-short)
5. [Bounds](#5-bounds)
6. [Fairness](#6-fairness)
7. [Proofs](#7-proofs)
8. [What is not modelled](#8-what-is-not-modelled)
9. [Plan](#9-plan)

## 1. The system

One object, `MqttClientImpl`, owns everything else. Up to three threads act on it:

- the **application's** thread, which calls `connect`, `disconnect`, `shutdown`,
  `publish`, `subscribe`, `unSubscribe`;
- the **tick** thread. In `SYNC` mode it is the application's thread, which
  calls `tick()` in its own loop; in `ASYNC` mode `tickAsync` runs a thread that
  ticks every 50 ms or when it is woken;
- the **socket's** thread, if the `IWebSocket` has one (`DefaultWebsocket` does).
  Otherwise the socket calls back from its own `tick()`.

A tick does, in this order: time-outs and the way from one connection to the
next; the batch of the send queue; the batch of the receive queue, whose
handlers do most of the work; keep-alive; the retries of publishes; the socket's
`tick()`; in `SYNC` mode the deferred events.

### Components

| Component | State | Operations | Behaves badly when | What makes it correct |
|---|---|---|---|---|
| **Packet identifier pool** (`Utils/PacketIdPool.h`) | `m_nextId`, the stack of released identifiers, the bitset of used ones | `getId`, `releaseId`, each under the pool's mutex | an identifier is released twice or by a stale acknowledgement; all are in use | no identifier is handed out while it is in use; the process survives until all are |
| **Send queue** (`Transport/SendQueue`, `Jobs/*Composer`) | the composers queued, the byte buffer, the metadata of tracked packets, retry counters, the graceful-clear flag | `addToQueue`, `sendNextBatch`, `clearQueue` | the socket takes a part of the buffer or fails; a packet fails to encode; the connection changes | the byte stream is that of the packets in order; "sent" is reported once and never early; no packet disappears or starves; order and quota hold |
| **Receive Maximum tracker** (`ReceiveMaximumTracker.h`) | an allowance and the identifiers that hold a part of it, per direction | increment, decrement | duplicates; acknowledgements for unknown identifiers | never more unacknowledged publishes than either side allows |
| **Connection life cycle** (`MqttClientImpl`, `MqttConnectionInfo.h`) | the status, the start time, the addresses left, the socket and its callbacks, the tick thread, the deferred events | the calls above; `tick`; the callbacks of the socket; the handlers of CONNACK and DISCONNECT | calls, ticks and callbacks interleave; a redirection meets a time-out; an answer of one connection is read in the next | each attempt ends and is reported once; a DISCONNECTED client holds no socket; only the answer of the present socket connects; a `shutdown` that is over leaves neither a status nor a socket |
| **Session** (`State/SessionState`, the publish handlers) | the list of messages with its map, identifiers, packets to retry | `publish`; the handlers of PUBLISH, PUBACK, PUBREC, PUBREL, PUBCOMP; retries; the merge on a new connection | late or lost answers; refusals; a session that is resumed or replaced | the delivery guarantees of each QoS in both directions; identifiers and messages agree; no publish is forgotten |
| **Framing and receive queue** (`handleSocketDataReceivedEvent`, `Utils.h`, `Transport/ReceiveQueue`) | the bytes left over, the two queues, the batch | `addToQueue`, `receiveNextBatch`, `clear` | a packet arrives in several chunks; a handler clears the queue it runs from | every byte received is in exactly one packet; packets are handled once, in order |
| **Addresses** (`Params/ConnectAddress.h`) | the address in use, those left, those used | `reset`, `tryCycleToNextPrimaryAddress`, `addAddresses` | a redirection names a known address, or several | every address is tried before the attempt fails; none is tried twice; a client that is sent somewhere goes there |
| **Subscriptions** (`MqttClientImpl`, `PendingSubscription`) | pending requests with their identifiers | `subscribe`, `unSubscribe`, SUBACK, UNSUBACK | the connection ends in between, or in the middle of the call | each answer is reported with the request it answers; identifiers return |
| **Keep-alive** (`MqttClientImpl`) | the interval, last-sent times, the ping flag | ping, time-out, PINGRESP | the interval exceeds 16 bits of milliseconds; a redirection comes between a ping and its answer | a silent broker is noticed, a healthy one is not given up, and none has a reason to cut the client off |
| **Topic aliases** (`TopicAliases`) | name-to-alias map | set, find | names are stored by reference | an alias means the same name on both sides |
| **Events and dispatchers** (`Deferrer.h`, `Dispatchers/*`) | deferred calls, the mutex of each event | defer, invoke | callbacks call the client | each event is delivered once; every call and callback returns |
| **Sockets** (`IWebSocket`, `DefaultWebsocket`, `WindowsTCPSocket`) | external to the client's logic | connect, send, close, tick | everything may fail or be late | the environment of the models |

### How they interact

`publish` takes an identifier from the pool, adds the message to the session and
a `PublishComposer` to the send queue. When the queue composes it, it asks the
tracker for allowance; a cancelled composer returns its identifier. The socket
hands bytes to the framing, which puts packets in the receive queue. The
receive queue calls the handlers. They update session, tracker and pool,
queue answers (whose "sent" notification updates the session again), and change
the status. A lost connection, a redirection and `disconnect` cut through all of
it: they clear some of the queues and not others, which is where most of the
problems listed below come from.

## 2. Modules

Definitions carry the names of the code where TLA+ allows it: `m_nextId`,
`ReleaseId`, `ClearQueue`. State variables that begin with `m_` are members of
the classes; most others say where a thread is, or hold the locals of a call, the
socket and the broker. Those listed under "History" in a module are not in the
code, only in the properties. A definition under a comment that begins with "Mutant:" is a
plausible mistake in the definition that follows it; no action uses it. With it
in the place of the correct one, a property of the runs is violated.

| Module | Models | Correspondence |
|---|---|---|
| `PacketIdPool` | `PacketIdPool.h` | `GetReleasedId` and `GetFreshId` are the two branches of `getId`; `ReleaseId` is `releaseId` with any identifier a packet can carry. Both hold the mutex from start to end, so each is one action. An access outside the bitset throws inside `noexcept`: `crashed`. |
| `PacketIdPoolProofs` | | The theorems about the pool. |
| `Requests` | subscribe, unSubscribe and the mutexes (`MqttClientImpl.cpp`, `SendQueue.cpp`) | Extends `PacketIdPool`: its identifiers are those of the pool, taken by `GetId`, given back by `ReleaseId`. A call is a run of steps of its thread (`pc`), split where a mutex is taken or given back or where the code shares what it does with the other thread: `RequestBegins`, `RequestIdentified`, `RequestPushes`, `AddToQueue`. A tick is `TickSendPackets`, `AnswerReceived` per SUBACK or UNSUBACK, `InvokeEvents`. `ClearState` and `CancelComposer` release one identifier per step. A redirection goes on to another address (`NextAddress`), succeeds (`Connect`) or fails: by `RedirectionFails` and `RedirectionFailed`, which clear the queue and nothing else (`handleFailedReconnect`, `handleTimeOutReconnect`), or by `RedirectionSocketFails`, which clears nothing. A callback is a place (`pc = "callback"`) from which the thread calls again or returns to what it was doing (`resume`), with the mutexes it holds. |
| `RequestsProofs` | | The theorems about the requests; those about the pool reach them through a refinement. |
| `ReceiveMaximumTracker` | `ReceiveMaximumTracker.h` | Operators on a record, one per member function. No lock: only the tick thread calls them. |
| `ReconnectAddress` | `ConnectAddress.h` | Operators on a record, one per member function of `ReconnectAddress`. |
| `KeepAlive` | `tickCheckKeepAlive`, the ping handlers and the CONNACK handler of `MqttClientImpl.cpp` | A tick is `TickSendPackets`, `TickReceivePackets`, `TickCheckKeepAlive`, and time passes between ticks. A reconnection succeeds (`Reconnected`) or fails without `clear()` (`ReconnectFails`). Times are ages. The broker has its own clock: how long it has heard nothing, and the age of the oldest ping it owes an answer to. |
| `KeepAliveProofs` | | The theorems about keep-alive. |
| `SendQueue` | `SendQueue.cpp`, the composers | One call of `sendNextBatch` is a run of actions, with `pc` at the steps between which the socket may close: `BeginSendNextBatch`, `GracefulClear`, `DelayPacket`/`ComposePacket`/`EncodeFails` per composer, `SocketTakes`/`SocketFails` per `send`, `EndPartlySent`, `EndSendError`. The queue's mutex is held throughout, so `QueuePacket` and `ClearQueue` happen between calls only. `ClearQueue` is the call in the handlers of a loss and of a send error, made once for a connection; behind a sent DISCONNECT only `clearQueue(true)` runs, which sets the flag that `GracefulClear` looks at in the next batch. A redirection opens the next socket with the queue as it is. Each byte is the serial number of its packet. |
| `SequenceLemmas` | | Lemmas about numbers and sequences that the proofs about the send queue, the connection, the session and the framing share. |
| `SendQueueProofs` | | The theorems about the send queue and the tracker in it. |
| `MCSendQueue` | | The packets of the instances. |
| `Connection` | `MqttClientImpl.cpp` | An action per handler, split where another thread can come in between (`ConnectBegins`/`ConnectEnds`, `TimeOutConnect`/`TimeOutConnectCloses`, ...). `tick`, `app` and `callback` say where each of the three threads is; `m_mutex` says who holds the lock. `TickModes`, `SocketThread` and `ErrorCallback` choose the threads. `shutdownCleanup` takes no mutex: where there is another thread it is three steps behind its first (`AppCleansUp`, `TickCleansUp`, `CallbackCleansUp`), and a callback of the socket ends by queueing its packet in a step of its own (`ConnectQueued`, `PacketQueued`). A `shutdown` that finds the tick thread told to stop returns at once (`MqttClientImpl.cpp:306-311`). |
| `ConnectionProofs` | | The theorems about the life cycle of a connection. |
| `MCConnection` | | The answers of the broker, the addresses of the application and the redirections of the instances. |
| `Session` | `SessionState`, `MessageContainer`, the publish handlers of `MqttClientImpl.cpp` | A tick is send, receive, retry, one packet per action. The list and the map of `MessageContainer` are one sequence whose entries say whether the map finds them. The broker follows the protocol and is external. |
| `Delivery` | | What a sender is promised, independent of MQTT: `Session` is checked and, for clean sessions, proved to implement it twice, for the client as sender (`Outgoing`) and as receiver (`Incoming`). |
| `SessionProofs` | | The theorems about the session and its refinements of `Delivery`. |
| `Framing` | `handleSocketDataReceivedEvent`, `Utils.h`, `ReceiveQueue.cpp` | `SocketDataReceived` is the whole callback: it joins, cuts and queues. `ReceiveNextBatch` is split around each handler, which may clear the queue (`HandleRedirection`) or end the batch (`DecodeFails`). |
| `FramingProofs` | | The theorems about the framing. |

`Session` and `SendQueue` both extend `ReceiveMaximumTracker`; `Connection`
extends `ReconnectAddress` and uses its operators in every connect, redirection
and failed reconnection; `Requests` extends `PacketIdPool`. The larger modules
overlap in thin seams only: `Connection` treats a packet as its kind and has no
partial sends; `SendQueue` has the partial sends and a connection that
only opens and closes; `Session` takes each batch as one transfer over a
connection that is there or not; `Framing` sees bytes and no meaning; `KeepAlive`
and `Requests` have connections that begin and end in one step. `Session`
contains the pool as a record, with the effect of `getId` and `releaseId`.

## 3. Runs

### Runs that pass

| Run | Module, configuration | Distinct states | What it shows |
|---|---|---|---|
| send_stream | `MCSendQueue`, `SendQueueStream.cfg` | 119,095 | A socket that takes any part of the buffer: the bytes taken and those buffered are those of the packets in order (`StreamIntact`); sent is never reported early (`NoEarlyNotification`); each packet is in one place (`NoPacketLost`); the quota holds (`QuotaRespected`); while there is a connection, a packet that waits is composed in the end, cancelled when the loss is handled, or left behind a sent DISCONNECT (`NoPacketStarves`). |
| send_faults | `MCSendQueue`, `SendQueueFaults.cfg` | 135,788 | A socket that takes all or nothing, two connections, encode failures, duplicates, and the error codes that are not taken for a part of the buffer (-1, 0 and 9, which is more than any buffer holds): a tracked packet is reported exactly once (`NotifiedAtMostOnce`, `NotifiedWhenSent`), publishes above QoS 0 keep their order (`QosOrderKept`). |
| conn_sync | `MCConnection`, `ConnectionSync.cfg` | 44,714 | Three connections, requests, hard disconnects, time-outs: at most one failure report per `connect()` and none after a success (`FailsAtMostOnce`); a connection starts with its CONNECT packet and carries nothing of an earlier one (`ConnectLeads`). |
| conn_sockets | `MCConnection`, `ConnectionSockets.cfg` | 173,108 | Every answer, up to two redirections, to named and unnamed servers, known and not, for a while and for good, refused sends, shutdown: a DISCONNECTED client has no socket (`NoOrphanSocket`); only the answer on the present socket connects (`ConnectedByOwnAnswer`); no address is contacted twice until one accepts the client (`NoAddressTwice`), when no redirection is for good to a server the client knows. |
| conn_async | `MCConnection`, `ConnectionAsync.cfg` | 987,309 | Both tick modes and a socket with a thread of its own, three threads in ASYNC mode: a `shutdown()` that has waited for the tick thread leaves the client DISCONNECTED and without a socket until `connect()` is called again, with no packet in its queues but that of one socket callback which was under way (`ShutdownStops`); no attempt lasts for ever (`AttemptEnds`). |
| session_clean | `Session`, `SessionClean.cfg` | 242,868 | Clean sessions with a lost connection: `Delivery` is implemented in both directions (`OutgoingDelivery`, `IncomingDelivery`); identifiers in use are those of messages, and return (`IdsAgree`, `IdsReturned`); lookups that are not tested succeed (`UpdatesFind`); a broker within the Receive Maximum is not cut off (`BrokerNotCutOff`). |
| session_resume | `Session`, `SessionResume.cfg` | 203,360 | QoS 1 over two lost connections, answers slower than the retry interval: no publish is forgotten (`NothingForgotten`) and each has an outcome in the end (`EveryPublishEnds`). |
| requests | `Requests`, `Requests.cfg` | 798,856 | Both tick modes, requests cut through by losses, disconnects and redirections that succeed, go on or fail, and a stray acknowledgement. Where no connection ended in the middle of a call, no redirection failed with a request queued, none ended with a request in a queue that was kept and no acknowledgement was stray, a SUBACK is reported with the topics of its own subscription (`SubscriptionsMatch`) and the identifiers in use for subscriptions are those of the pending ones (`SubscriptionIdsReturned`). Without such a condition no identifier is handed out twice, and the process ends by `getId` only when all are (`NeverIssuedTwice`, `ExhaustedOnlyWhenAllInUse`); no thread waits for a mutex for ever (`CallsReturn`). |
| keepalive | `KeepAlive`, `KeepAlive.cfg` | 50,105 | Intervals that wrap to 0, refused sends, redirections and reconnections that fail, a broker that may fall silent: a broker that answers in time is not given up (`HealthyBrokerKept`), none has reason to cut the client off (`NotCutOff`), a silent one is noticed (`SilenceNoticed`). |
| framing | `Framing`, `Framing.cfg` | 27,882 | As long as the left-over bytes are read once, every byte is in exactly one place between socket and handler (`BytesKeptWhileIntact`), packets are handled in order (`PacketsInOrder`) and in the end (`EveryPacketHandled`). |

The type invariants (`TypeOK`, and `RequestsTypeOK`, which contains the
inductive invariant `PoolInv` of the pool) are checked along with these.

### Runs that find a violation

| Run | Module, configuration | Property | What it shows |
|---|---|---|---|
| conn_loss_again | `MCConnection`, `ConnectionLossAgain.cfg` | `LossNoticed` | Every disconnect sets the socket's disconnect callback to null and nothing sets it again, so the loss of a later connection goes unnoticed: CONNECTED for ever. |
| framing_fragments | `Framing`, `FramingFragments.cfg` | `BytesKept` | After a packet that came in two chunks its first bytes stay in `m_leftOverBuffer` and are put before the next chunk too. |

## 4. Where the code falls short

The two violations above are findings in `PROJECT.json`. Further
counterexamples have a configuration each, kept outside the set of regular runs.
Each was met when a property failed in a wider instance than the one that
passes, or when a comment was made a property. `tlc -config X.cfg M`
reproduces it.

| Configuration (module) | Violates | What happens |
|---|---|---|
| `PacketIdPoolRange.cfg` (`PacketIdPool`) | `DocumentedRange` | `PacketIdPool.h:31` promises identifiers up to 65535; the bitset has no such bit, and the process ends instead of handing it out. |
| `SendQueueMetadata.cfg` (`MCSendQueue`) | `NotifiedAtMostOnce` | `SendQueue.cpp:423`: after a partial send the end indices of the metadata are not reduced: a packet is reported sent twice. |
| `SendQueueErrorCode.cfg` (`MCSendQueue`) | `StreamIntact` | `SendQueue.cpp:467`: a positive error code is taken for a number of bytes sent. |
| `SendQueueEncode.cfg` (`MCSendQueue`) | `NoEarlyNotification` | `SendQueue.cpp:225`: an encode error leaves metadata of packets that never reach the buffer. |
| `SendQueueDuplicate.cfg` (`MCSendQueue`) | `QuotaRespected` | The acknowledgement of one copy of a retried publish gives back the allowance both copies need. |
| `SendQueueRemainder.cfg` (`MCSendQueue`) | `RemainderSentNextTick` | `SendQueue.cpp:165` returns when no packet is queued: bytes left over wait for the next packet, not for the next tick (`SendQueue.h:41`). |
| `SendQueueGraceful.cfg` (`MCSendQueue`) | `ConnectNeverCancelled` | `SendQueue.cpp:173`: the flag of a graceful disconnect cancels the CONNECT of the next connection. |
| `ConnectionGraceful.cfg` (`MCConnection`) | `StaysDisconnected` | A CONNACK handled after the disconnect sets CONNECTED again; nothing looks at the status. With `TickModes = {"ASYNC"}` and `DisconnectArgs = {"hard"}` it does so for a disconnect that completes while the CONNACK is being handled. |
| `ConnectionRedirect.cfg` (`MCConnection`) | `FailsAtMostOnce` | A `connect()` is reported failed although it was reported connected before (the broker moves the client, the new socket fails). With `Answers = {"present"}`: failed and then connected (a CONNACK with an unknown session: no return at `MqttClientImpl.cpp:992`). With three threads (as in `ConnectionAsync.cfg`) it is also reported failed twice: the tick reads a start time not set yet. |
| `ConnectionAddresses.cfg` (`MCConnection`) | `OtherAddressesTried` | `MqttClientImpl.cpp:794` overwrites the status it is about to test: the next address is not tried. |
| `ConnectionComesBack.cfg` (`MCConnection`) | `NotSentBack` | `MqttClientImpl.cpp:899`: a CONNACK resets the addresses to those `connect()` was given, wherever the client is. One that is connected through B and sent on "somewhere" is sent to B. |
| `ConnectionSockets.cfg` with `Redirections <- ToKnown` (`MCConnection`) | `TypeOK`, `NoAddressTwice` | `MqttClientImpl.cpp:573-575`: a redirection for good leaves the server it names among the others: when that server refuses, it is contacted again. |
| `ConnectionNamedServer.cfg` (`MCConnection`) | `GoesWhereSent` | `MqttClientImpl.cpp:566-569`: the server a redirection names is put behind those the application gave, and the first of these is taken. |
| `ConnectionResult.cfg` (`MCConnection`) | `ResultReported` | The error callback of `DefaultWebsocket` shuts the client down before the failed connect is reported. |
| `ConnectionShutdown.cfg` (`MCConnection`) | `ShutdownNeverIgnored` | `MqttClientImpl.cpp:306-311`: a `shutdown()` of the application that comes while the error callback's is under way finds `m_isRunningAsync` false and returns `No_Error` at once: the tick thread still runs and the client may be CONNECTING. The message at line 309 says the client is "not running asynchronously". |
| `SessionRetry.cfg` (`Session`) | `ExactlyOnce` | A PUBREC later than the retry interval: PUBREL and the retried PUBLISH leave in that order, and the broker delivers the message again. |
| `SessionIds.cfg` (`Session`) | `IdsAgree` | The broker's identifiers share the client's map: one replaces the other. |
| `SessionCrash.cfg` (`Session`) | `UpdatesFind` | `SessionState.cpp:121` dereferences the end iterator when a PUBREC is late. |
| `SessionIncoming.cfg` (`Session`) | `IncomingDelivery` | The broker's repeated QoS 2 publish reaches the application again. With `INVARIANT NothingInvented` in the place of the property: the received publish is resumed as an empty publish of the client. |
| `SessionReusedId.cfg` (`Session`) | `OutgoingDelivery` | A publish cancelled by a lost connection returns its identifier while its message is resumed: the outcome is reported for another publish. |
| `FramingLoneByte.cfg` (`Framing`) | `BytesKeptWhileIntact` | `Utils.h:63`: a chunk of one byte, or one that ends a byte after an empty body, loses it. |
| `RequestsAbandoned.cfg` (`Requests`) | `SubscriptionsMatchRedirected` | `MqttClientImpl.cpp:713`, `1405`, `1466`: a redirection that fails clears the queue and not the state. A `subscribe` still queued gives its identifier back (`SubscribeComposer::cancel`) and stays in `pendingSubscriptions`; on the next connection another one takes the identifier, and its SUBACK is reported with the topics of the first. |
| `RequestsLeak.cfg` (`Requests`) | `UnsubscriptionIdsReturned` | `MqttClientImpl.cpp:752` gives the identifiers of pending subscriptions back, and no others. With `UnsubscriptionsMatch` in the place of the invariant: a pending unsubscription outlives its connection; when its identifier is used again, the UNSUBACK of the later one is reported with the topics of the earlier. |
| `RequestsStraddle.cfg` (`Requests`) | `SubscriptionsMatchAnyTime` | ASYNC: the connection ends and another begins while `subscribe` is between its steps; the request goes out with an identifier that was given back. |
| `RequestsCallback.cfg` (`Requests`) | `CallsReturn` | SYNC: the deferred callbacks run under `m_mutex`; one that subscribes waits for a mutex its own thread holds. With `TickModes = {"ASYNC"}`: the same from a reconnect event, dispatched under the mutex. |
| `KeepAliveRedirect.cfg` (`KeepAlive`) | `HealthyBrokerKept` | A redirection does not clear the connection info: the ping the last server owed an answer to times out on the next one, which answers. |
| `KeepAliveQuiet.cfg` (`KeepAlive`) | `NotCutOff` | Without `pingAlways`: `controlPacketSent` is set by a batch and reset by none, so no ping is ever due, and the broker hears nothing. |

These also say where the runs that pass are narrow: no partial sends with
`NotifiedAtMostOnce`; no duplicates with `QuotaRespected`; no redirections, no
refused sends and no socket thread with `ConnectLeads`; no
redirection for good to a known server with `NoAddressTwice`; error codes that are
not taken for a part of the buffer with `NotifiedAtMostOnce`; no connection that
ends in the middle of a call or keeps a queue with a request in it, and no redirection
that fails with a request queued, with `SubscriptionsMatch` and `SubscriptionIdsReturned`; callbacks that only publish with
`CallsReturn`; no redirection while a PINGRESP is awaited with
`HealthyBrokerKept`; `pingAlways` with `NotCutOff`; no resumed session with
`UpdatesFind` and `Delivery`; no publish after a disturbance with
`EveryPublishEnds`; cuts elsewhere for the framing. Each hazard in
`PROJECT.json` says so in its note.

## 5. Bounds

| Run | Bounds | Why they are enough |
|---|---|---|
| send_* | 4 packets; Receive Maximum 1; 1 or 2 connections; `SendAttempts` 4, `MaxLocalRetries` 2, `MaxBatchRetries` 3 as in the code | A CONNECT, two publishes that compete for the quota and one more packet in any order; packets of 1 and 2 bytes, so that a cut inside a packet and between packets both occur. |
| conn_* | 1 to 3 `connect()` calls, 2 sockets (3 in conn_sockets), 2 addresses of the application and one it has not named, 1 request in conn_sync and none elsewhere | A later connection can meet what two earlier ones left; a redirection needs a second socket, one that follows another a third; a server that is named may be new, known, or not the only one; each thread has its own position. |
| requests | `PoolSize` 3 (two identifiers), 3 requests, 2 connections, 1 stray acknowledgement | The third request needs an identifier that came back; what a first connection left is met by the second. The pool itself is proved for every size. |
| keepalive | `MsPerSec` 2, `Wrap` 16 (1000 and 65536 in the code), keep alive times 0, 3 and 8, a SERVER_KEEP_ALIVE of 4 or none, ping time-out and answers 3, default interval 5, 1 refused send in a row, 2 connections; ages from `Forever` = 25 on are one | A keep alive time of 8 wraps to 0; the others give intervals above and below the time-out and the default; 25 is beyond one and a half times the longest keep alive time, 24. |
| session_clean | 2 publishes each way, Receive Maximum 1, 1 loss | Two messages compete for one allowance and one identifier; the loss puts a message into the next session's way. |
| session_resume | 2 publishes, 2 losses, retry interval 1, `MaxInFlight` 4 | A message is resumed, retried and resumed again. `MaxInFlight` only stops ticks while that many packets wait for the broker. |
| framing | lengths to the base 2 (128 in the code), bodies of 0 and 2 bytes (in framing_fragments also 1), cuts at packet ends and after 2 bytes, 3 packets, 2 connections | With base 2 a body of 2 bytes has a length of two digits, and the cut after 2 bytes is inside it. |

Time is abstracted: a time-out may have passed or not, the retry interval is
counted in steps of `TimePasses`, and a tick inside the send queue's retry delay
of 250 ms, which changes nothing, has no action. In `KeepAlive` a unit of time
stands for a millisecond of the code and has a tick; real ticks are up to 50 ms
apart, which adds as much to every gap. Deadlock is checked in conn_sync,
conn_sockets, session_clean, session_resume and keepalive, where ticks go on for
ever. The other models stop by design: when the bounds are used up, after a
`shutdown()`, or when the pool has ended the process.

## 6. Fairness

- **Ticks** go on: in `ASYNC` mode the thread of `tickAsync` waits at most 50 ms
  (`tickAsyncWaitForMS`); in `SYNC` mode the application's loop calls `tick()`.
  Ticks are weakly fair except in `Connection`, where strong fairness says that
  a mutex that is free again and again is obtained and that an application which
  calls the client again and again still ticks in between.
- **Calls end**: the second halves of `connect`, `disconnect` and of requests,
  the joins and the clean-up of `shutdown`, and the ends of the socket's callbacks
  (`ConnectQueued`, `PacketQueued`, `CallbackCleansUp`, `ErrorReports`) are weakly fair. In `Requests` each step of a
  thread that has begun a call or a tick is: a thread that is not waiting for a
  mutex goes on, and a callback returns.
- **Time** passes (`KeepAlive`): strongly fair, since ticks and calls between two
  moments are finitely many.
- **The socket** delivers what it has, reports its loss (`SocketClosed`), and
  when asked again and again takes some bytes: the strong fairness in
  `SendQueue` is on a send that makes progress, as every send of a live TCP
  connection does in the end. Nothing says that a socket opens, or that the
  broker answers a CONNECT: `AttemptEnds` depends on the time-out alone.
- **A loss is handled** (`ClearQueue` in `SendQueue`): the tick or the socket's callback
  that notices it calls `clearQueue`.
- **The broker** acknowledges (`Acknowledge`, `ConnAck` in `SendQueue`,
  `BrokerReceives` in `Session`) as the protocol requires. Strong fairness there
  covers an acknowledgement that waits while batches run. In `Session` the same
  goes for a packet on its way, which a lost connection interrupts.
- **The application** connects again after a loss (`Session`).

## 7. Proofs

`PacketIdPoolProofs` proves of `PacketIdPool`, for every `PoolSize` and
`MaxPacketId` with `1 < PoolSize <= MaxPacketId` (`PoolAssumption`; both 65535
in the code):

| Theorem | Statement |
|---|---|
| `PoolInvariant` | `Spec => []PoolInv` |
| `PoolTypeCorrect` | `Spec => []TypeOK` |
| `PoolNeverIssuesTwice` | `Spec => []NeverIssuedTwice`: whatever identifiers the broker's packets make the client release, and however often, `getId` returns none that is in use. |
| `PoolExhaustion` | `Spec => []ExhaustedOnlyWhenAllInUse`: `getId` ends the process only with every smaller identifier in use. |

`NeverIssuedTwice` is not inductive. An identifier is safe to hand out because
it is either on the stack or not below `m_nextId`, and neither is used. `PoolInv`
adds exactly that: the stack has no repetition; used and released identifiers
are below `m_nextId`; an identifier below `m_nextId` is used or released and not
both; the count of the history agrees with the bitset. One lemma shows that
each action preserves it: for `GetReleasedId` that popping removes exactly the
top, because the stack has no repetition; for `GetFreshId` that `m_nextId` was
in neither set; for `ReleaseId` that `flip` after a successful test clears the
bit, and that the identifier pushed was not on the stack since it was used.
TLC checks `PoolInv` in the run `requests` as well, as a part of
`RequestsTypeOK`.

`KeepAliveProofs` proves of `KeepAlive`, for every value of its constants that
satisfies `KeepAliveAssumption` (their types: positive times, server keep alive
times that fit 16 bits):

| Theorem | Statement |
|---|---|
| `KeepAliveTypeCorrect` | `Spec => []TypeOK`; with it that what a CONNACK leaves in the 16-bit member always fits it. |
| `KeepAliveKeepsHealthyBroker` | `Spec => []HealthyBrokerKept`, assuming `AnswerTime <= PingTimeOut` and `~RedirectWhileAwaiting`. |
| `KeepAliveNotCutOff` | `Spec => []NotCutOff`, assuming `PingAlways` and `RoomForPings`. |

`~RedirectWhileAwaiting` and `PingAlways` (the default of the code) are needed:
`KeepAliveRedirect.cfg` and `KeepAliveQuiet.cfg` are the counterexamples without
them.

`HealthyBrokerKept` speaks of a time-out, and nothing in the client's own state
says that an answer is late. `AnswerInv` ties its clock to the broker's: a ping
the client awaits is either not older than the oldest one the broker still owes
an answer to, or its answer lies in the receive queue. The time-out is looked at
after the receive queue was emptied, in the same tick; hence the case of an
answer that is one unit too old and will be read before anybody looks.

`NotCutOff` speaks of the broker's clock alone. `SilenceInv` bounds it by the
client's: `silence <= sinceLastPing`, and `silence` is at most the longest gap
(the interval, or the time-out of a ping when that is longer) plus one unit for
each send in a row the socket refused. Once a ping is due every tick queues one,
so that a unit of time without a packet uses up a refused send. `RoomForPings`
then compares the gap with one and a half times the keep alive time. It is a
condition on the constants: with those of the code (1000 ms, 16 bits, a time-out
of 10 s, a default interval of 15 s) it holds for keep alive times of 7 s and
more as long as less than half a second of sends is refused in a row. The
wrap-around to 16 bits only shortens the interval, except for multiples of
8192 s, where it leaves 0 and the default is used; a SERVER_KEEP_ALIVE, in seconds
and taken for milliseconds (`MqttClientImpl.cpp:905`), shortens it a thousandfold.
TLC checks `AnswerInv`, `SilenceInv` and `RoomForPings` too when they are added to the
invariants of `KeepAlive.cfg`.

`SequenceLemmas` holds what the proofs below need of recursive definitions. The
induction theorems of the library take an operator as a parameter, which the
provers cannot instantiate; `Induction` is stated for a set instead and follows
from the least element of a set of numbers. From it comes `FunctionByRecursion`,
that a recursive function over the naturals has the values its equation gives, and
from that what `FlattenSeq` computes of every sequence of sequences.

`RequestsProofs` proves of `Requests`, for every value of its constants that
satisfies `RequestsAssumption` (threads, tick modes, callbacks of any kind, a pool
of any size):

| Theorem | Statement |
|---|---|
| `RequestsUseThePool` | `RequestsSpec => Spec`: every step of the calls, ticks and handlers is a step or a stutter of `PacketIdPool`. |
| `RequestsNeverShareAnId` | `RequestsSpec => []NeverIssuedTwice`, from the theorem about the pool. |
| `RequestsExhaustion` | `RequestsSpec => []ExhaustedOnlyWhenAllInUse`, from the theorem about the pool. |
| `RequestsTypeCorrect` | `RequestsSpec => []RequestsTypeOK`. |
| `SubscriptionsAlwaysMatch` | `RequestsSpec => []SubscriptionsMatch`. |
| `SubscriptionIdsAlwaysReturned` | `RequestsSpec => []SubscriptionIdsReturned`. |

The last two say what they say under the conditions in the properties themselves
(`strays = 0`, `cutOff = {}`), which the counterexamples of section 4 show to be
needed: no answer to a request nobody made, no connection that ended in the middle of a
call (`RequestsStraddle.cfg`), no redirection that failed with a request queued
(`RequestsAbandoned.cfg`), and no connection that ended with a request in a queue that
is kept: by a disconnect with `clearQueue = false`, or by a redirection whose socket
reported a failure, which cancels nothing (`MqttClientImpl.cpp:794-803`). Redirections that fail with nothing queued are within them,
and leave entries pending whose identifiers stay in use.

They need the whole of `RequestsInv`. Besides the types and `PoolInv` it
says who may be where: a redirection is handled with the tick's mutex held
(`RedirectionLocked`), a connection that is being ended is no longer reported
connected (`EndingIsDisconnected`). As long as nothing has crashed and the conditions hold, a
queue that a failed redirection clears has no request in it (`Abandoned`), and every
identifier in use is accounted for (`Tracked`): it is held by a call that has not
been queued yet, by a packet in the queue, in the batch being sent, with the
broker, or in an answer on its way, by exactly one of these, and the map of pending
requests has an entry for each that was queued.

`SendQueueProofs` proves of `SendQueue`, for every value of its constants that
satisfies its assumptions:

| Theorem | Hypotheses | Statement |
|---|---|---|
| `TypeCorrect` | none | `Spec => []TypeOK` |
| `QosOrder` | none | `Spec => []QosOrderKept`: packets of QoS 1 and 2 are composed in the order they were queued in, whatever is delayed, cancelled, retried or lost. |
| `StreamStaysIntact` | `SendErrors` has no positive code | `Spec => [](connections <= 1 => StreamIntact)`: the bytes on the wire are the beginning of those of the packets composed, none twice and none left out. |
| `NotificationsNotEarly` | `EncodeMayFail = FALSE`, `SendErrors` has no positive code | `Spec => []NoEarlyNotification`: no packet is reported sent before its last byte was. |
| `PacketsAccountedFor` | `EncodeMayFail = FALSE` | `Spec => []NoPacketLost`: a packet that was queued is queued, composed or cancelled. |
| `QuotaNeverExceeded` | `Retries = FALSE` | `Spec => [](connections <= 1 => QuotaRespected)`, for every Receive Maximum. |
| `ReportedAtMostOnce` | `WholeSends` | `Spec => []NotifiedAtMostOnce` |
| `ReportedWhenSent` | `WholeSends` | `Spec => []NotifiedWhenSent`: when the buffer is empty at the end of a tick, each tracked packet composed has been reported. |

The hypotheses are what the code does not withstand, and a run is the
counterexample without each: a positive error code is taken for bytes sent
(`SendQueueErrorCode.cfg`); an encoding error drops a batch and leaves its metadata
(`SendQueueEncode.cfg`); a publish queued again while in flight takes a second
allowance (`SendQueueDuplicate.cfg`). `WholeSends` says that a send takes the whole buffer or
none of it, as `DefaultWebsocket` does, and that no error code is positive: after a
partial send the records keep the ends they had (`SendQueueMetadata.cfg`), and so they do
after a positive code, which the client takes for a partial send; with
`SendErrors = {-1, 1, 2}` and `PartialSends = FALSE` TLC finds a packet reported twice.
Encode errors, duplicates, failed batches and any number of connections are in the
two theorems that assume it. `connections <= 1` is there because the
sends of a new connection begin with the bytes and the tracker of the old one:
its batch is composed before the CONNACK brings a new tracker.

`QosOrderKept` is inductive together with `Order`: the queue, then what the present
batch delays, lie behind what was composed. `StreamIntact` follows from `Stream`, which
says where each byte is, while nothing has been dropped (`Untouched`).
`NoEarlyNotification` is about counts of bytes: the client walks a list of the
places in the buffer where packets end and takes what was sent off each.
`Notification` says that the records cover no byte that is not sent or in the
buffer, and `WalkTyped` and the lemmas after it what the walk, a recursive function,
computes. `NoPacketLost` needs that the places a packet may be in are disjoint
(`Partition`). What is reported once is the subject of `ReportedOnce`: a packet that
waits is in no record and has not been reported, a packet is in one record at most or is
the ping of the batch, and one that was reported is in none. A failed batch breaks the
first part, for its packets are put back in the queue while their records stay, and the
proof has to say for how long: until `isRecoverable` is false and the queue is cleared.
`ReportedInTime` adds that a tracked packet composed has a record until it is reported and that
its bytes are in the buffer as long as it has one, so that an empty buffer leaves
nothing to report. `QuotaRespected` rests on three things: an allowance and its holders
add up to the maximum (`TrackerBalanced`); each publish in flight holds its part
(`QuotaHeld`); one live tracker gives the allowances of a connection (`OneLive`).

`ConnectionProofs` proves of `Connection`, for any number of sockets, connections and
calls:

| Theorem | Hypotheses | Statement |
|---|---|---|
| `StoppedByShutdown` | none | `Spec => []ShutdownStops`, in both modes, with socket callbacks between the steps of the clean-up and shutdowns that overlap. |
| `TypeCorrect` | redirections are temporary (`AddressesOf`) | `Spec => []TypeOK`, with the address information. |
| `SocketsClosed` | one thread; `connect` of a socket does not throw | `Spec => []NoOrphanSocket` |
| `ConnectedByOwnAnswerOnly` | one thread; no graceful disconnect | `Spec => ConnectedByOwnAnswer` |
| `FailuresToldOnce` | one thread; the broker neither claims a session the client does not know nor moves a connected client | `Spec => []FailsAtMostOnce` |
| `ConnectPacketLeads` | one thread; sends do not fail; no disconnect keeps the queue; the broker moves no one | `Spec => []ConnectLeads` |

"One thread" (`OneThread`) is SYNC mode with a socket that calls back from the
tick, as the bundled Windows socket does. With any one hypothesis left out, TLC finds
the property violated in a small instance; the ones that say most have a row in
section 4. What the theorems add to the runs is that nothing else is in the way: any
number of losses, refusals, redirections, time-outs and calls from callbacks.

`Typed` is the part of `TypeOK` every interleaving keeps. `Stopping` is the
invariant behind `StoppedByShutdown`. It follows the clean-up step by step, in whichever
thread it runs: once the socket is closed (`Cleaned`) no callback of it can begin; at most one is under way
(`Late`), whose packet may come behind the step that cleared its queue; the tick thread
has left its loop, and in SYNC mode the tick is between its own steps, so that nothing but `connect()`
opens a socket again. It does not say that `shutdown()` always waits: one that finds the
thread told to stop does not (`ConnectionShutdown.cfg`).
`Turns` says what one thread gives:
the mutexes are free between ticks, and at most one of the tick and the socket's
callback has begun. On it rest `Orphan` (an open socket is the one the client has, or
is closed later in the same handler), `Flow` and `Waits` (an answer on its way
belongs to the CONNECT packet sent over its socket, and a client CONNECTING has
received none), `Outcomes` (what a `connect` is still due, what it was told) and
`Leading` (where the CONNECT packet may be in the queue, the buffer and on the wire).
`Addressed` is about the lists of addresses: no address is twice among those
waiting, tried and in use.

For redirections for good `TypeOK` is not a theorem, as TLC showed to be
a fact about the code (the row of `ConnectionComesBack.cfg` in section 4).

`SessionProofs` proves of `Session`, for any number of publishes, connections and
losses, every Receive Maximum and any identifiers of the broker:

| Theorem | Statement |
|---|---|
| `TypeCorrect` | `Spec => []TypeOK`, also with late answers. |
| `SessionInvariant` | `Spec => []SessionInv` |
| `IdentifiersAgree` | `Spec => []IdsAgree` |
| `UpdatesAlwaysFind` | `Spec => []UpdatesFind`: the lookups that are not tested succeed. |
| `BrokerNeverCutOff` | `Spec => []BrokerNotCutOff` |
| `IdsAllReturned` | `Spec => []IdsReturned` |
| `OutgoingDelivered` | `Spec => OutgoingDelivery`: each step is one of `Delivery` or none, for the application's publishes. |
| `NeverDeliveredTwice` | `Spec => []ExactlyOnce`: no publish with QoS 2 reaches the broker's subscribers twice. |
| `IncomingDelivered` | `Spec => IncomingDelivery`, for the broker's publishes. |
| `PublishesRemembered` | `Spec => []NothingForgotten`, for sessions that are resumed, with late answers, retries and any number of losses. |

`TypeCorrect` assumes that no session is resumed (`Resume \subseteq {FALSE}`). The
others, except the last, assume `CleanSessions`: in addition answers come within the retry interval,
which is not 0, and the broker's identifiers are none of `1 .. MaxPublishes`, from which
the client takes its own. The code withstands none of it, and a configuration of
section 4 is the counterexample without each: `SessionReusedId.cfg`,
`SessionIncoming.cfg` for a resumed session,
`SessionRetry.cfg` and `SessionCrash.cfg` for late answers, `SessionIds.cfg` for
identifiers that meet in the client's map. `NeverDeliveredTwice` is what remains of
"Full QoS support" (`README.md:33` of the repository).

None of these properties is inductive. A PUBCOMP may release an identifier because
no other packet carries it, and that is so because of what every packet before it
was. `SessionInv` says it once for all:

- `OnePacketEach`: at any time a handshake has exactly one packet, queued, set aside by
  the batch, or on its way in either direction. Every handler takes a packet and queues
  at most one with the same identifier, which is why the retries would break it.
- `Matched`: each message of the session, and each identifier the broker remembers, has
  such a packet.
- `Fits`: what the packet says. A PUBREL of the client means that the broker has
  delivered the message, a PUBCOMP of the client that the session has forgotten the
  broker's publish, a PUBLISH of the broker that neither the session nor the tracker
  knows it yet, an acknowledgement that a message of the client awaits just that.
- `Owned`, `Pooled`, `Listed`: the message under an identifier is the last publish that
  was given it, its identifier is in use, its outcome has not been told.
- `Balanced`: the receive allowance and its holders add up to the Receive Maximum, and
  the holders are publishes the broker has not finished. With `PromisedCount` and
  `ArrivalAllowed` the allowance is never 0 when a new publish arrives.

While the client is not connected the packets are gone and the messages left behind
have none; `Live`, the part about messages, tracker and packets, is stated for a
connection, and a new one begins with an empty list. The pool does lose identifiers
there, those of the messages whose publish was already sent, which is why
`IdsReturned` speaks of the first connection only.

One lemma per action shows that it preserves `SessionInv`. They rest on a few about how packets
move (`SendMoves`, `ReplyMoves`, `AnswerMoves`, ...), on what a recursive function computes
that releases the identifiers of a cleared queue (`AfterCancel`), and on the list of
messages as a set (`KeptOf`). The refinements then look at one action each:
`BrokerAccepts` is `Deliver` because the packet on its way says that nothing was
delivered before; the end of a publish is `Complete` or `Refuse` because `Known`, the
application's own record of the identifier, names the message in the session;
`BrokerSettles` is `Complete` for the broker because the application has the publish.

`PublishesRemembered` cannot use any of this. In a resumed session duplicates of the
same packet are under way, so `OnePacketEach` is false, and acknowledgements arrive for
messages that are gone. It assumes `ResumedSessions`: every connection resumes the
session (otherwise the message list is dropped, as it should be), the two sides' identifiers are
apart (`SessionIds.cfg`), and the application publishes before the first loss or late answer. The last is
`SessionReusedId.cfg`: a publish that `clearQueue` cancels gives its identifier back while the session
still has its message. The invariant, `Remembered`, speaks of the list of messages instead of the packets. An
entry is a message of the broker under one of its identifiers, or the publish `n`
under `ids[n]`, which no later publish has taken; no two entries of the client share an
identifier; a PUBREC or PUBCOMP of the client, and a PUBREL of the broker, carry an
identifier of the broker only (`Parcels`), so that nothing the broker's handshakes do
removes a publish of the client. Then a publish of the client leaves the list only in
a handler that reports its outcome; the merge on a new connection (`Restored`), the retries and
the broker's second copies keep every entry. Until the last publish has been made the
state is one of `SessionInv`, which is where the proof takes up what holds of it.

Three conjuncts came out of attempts that failed and were confirmed by TLC before they
were used: that a PUBACK on its way means that no message has its identifier, that
publishes are settled only if they were sent, and that the tracker holds none whose
last answer has left.

`FramingProofs` proves of `Framing`, for every value of its constants that satisfies
`FramingAssumption` (any base of the length's digits, any bodies, packets and connections):

| Theorem | Hypothesis | Statement |
|---|---|---|
| `TypeCorrect` | none | `Spec => []TypeOK`: whatever bytes arrive and wherever they are cut, each packet handed on has the length its header states and the bytes left over are less than a packet, also when left-over bytes were read twice. |
| `EveryByteKept` | `1 \notin Cuts` | `Spec => []BytesKeptWhileIntact` |
| `HandledInOrder` | `1 \notin Cuts` | `Spec => []PacketsInOrder` |

`1 \notin Cuts` says that no chunk ends behind the first byte of a packet; with such a cut
`FramingLoneByte.cfg` loses the byte. That a packet may be cut anywhere else, inside the
digits of its length too, is what the theorems add to the run. `intact` in both properties
leaves out the finding of `FramingFragments.cfg`.

The proof begins with the recursive functions. `RecursiveFunction` says that an
equation defines a function when each of its values depends on the values of arguments
with a smaller measure only; `Digits`, `FromDigits` and the rounds of `Separate` are
three cases of it. `DigitsNumeral` is the round trip of the variable byte integer: what
`encodeValue` writes, `decodeBytes` reads. About one packet there are two lemmas: a
buffer that begins with all bytes of a packet states its length (`WholeFirst`), and one
that holds only some of them states more than it holds (`PartFirst`), because the digits
it has are the packet's or the last one is missing. From these, by induction from the end of
the buffer, `SeparateTidy` for any bytes, and `SeparateDivides`: if a buffer and what is still to come are
packets of the broker, then those cut off are the first of them, and what is kept with what is still to
come are the others. The induction carries that the read
cursor is before the first byte of the packet to come, so that the test at `Utils.h:63`
gives up only in front of a last, lone byte.

The invariant `Kept` then is: the packets handled and waiting, in order, are a beginning
of those sent, the bytes that arrived are theirs and the ones kept, and the ones kept
with the rest of the stream are the packets that remain. It needs `IdleEmpty` (between batches the
queue in progress is empty, so that the swap of the two queues loses nothing) and
`StreamSent` (a byte in the stream is of a packet that was sent). While it holds no handler
fails to decode (`NothingFails`), so that no batch is dropped.

Model-checked only:

- The liveness properties (`NoPacketStarves`, `AttemptEnds`, `EveryPublishEnds`,
  `EveryPacketHandled`, `SilenceNoticed`, `CallsReturn`), which need fairness.
- `NoAddressTwice` of `Connection`, which speaks of what was tried between two accepted
  connections and does not hold when a redirection for good names a known server.

## 8. What is not modelled

- **Topic aliases**: `TopicAliases.h:23` keeps a pointer to the characters of a
  name whose string is local to the handler. What a later lookup compares with is
  undefined, so no property of the map can be stated that the code decides.
- **`shutdown` of a client with requests pending** is in `Connection` and not in
  `Requests`. In SYNC mode it clears the queue and then the state, as a disconnect does.
- **Bytes of a request a socket refused** are in `SendQueue` and `Connection`; in
  `Requests` a batch is sent whole or not at all.
- **The mutex of an event** and adding or removing listeners: `Requests` has the
  callbacks and the client's own mutexes, not those of `Event`. A callback that
  calls `shutdown` in SYNC mode waits at `removeAll` (`MqttClientImpl.cpp:335-340`)
  for the mutex `Event::invoke` holds around it.
- **Data races as such**: the retry loop reads the message list without the
  session's mutex, the SUBACK handler walks `pendingSubscriptions` without
  `m_mutex`, and `ReceiveQueue::clear` takes no lock. Reads of a single
  value without the mutex (the status, the start time) are modelled as they are,
  each at its own step.
- **Codecs**: packets are their type, identifier and QoS; only the length of a
  packet, which decides the framing, is encoded and decoded.
- **The network**: a socket is what `IWebSocket` allows it to be. The TCP socket
  for Windows is used for what its `recv`, `send` and error codes may return.
- **Reads past the end** of a short chunk (`Utils.h:72`) have no value a model
  could give them.
- **The dispatcher of options nobody set**: `MqttClientOptions.h:123` starts with a
  `DefaultDispatcher` in ASYNC mode, where the comment at lines 53-56 says that an
  `ImmediateDispatcher` is used; it is replaced when `tickMode` or
  `callbackDispatcher` is called. `DefaultDispatcher::dispatch` is empty, so with
  options nobody has set no event is delivered. The models have the dispatcher of
  the comment.
- **The persistent session store** is an interface nothing implements or calls.
- **`MqttClient`** forwards; environments, logger, options and results are data;
  the example, tests, benchmarks and build files were read for what they state.
  The JavaScript in the repository, under `docs/api`, is the search and navigation
  of the generated API pages and has no part in the client; the program is C++, and
  so is every line `PROJECT.json` maps.

## 9. Plan

Done, in this order: `PacketIdPool` and its proofs, `ReceiveMaximumTracker`,
`SendQueue`, `Connection`, `Delivery` and `Session`, `Framing`, `KeepAlive` and
its proofs, `Requests`, `ReconnectAddress` within `Connection`; then the proofs about
`Requests`, `SendQueue`, `Connection`, `Session` and `Framing`, with the two refinements of
`Delivery` for clean sessions and what a resumed one remembers.

To be modelled next:

1. The mutex of an `Event`, its listeners, and listeners that remove each other,
   as a part of `Requests`.
2. The unlocked reads of the session's list and of the pending subscriptions, as a
   choice over what a build can return.
3. `Session` with `INSTANCE PacketIdPool` in the place of its record.

To be proved next:

1. `Session` with resumed sessions and late answers: which of the two directions of `Delivery`
   survives for QoS 1 alone.
