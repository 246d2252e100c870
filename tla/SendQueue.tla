------------------------------ MODULE SendQueue ------------------------------
(***************************************************************************)
(* The outgoing queue of the client (Mqtt/Transport/SendQueue.cpp).        *)
(*                                                                         *)
(* Application threads and handlers queue packet composers.  Each tick     *)
(* calls sendNextBatch, which composes every packet that may be sent,      *)
(* appends the bytes to m_sendBuffer and offers the buffer to the socket,  *)
(* which may take all of it, a part, or fail.  sendNextBatch holds the     *)
(* queue's mutex, so no other operation of the queue interleaves with it;  *)
(* the socket has a thread of its own and may close at any point, so the   *)
(* call is split into one action per packet composed and per send.  A tick *)
(* inside the retry delay changes nothing and has no action.               *)
(*                                                                         *)
(* A packet is a record with a serial number n in queueing order, and each *)
(* byte in a buffer or on the wire is the serial number of its packet.     *)
(***************************************************************************)
EXTENDS Integers, Sequences, SequencesExt, FiniteSets, ReceiveMaximumTracker

CONSTANTS
    Templates,          \* the packets that may be queued, without their n
    ConnectPacket,      \* the template of the CONNECT packet
    ReceiveMaximum,     \* the broker's Receive Maximum
    MaxPackets,         \* bound: packets ever queued
    MaxConnections,     \* bound: sockets ever opened
    SendAttempts,       \* kMax_Partial_Send_Loops + 1, 4 in the code
    MaxLocalRetries,    \* maxLocalRetries, 2 in the code
    MaxBatchRetries,    \* k_maxSendBatchRetries, 3 in the code
    PartialSends,       \* whether the socket may take a part of the buffer
    SendErrors,         \* what getLastError may return after a failed send
    EncodeMayFail,      \* whether a packet may fail to encode
    Retries,            \* whether a publish may be queued again while in flight
    Null                \* a composer that has been moved from

ASSUME SendQueueAssumption ==
    /\ {ReceiveMaximum, MaxPackets, MaxConnections} \subseteq Nat
    /\ {SendAttempts, MaxLocalRetries, MaxBatchRetries} \subseteq Nat \ {0}
    /\ {PartialSends, EncodeMayFail, Retries} \subseteq BOOLEAN
    /\ SendErrors \subseteq Int
    /\ Templates \union {ConnectPacket} \subseteq
           [type : STRING, qos : 0 .. 2, id : Nat, size : Nat \ {0}]
    /\ ConnectPacket.type = "CONNECT"
    /\ Null \notin [type : STRING, qos : 0 .. 2, id : Nat, size : Nat \ {0}, n : Nat]

VARIABLES
    m_nextPacketComposersBatch, \* the queue
    m_sendBuffer,               \* composed bytes not yet taken by the socket
    m_packetsMetadataInBuffer,  \* tracked packets, each with its endByte
    m_sendBatchRetryCount,
    m_currentLocalRetry,
    m_startGracefulClear,
    isRecoverable,              \* of the last SendBatchResult
    tracker,                    \* the receive maximum tracker, Null before a CONNACK
    pc,                         \* where sendNextBatch is: idle, try, compose, send;
                                \* crashed: a null composer used, an escaped throw
    batch,                      \* the locals of trySendBatch
    socket,                     \* closed, opening (no CONNACK yet), established, lost
                                \* (broken or closed by the broker, which the client has
                                \* not handled)
    connections                 \* sockets opened so far

\* History: the number of packets queued; the packets composed for, and the
\* bytes taken by, the current socket; how often each packet was reported sent;
\* the packets cancelled; the publishes acknowledged; the packets whose last
\* byte some socket took.
VARIABLES added, composed, wire, notified, cancelled, acked, delivered

bufferVars == <<m_sendBuffer, m_packetsMetadataInBuffer>>
retryVars == <<m_sendBatchRetryCount, m_currentLocalRetry>>
callVars == <<pc, batch>>
socketVars == <<socket, connections>>
reportVars == <<notified, cancelled, acked, delivered>>
streamVars == <<composed, wire>>
vars == <<m_nextPacketComposersBatch, bufferVars, retryVars, m_startGracefulClear,
          isRecoverable, tracker, callVars, socketVars, added, streamVars, reportVars>>

Serials == 1 .. MaxPackets
Bytes(p) == [i \in 1 .. p.size |-> p.n]
AllBytes(ps) == FlattenSeq([i \in DOMAIN ps |-> Bytes(ps[i])])
Occurrences(x, s) == Cardinality({i \in DOMAIN s : s[i] = x})
OnWire(p) == Occurrences(p.n, wire) = p.size

\* The packets whose end in the buffer is recorded, to report them when sent.
TrackedTypes == {"PUBREC", "PUBREL", "PUBCOMP", "DISCONNECT"}
IsQosPublish(p) == p.type = "PUBLISH" /\ p.qos > 0

NoBatch == [next |-> 1, delayed |-> <<>>, encoded |-> <<>>, packets |-> <<>>,
            ping |-> 0, pingPacketLastByte |-> 0, loops |-> 0, sendResult |-> 0]

Init ==
    /\ m_nextPacketComposersBatch = <<>>
    /\ m_sendBuffer = <<>> /\ m_packetsMetadataInBuffer = <<>>
    /\ m_sendBatchRetryCount = 0 /\ m_currentLocalRetry = 0
    /\ m_startGracefulClear = FALSE
    /\ isRecoverable = TRUE
    /\ tracker = Null
    /\ pc = "idle" /\ batch = NoBatch
    /\ socket = "closed" /\ connections = 0
    /\ added = 0 /\ composed = <<>> /\ wire = <<>>
    /\ notified = [n \in Serials |-> 0]
    /\ cancelled = {} /\ acked = {} /\ delivered = {}

-----------------------------------------------------------------------------
(* Operations of other components on the queue; each takes the mutex, so    *)
(* none happens inside sendNextBatch.                                       *)

Numbered(t, n) == [type |-> t.type, qos |-> t.qos, id |-> t.id, size |-> t.size, n |-> n]

AddToQueue(t) ==
    /\ added < MaxPackets
    /\ added' = added + 1
    /\ m_nextPacketComposersBatch' = Append(m_nextPacketComposersBatch, Numbered(t, added + 1))

InFlight(t) ==
    IsQosPublish(t) /\ \E p \in ToSet(m_nextPacketComposersBatch \o composed) :
                          p # Null /\ IsQosPublish(p) /\ p.id = t.id /\ p.n \notin acked

\* A publish, subscribe, acknowledgement, ping or disconnect is queued.  The
\* caller saw the status CONNECTED, perhaps before the connection was lost; a
\* DISCONNECT may be queued while the client is still connecting.
QueuePacket(t) ==
    /\ pc = "idle"
    /\ tracker # Null \/ (t.type = "DISCONNECT" /\ socket # "closed")
    /\ InFlight(t) => Retries
    /\ AddToQueue(t)
    /\ UNCHANGED <<bufferVars, retryVars, m_startGracefulClear, isRecoverable, tracker,
                   callVars, socketVars, streamVars, reportVars>>

\* Cancelling a composer releases its packet identifier; a null one is a crash.
CancelAll ==
    LET ps == ToSet(m_nextPacketComposersBatch)
    IN  /\ m_nextPacketComposersBatch' = <<>>
        /\ cancelled' = cancelled \union {p.n : p \in ps \ {Null}}
        /\ pc' = IF Null \in ps THEN "crashed" ELSE "idle"

\* clearQueue(), once for a connection that was lost or that a send error ended: the
\* handlers of both return when the client is disconnected.  What is queued behind it, or
\* behind a sent DISCONNECT, stays.
ClearQueue ==
    /\ pc = "idle"
    /\ ~isRecoverable \/ socket = "lost"
    /\ CancelAll
    /\ isRecoverable' = TRUE
    /\ socket' = "closed"
    /\ UNCHANGED <<bufferVars, retryVars, m_startGracefulClear, tracker, batch,
                   connections, added, streamVars, notified, acked, delivered>>

\* The socket connects and the CONNECT packet is queued, behind what is left in the
\* queue.  A redirection by the broker opens the next socket without clearing it.
SocketConnects ==
    /\ pc = "idle" /\ isRecoverable
    /\ socket \in {"closed", "lost"} /\ connections < MaxConnections
    /\ socket' = "opening" /\ connections' = connections + 1
    /\ AddToQueue(ConnectPacket)
    /\ composed' = <<>> /\ wire' = <<>>
    /\ UNCHANGED <<bufferVars, retryVars, m_startGracefulClear, isRecoverable, tracker,
                   callVars, reportVars>>

\* The socket closes, at any point of a tick.
SocketLost ==
    /\ pc # "crashed" /\ socket \in {"opening", "established"}
    /\ socket' = "lost"
    /\ UNCHANGED <<m_nextPacketComposersBatch, bufferVars, retryVars, m_startGracefulClear,
                   isRecoverable, tracker, callVars, connections, added,
                   streamVars, reportVars>>

\* The broker answers the CONNECT packet: a new tracker is installed.
ConnAck ==
    /\ pc = "idle" /\ socket = "opening"
    /\ \E p \in ToSet(composed) : p.type = "CONNECT" /\ OnWire(p)
    /\ socket' = "established"
    /\ tracker' = NewTracker(ReceiveMaximum, ReceiveMaximum)
    /\ UNCHANGED <<m_nextPacketComposersBatch, bufferVars, retryVars, m_startGracefulClear,
                   isRecoverable, callVars, connections, added, streamVars,
                   reportVars>>

\* The broker acknowledges a publish it has received.
Acknowledge ==
    /\ pc = "idle" /\ socket = "established"
    /\ \E p \in ToSet(composed) :
          /\ IsQosPublish(p) /\ OnWire(p) /\ p.n \notin acked
          /\ tracker' = IncrementSendAllowance(tracker, p.id)
          /\ acked' = acked \union
                 {q.n : q \in {q \in ToSet(composed) :
                                IsQosPublish(q) /\ q.id = p.id /\ OnWire(q)}}
    /\ UNCHANGED <<m_nextPacketComposersBatch, bufferVars, retryVars, m_startGracefulClear,
                   isRecoverable, callVars, socketVars, added, streamVars,
                   notified, cancelled, delivered>>

-----------------------------------------------------------------------------
(* sendNextBatch.                                                           *)

BeginSendNextBatch ==
    /\ pc = "idle" /\ isRecoverable /\ socket # "closed"
    /\ pc' = "try"
    /\ m_currentLocalRetry' = 1
    /\ UNCHANGED <<m_nextPacketComposersBatch, bufferVars, m_sendBatchRetryCount,
                   m_startGracefulClear, isRecoverable, tracker, batch, socketVars,
                   added, streamVars, reportVars>>

\* trySendBatch returned true.
ReturnSuccess ==
    /\ m_sendBatchRetryCount' = 0
    /\ pc' = "idle" /\ batch' = NoBatch
    /\ UNCHANGED <<m_currentLocalRetry, isRecoverable>>

\* trySendBatch with nothing queued does not look at m_sendBuffer.
NothingQueued ==
    /\ pc = "try" /\ m_nextPacketComposersBatch = <<>>
    /\ ReturnSuccess
    /\ UNCHANGED <<m_nextPacketComposersBatch, bufferVars, m_startGracefulClear, tracker,
                   socketVars, added, streamVars, reportVars>>

\* The rest of the graceful clear that began when a DISCONNECT was sent.
GracefulClear ==
    /\ pc = "try" /\ m_nextPacketComposersBatch # <<>> /\ m_startGracefulClear
    /\ CancelAll
    /\ m_startGracefulClear' = FALSE
    /\ UNCHANGED <<bufferVars, retryVars, isRecoverable, tracker, batch, socketVars, added,
                   streamVars, notified, acked, delivered>>

BeginCompose ==
    /\ pc = "try" /\ m_nextPacketComposersBatch # <<>> /\ ~m_startGracefulClear
    /\ pc' = "compose" /\ batch' = NoBatch
    /\ UNCHANGED <<m_nextPacketComposersBatch, bufferVars, retryVars, m_startGracefulClear,
                   isRecoverable, tracker, socketVars, added, streamVars,
                   reportVars>>

Composing == pc = "compose" /\ batch.next <= Len(m_nextPacketComposersBatch)
NextComposer == m_nextPacketComposersBatch[batch.next]

\* Mutant: a publish does not wait for the quota.
CanSendAlways(p) == TRUE

CanSend(p) == IsQosPublish(p) => HasSendAllowance(tracker)

\* A publish with QoS above 0 waits for the broker's Receive Maximum.
DelayPacket ==
    /\ Composing /\ ~CanSend(NextComposer)
    /\ batch' = [batch EXCEPT !.next = @ + 1, !.delayed = Append(@, NextComposer)]
    /\ m_nextPacketComposersBatch' = [m_nextPacketComposersBatch EXCEPT ![batch.next] = Null]
    /\ UNCHANGED <<bufferVars, retryVars, m_startGracefulClear, isRecoverable, tracker, pc,
                   socketVars, added, streamVars, reportVars>>

\* An encode error ends the batch: the delayed composers are lost with the
\* local vector, the metadata of the packets already composed stays.
EncodeFails ==
    /\ Composing /\ CanSend(NextComposer) /\ EncodeMayFail
    /\ m_sendBatchRetryCount' = 0
    /\ isRecoverable' = FALSE
    /\ pc' = "idle" /\ batch' = NoBatch
    /\ UNCHANGED <<m_nextPacketComposersBatch, bufferVars, m_currentLocalRetry,
                   m_startGracefulClear, tracker, socketVars, added, streamVars,
                   reportVars>>

\* Mutant: the end of the packet before it.
EndByteBefore(p) == Len(m_sendBuffer) + Len(batch.encoded)

\* Where the packet will end in the buffer (fullOutgoingDataSize and its size).
EndByte(p) == Len(m_sendBuffer) + Len(batch.encoded) + p.size

\* Mutant: the allowance is taken but the identifier is not recorded.
TrackerAfterComposeUnchecked(p) ==
    IF IsQosPublish(p) THEN [tracker EXCEPT !.m_sendAllowance = @ - 1] ELSE tracker

TrackerAfterCompose(p) ==
    CASE p.type \in {"PUBACK", "PUBCOMP"} -> IncrementReceiveAllowance(tracker, p.id)
      [] IsQosPublish(p)                  -> DecrementSendAllowance(tracker, p.id)
      [] OTHER                            -> tracker

ComposePacket ==
    /\ Composing /\ CanSend(NextComposer)
    /\ LET p == NextComposer
           endByte == EndByte(p)
           firstPing == p.type = "PINGREQ" /\ batch.ping = 0
       IN  /\ tracker' = TrackerAfterCompose(p)
           /\ m_packetsMetadataInBuffer' =
                 IF p.type \in TrackedTypes
                 THEN Append(m_packetsMetadataInBuffer, [endByte |-> endByte, packet |-> p])
                 ELSE m_packetsMetadataInBuffer
           /\ batch' = [batch EXCEPT
                 !.next = @ + 1,
                 !.encoded = @ \o Bytes(p),
                 !.packets = Append(@, p),
                 !.ping = IF firstPing THEN p.n ELSE @,
                 !.pingPacketLastByte = IF firstPing THEN endByte ELSE @]
    /\ UNCHANGED <<m_nextPacketComposersBatch, m_sendBuffer, retryVars,
                   m_startGracefulClear, isRecoverable, pc, socketVars, added,
                   streamVars, reportVars>>

\* Mutants: the delayed packets are forgotten; they are put back reversed; the
\* bytes left over from an earlier batch are overwritten.
QueueForgotten == <<>>
QueueReversed == Reverse(batch.delayed)
BufferOverwritten == batch.encoded

QueueAfterCompose == batch.delayed
BufferAfterCompose == m_sendBuffer \o batch.encoded

\* The delayed packets become the queue and the encoded ones join the buffer.
EndCompose ==
    /\ pc = "compose" /\ batch.next > Len(m_nextPacketComposersBatch)
    /\ m_nextPacketComposersBatch' = QueueAfterCompose
    /\ m_sendBuffer' = BufferAfterCompose
    /\ composed' = composed \o batch.packets
    /\ pc' = "send"
    /\ UNCHANGED <<m_packetsMetadataInBuffer, retryVars, m_startGracefulClear,
                   isRecoverable, tracker, batch, socketVars, added, wire,
                   reportVars>>

-----------------------------------------------------------------------------
(* The send loop of trySendBatch.                                           *)

Sending == pc = "send" /\ batch.loops < SendAttempts

\* The callbacks for the packets reported sent.  The client's handler of a sent
\* DISCONNECT begins a graceful clear and closes the socket.
Notify(ns, closes) ==
    /\ notified' = [n \in Serials |-> notified[n] + Occurrences(n, ns)]
    /\ m_startGracefulClear' = (m_startGracefulClear \/ closes)
    /\ socket' = IF closes THEN "closed" ELSE socket

NotifyPackets(ping, metas) ==
    Notify(ping \o [i \in DOMAIN metas |-> metas[i].packet.n],
           \E i \in DOMAIN metas : metas[i].packet.type = "DISCONNECT")

\* Mutants: the metadata is not cleared; the tracked packets of a batch with a
\* ping are passed over.
AllSentUncleared ==
    /\ NotifyPackets(IF batch.ping # 0 THEN <<batch.ping>> ELSE <<>>, m_packetsMetadataInBuffer)
    /\ m_sendBuffer' = <<>> /\ UNCHANGED m_packetsMetadataInBuffer
    /\ ReturnSuccess
AllSentPingOnly ==
    /\ IF batch.ping # 0 THEN NotifyPackets(<<batch.ping>>, <<>>)
                         ELSE NotifyPackets(<<>>, m_packetsMetadataInBuffer)
    /\ m_sendBuffer' = <<>> /\ m_packetsMetadataInBuffer' = <<>>
    /\ ReturnSuccess

\* sendData returned the size of the whole buffer.
AllSent ==
    /\ NotifyPackets(IF batch.ping # 0 THEN <<batch.ping>> ELSE <<>>, m_packetsMetadataInBuffer)
    /\ m_sendBuffer' = <<>> /\ m_packetsMetadataInBuffer' = <<>>
    /\ ReturnSuccess

\* removeFromBeginning.
Remaining(k) == SubSeq(m_sendBuffer, k + 1, Len(m_sendBuffer))

\* The walk over the metadata after k bytes were taken, when the batch has a
\* ping.  Each packet reported erases the first element of the vector the loop
\* runs over: the later elements move down, the loop still visits as many
\* positions as the vector had, and a position past the new end keeps its old
\* content, which is what the release builds of the standard library leave.
Visit(walk, i, k) ==
    IF k >= walk.slots[i].endByte
    THEN [slots |-> [j \in DOMAIN walk.slots |->
                        walk.slots[IF j < walk.size THEN j + 1 ELSE j]],
          size  |-> walk.size - 1,
          calls |-> Append(walk.calls, walk.slots[i])]
    ELSE walk

MetadataWalk(metas, k) ==
    LET walk[i \in 0 .. Len(metas)] ==
            IF i = 0 THEN [slots |-> metas, size |-> Len(metas), calls |-> <<>>]
                     ELSE Visit(walk[i - 1], i, k)
    IN  walk[Len(metas)]

\* sendData returned k, less than the size of the buffer.
PartSent(k) ==
    LET walk == MetadataWalk(m_packetsMetadataInBuffer, k)
        ping == IF k >= batch.pingPacketLastByte THEN <<batch.ping>> ELSE <<>>
    IN  /\ IF batch.ping # 0
           THEN /\ NotifyPackets(ping, walk.calls)
                /\ m_packetsMetadataInBuffer' = SubSeq(walk.slots, 1, walk.size)
           ELSE UNCHANGED <<notified, m_startGracefulClear, socket, m_packetsMetadataInBuffer>>
        /\ m_sendBuffer' = Remaining(k)
        /\ batch' = [batch EXCEPT !.loops = @ + 1, !.sendResult = k]
        /\ UNCHANGED <<retryVars, isRecoverable, pc>>

\* The socket takes k bytes; with an empty buffer it is not called.
SocketTakes ==
    /\ Sending
    /\ \E k \in 0 .. Len(m_sendBuffer) :
          /\ \/ m_sendBuffer = <<>>
             \/ socket \notin {"closed", "lost"} /\ (k = Len(m_sendBuffer) \/ PartialSends)
          /\ wire' = wire \o SubSeq(m_sendBuffer, 1, k)
          /\ delivered' = delivered \union
                 (ToSet(SubSeq(m_sendBuffer, 1, k)) \ ToSet(Remaining(k)))
          /\ IF k = Len(m_sendBuffer) THEN AllSent ELSE PartSent(k)
    /\ UNCHANGED <<m_nextPacketComposersBatch, tracker, connections, added,
                   composed, cancelled, acked>>

\* The send fails and sendData returns getLastError.  A negative value is an
\* error; any other is taken for a number of bytes, and more of them than the
\* buffer holds makes removeFromBeginning throw.
SocketFails ==
    /\ Sending /\ m_sendBuffer # <<>>
    /\ \E e \in SendErrors :
          \/ /\ e < 0
             /\ batch' = [batch EXCEPT !.loops = @ + 1, !.sendResult = e]
             /\ UNCHANGED <<bufferVars, retryVars, m_startGracefulClear, isRecoverable, pc,
                            socket, notified>>
          \/ /\ e = Len(m_sendBuffer) /\ AllSent
          \/ /\ e \in 0 .. Len(m_sendBuffer) - 1 /\ PartSent(e)
          \/ /\ e > Len(m_sendBuffer)
             /\ pc' = "crashed"
             /\ UNCHANGED <<bufferVars, retryVars, m_startGracefulClear, isRecoverable,
                            batch, socket, notified>>
    /\ UNCHANGED <<m_nextPacketComposersBatch, tracker, connections, added, streamVars,
                   cancelled, acked, delivered>>

LoopsDone == pc = "send" /\ batch.loops = SendAttempts

\* The rest of a buffer sent in parts waits for a later batch.
EndPartlySent ==
    /\ LoopsDone /\ batch.sendResult >= 0
    /\ ReturnSuccess
    /\ UNCHANGED <<m_nextPacketComposersBatch, bufferVars, m_startGracefulClear, tracker,
                   socketVars, added, streamVars, reportVars>>

\* Every send failed: try again at once, count a failed batch, or, when the
\* DISCONNECT was sent before, stop.
EndSendError ==
    /\ LoopsDone /\ batch.sendResult < 0
    /\ batch' = NoBatch
    /\ \/ /\ m_startGracefulClear
          /\ m_startGracefulClear' = FALSE /\ pc' = "idle"
          /\ UNCHANGED <<retryVars, isRecoverable>>
       \/ /\ ~m_startGracefulClear /\ m_currentLocalRetry < MaxLocalRetries
          /\ m_currentLocalRetry' = m_currentLocalRetry + 1
          /\ pc' = "try"
          /\ UNCHANGED <<m_sendBatchRetryCount, m_startGracefulClear, isRecoverable>>
       \/ /\ ~m_startGracefulClear /\ m_currentLocalRetry = MaxLocalRetries
          /\ m_sendBatchRetryCount' = m_sendBatchRetryCount + 1
          /\ isRecoverable' = (m_sendBatchRetryCount' < MaxBatchRetries)
          /\ pc' = "idle"
          /\ UNCHANGED <<m_currentLocalRetry, m_startGracefulClear>>
    /\ UNCHANGED <<m_nextPacketComposersBatch, bufferVars, tracker, socketVars,
                   added, streamVars, reportVars>>

SendNextBatch ==
    \/ NothingQueued \/ GracefulClear
    \/ BeginCompose \/ DelayPacket \/ EncodeFails \/ ComposePacket \/ EndCompose
    \/ SocketTakes \/ SocketFails \/ EndPartlySent \/ EndSendError

Environment ==
    \/ \E t \in Templates : QueuePacket(t)
    \/ ClearQueue \/ SocketConnects \/ SocketLost \/ ConnAck \/ Acknowledge

Next == BeginSendNextBatch \/ SendNextBatch \/ Environment

Spec == Init /\ [][Next]_vars

\* The tick thread keeps ticking and between two ticks it handles what the
\* broker has answered and the loss of a connection, so an answer or a loss that
\* keeps waiting is handled; a socket asked over and over takes some bytes.
Fairness ==
    /\ WF_vars(BeginSendNextBatch) /\ WF_vars(SendNextBatch)
    /\ SF_vars(SocketTakes /\ (m_sendBuffer = <<>> \/ Len(m_sendBuffer') < Len(m_sendBuffer)))
    /\ SF_vars(ConnAck) /\ SF_vars(Acknowledge)
    /\ SF_vars(ClearQueue)

FairSpec == Spec /\ Fairness

-----------------------------------------------------------------------------

PacketType == {Numbered(t, i) : t \in Templates \union {ConnectPacket}, i \in Serials}

TypeOK ==
    /\ ToSet(m_nextPacketComposersBatch) \subseteq PacketType \union {Null}
    /\ ToSet(m_sendBuffer) \subseteq Serials
    /\ \A m \in ToSet(m_packetsMetadataInBuffer) :
          m.endByte \in Nat /\ m.packet \in PacketType
    /\ m_sendBatchRetryCount \in 0 .. MaxBatchRetries * (MaxConnections + 1)
    /\ m_currentLocalRetry \in 0 .. MaxLocalRetries
    /\ m_startGracefulClear \in BOOLEAN /\ isRecoverable \in BOOLEAN
    /\ tracker # Null =>
          /\ tracker.m_sendAllowance + Cardinality(tracker.m_sentPublishIDs) = ReceiveMaximum
          /\ tracker.m_receiveAllowance + Cardinality(tracker.m_receivedPublishIDs) = ReceiveMaximum
    /\ pc \in {"idle", "try", "compose", "send", "crashed"}
    /\ batch.loops \in 0 .. SendAttempts
    /\ socket \in {"closed", "opening", "established", "lost"}
    /\ notified \in [Serials -> Nat]

\* No byte is lost, duplicated or reordered between composing and the wire:
\* the bytes the socket took, followed by those still buffered, are those of
\* the packets composed, in order.
StreamIntact == wire \o m_sendBuffer = AllBytes(composed)

\* A packet is reported sent (the session state moves on, the client closes
\* after its DISCONNECT) only when the socket has taken its last byte.
NoEarlyNotification == \A n \in Serials : notified[n] > 0 => n \in delivered

\* "Notify other tracked packets as sent if their end byte index is within the
\* sent data range" (SendQueue.cpp:388): each packet is reported once.
NotifiedAtMostOnce ==
    \A p \in ToSet(composed) : p.type \in TrackedTypes => notified[p.n] <= 1

\* Between ticks, a tracked packet whose bytes have all been taken has been
\* reported.
NotifiedWhenSent ==
    pc = "idle" /\ m_sendBuffer = <<>> =>
        \A p \in ToSet(composed) :
            p.type \in TrackedTypes /\ OnWire(p) => notified[p.n] = 1

\* The publishes with QoS above 0 that the broker has not acknowledged never
\* exceed its Receive Maximum, whatever order queueing, ticks, duplicates and
\* acknowledgements come in.
QuotaRespected ==
    Cardinality({p.id : p \in {q \in ToSet(composed \o batch.packets) :
                                  IsQosPublish(q) /\ q.n \notin acked}}) <= ReceiveMaximum

\* Publishes with QoS above 0 leave in the order they were queued, also when
\* some are held back by the quota and others are queued behind them.
QosOrderKept ==
    \A i, j \in DOMAIN composed :
        i < j /\ IsQosPublish(composed[i]) /\ IsQosPublish(composed[j])
            => composed[i].n < composed[j].n

\* A packet is composed or cancelled, never both and never lost: each queued
\* packet is in exactly one place.
Places(n) ==
    Cardinality({i \in DOMAIN m_nextPacketComposersBatch :
                    LET p == m_nextPacketComposersBatch[i]
                    IN  p # Null /\ p.n = n /\ ~(pc = "compose" /\ i < batch.next)})
    + Cardinality({i \in DOMAIN batch.delayed : pc = "compose" /\ batch.delayed[i].n = n})
    + Cardinality({i \in DOMAIN batch.packets : pc = "compose" /\ batch.packets[i].n = n})
    + Cardinality({i \in DOMAIN composed : composed[i].n = n})
    + (IF n \in cancelled THEN 1 ELSE 0)

NoPacketLost == connections <= 1 => \A n \in 1 .. added : Places(n) = 1

\* "if unsuccesfull will proccess the remaining bytes next tick"
\* (SendQueue.h:41): a tick that begins with bytes in the buffer offers them to
\* the socket, unless it clears the queue.
RemainderSentNextTick ==
    [][pc = "try" /\ pc' = "idle" /\ ~m_startGracefulClear /\ m_currentLocalRetry = 1
          => m_sendBuffer = <<>>]_vars

\* A graceful clear cancels what was pending when the DISCONNECT was sent
\* ("cancel all pending packet composers", SendQueue.cpp:172), never the CONNECT
\* packet of a later connection.
ConnectNeverCancelled ==
    [][pc = "try" /\ m_startGracefulClear =>
          \A p \in ToSet(m_nextPacketComposersBatch) :
              p # Null /\ p.type = "CONNECT" => p.n \notin cancelled']_vars

Waits(n) == \E p \in ToSet(m_nextPacketComposersBatch) : p # Null /\ p.n = n

\* No queued packet starves while there is a connection: a publish held back by the quota
\* is composed once the broker has acknowledged others, cancelled with its connection
\* (clearQueue), or left behind a sent DISCONNECT for the next batch to cancel.
NoPacketStarves ==
    \A n \in Serials :
        (Waits(n) /\ socket # "closed") ~> (\/ n \in cancelled
                                            \/ \E p \in ToSet(composed) : p.n = n
                                            \/ socket = "closed" /\ m_startGracefulClear)
=============================================================================
