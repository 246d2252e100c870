--------------------------- MODULE SendQueueProofs ---------------------------
(***************************************************************************)
(* Theorems about the send queue (SendQueue.tla), for every set of packet  *)
(* templates and every value of the bounds.                                *)
(***************************************************************************)
EXTENDS SendQueue, SequenceLemmas

Template == [type : STRING, qos : 0 .. 2, id : Nat, size : Nat \ {0}]
Packet == [type : STRING, qos : 0 .. 2, id : Nat, size : Nat \ {0}, n : Nat]

Batch == [next : Nat \ {0}, delayed : Seq(Packet), encoded : Seq(Nat), packets : Seq(Packet),
          ping : Nat, pingPacketLastByte : Nat, loops : 0 .. SendAttempts, sendResult : Int]

Tracker == [m_receiveAllowance    : Nat,
            m_sendAllowance       : Nat,
            m_maxReceiveAllowance : Nat,
            m_maxSendAllowance    : Nat,
            m_receivedPublishIDs  : SUBSET Nat,
            m_sentPublishIDs      : SUBSET Nat]

-----------------------------------------------------------------------------
(* The inductive invariant.                                                 *)

\* Shorter names for the queue and for what the composing loop has built.
queue == m_nextPacketComposersBatch
delayed == batch.delayed
packets == batch.packets

IsPacket(s, i) == s[i] # Null
IsQos(s, i) == IsPacket(s, i) /\ IsQosPublish(s[i])

\* Before its first CONNACK the client queues no packet that uses the tracker.
UsesTracker(p) == IsQosPublish(p) \/ p.type \in {"PUBACK", "PUBCOMP"}
NoneUsesTracker == \A i \in DOMAIN queue : queue[i] # Null => ~UsesTracker(queue[i])

Typed ==
    /\ queue \in Seq(Packet \union {Null})
    /\ composed \in Seq(Packet)
    /\ batch \in Batch
    /\ added \in Nat
    /\ isRecoverable \in BOOLEAN
    /\ pc \in {"idle", "try", "compose", "send", "crashed"}
    /\ tracker # Null => tracker \in Tracker
    /\ tracker \in Tracker \/ NoneUsesTracker
    /\ socket = "established" => tracker \in Tracker
    /\ pc = "compose" /\ delayed # <<>> => tracker \in Tracker

StreamTyped == m_sendBuffer \in Seq(Nat) /\ wire \in Seq(Nat)

\* A composer that has been moved from stays in the queue only while a batch
\* is composed, or after one that failed.
NoNulls ==
    /\ pc \in {"try", "send"} \/ (pc = "idle" /\ isRecoverable) =>
          \A i \in DOMAIN queue : queue[i] # Null
    /\ pc = "compose" => \A i \in DOMAIN queue : i >= batch.next => queue[i] # Null

\* Serial numbers grow along a sequence; those of its publishes with QoS above
\* 0 do; those of one sequence are below those of another; none exceeds a bound.
Increasing(s) ==
    \A i, j \in DOMAIN s : i < j /\ IsPacket(s, i) /\ IsPacket(s, j) => s[i].n < s[j].n
QosIncreasing(s) ==
    \A i, j \in DOMAIN s : i < j /\ IsQos(s, i) /\ IsQos(s, j) => s[i].n < s[j].n
QosBelow(s, t) ==
    \A i \in DOMAIN s, j \in DOMAIN t : IsQos(s, i) /\ IsQos(t, j) => s[i].n < t[j].n
UpTo(s, bound) == \A i \in DOMAIN s : IsPacket(s, i) => s[i].n <= bound

\* As QosBelow, for the part of the queue that the loop has yet to visit.
QosBelowRest(s) ==
    \A i \in DOMAIN s, j \in DOMAIN queue :
        IsQos(s, i) /\ IsQos(queue, j) /\ j >= batch.next => s[i].n < queue[j].n

QueueOrder ==
    /\ Increasing(queue) /\ UpTo(queue, added)
    /\ QosIncreasing(composed) /\ UpTo(composed, added)
    /\ QosBelow(composed, queue)

\* While a batch is composed: the publishes composed in it were queued before
\* those that wait, because none is composed once one waits.
BatchOrder ==
    pc = "compose" =>
        /\ Increasing(delayed) /\ UpTo(delayed, added)
        /\ QosIncreasing(packets) /\ UpTo(packets, added)
        /\ QosBelow(composed, delayed) /\ QosBelow(composed, packets)
        /\ QosBelow(packets, delayed)
        /\ QosBelowRest(delayed) /\ QosBelowRest(packets)
        /\ \A i \in DOMAIN delayed : IsQosPublish(delayed[i])
        /\ delayed # <<>> => tracker \in Tracker /\ ~HasSendAllowance(tracker)

-----------------------------------------------------------------------------
(* The packets and the tracker.                                             *)

\* A template with its number is a packet with the template's type and identifier.
LEMMA NumberedPacket ==
    ASSUME NEW t \in Template, NEW i \in Nat
    PROVE  /\ Numbered(t, i) \in Packet
           /\ Numbered(t, i).n = i
           /\ Numbered(t, i).type = t.type
           /\ Numbered(t, i).id = t.id
           /\ IsQosPublish(Numbered(t, i)) = IsQosPublish(t)
BY DEF Packet, Template, Numbered, IsQosPublish

\* What the assumption says of the templates the application queues.
LEMMA TemplatesTyped ==
    /\ Templates \subseteq Template
    /\ ConnectPacket \in Template /\ ConnectPacket.type = "CONNECT"
    /\ Null \notin Packet
BY SendQueueAssumption DEF SendQueueAssumption, Template, Packet

\* The fields of a packet.
LEMMA PacketTyped ==
    ASSUME NEW p \in Packet
    PROVE  p # Null /\ p.n \in Nat /\ p.id \in Nat /\ p.size \in Nat \ {0} /\ p.type \in STRING
BY TemplatesTyped DEF Packet

\* Another allowance and other identifiers for one direction of the tracker.
LEMMA TrackerExcept ==
    ASSUME NEW t \in Tracker, NEW a \in Nat, NEW I \in SUBSET Nat
    PROVE  /\ [t EXCEPT !.m_sendAllowance = a, !.m_sentPublishIDs = I] \in Tracker
           /\ [t EXCEPT !.m_receiveAllowance = a, !.m_receivedPublishIDs = I] \in Tracker
BY DEF Tracker

\* The tracker's operators keep its type, and a sent PUBACK or PUBCOMP leaves the
\* allowance for sending alone.
LEMMA TrackerOperators ==
    ASSUME NEW t \in Tracker, NEW id \in Nat
    PROVE  /\ IncrementReceiveAllowance(t, id) \in Tracker
           /\ IncrementReceiveAllowance(t, id).m_sendAllowance = t.m_sendAllowance
           /\ IncrementSendAllowance(t, id) \in Tracker
           /\ DecrementSendAllowance(t, id) \in Tracker
<1>1. /\ t.m_sendAllowance \in Nat /\ t.m_receiveAllowance \in Nat
      /\ t.m_sentPublishIDs \in SUBSET Nat /\ t.m_receivedPublishIDs \in SUBSET Nat
  BY DEF Tracker
<1>2. /\ t.m_sendAllowance + 1 \in Nat /\ t.m_receiveAllowance + 1 \in Nat
      /\ t.m_sendAllowance > 0 => t.m_sendAllowance - 1 \in Nat
  BY <1>1
<1>3. /\ t.m_sentPublishIDs \ {id} \in SUBSET Nat /\ t.m_receivedPublishIDs \ {id} \in SUBSET Nat
      /\ t.m_sentPublishIDs \union {id} \in SUBSET Nat
  BY <1>1
<1>4. IncrementReceiveAllowance(t, id) \in Tracker
  BY <1>2, <1>3, TrackerExcept DEF IncrementReceiveAllowance
<1>5. IncrementReceiveAllowance(t, id).m_sendAllowance = t.m_sendAllowance
  BY DEF Tracker, IncrementReceiveAllowance
<1>6. IncrementSendAllowance(t, id) \in Tracker
  BY <1>2, <1>3, TrackerExcept DEF IncrementSendAllowance
<1>7. DecrementSendAllowance(t, id) \in Tracker
  BY <1>2, <1>3, TrackerExcept DEF DecrementSendAllowance, HasSendAllowance
<1> QED
  BY <1>4, <1>5, <1>6, <1>7

\* The tracker a CONNACK makes.
LEMMA NewTrackerTyped == NewTracker(ReceiveMaximum, ReceiveMaximum) \in Tracker
BY SendQueueAssumption DEF SendQueueAssumption, NewTracker, Tracker

\* Composing a packet leaves a tracker a tracker.
LEMMA TrackerAfterComposeTyped ==
    ASSUME NEW p \in Packet, tracker \in Tracker \/ ~UsesTracker(p)
    PROVE  /\ tracker \in Tracker => TrackerAfterCompose(p) \in Tracker
           /\ ~UsesTracker(p) => TrackerAfterCompose(p) = tracker
           /\ ~IsQosPublish(p) /\ tracker \in Tracker =>
                 TrackerAfterCompose(p).m_sendAllowance = tracker.m_sendAllowance
<1>1. p.id \in Nat
  BY PacketTyped
<1>2. CASE p.type \in {"PUBACK", "PUBCOMP"}
  BY <1>1, <1>2, TrackerOperators DEF TrackerAfterCompose, UsesTracker
<1>3. CASE p.type \notin {"PUBACK", "PUBCOMP"} /\ IsQosPublish(p)
  BY <1>1, <1>3, TrackerOperators DEF TrackerAfterCompose, UsesTracker
<1>4. CASE p.type \notin {"PUBACK", "PUBCOMP"} /\ ~IsQosPublish(p)
  BY <1>4 DEF TrackerAfterCompose, UsesTracker
<1> QED
  BY <1>2, <1>3, <1>4

-----------------------------------------------------------------------------
(* What each kind of step does to the types.                                *)

\* Types of the steps that leave the queue and the tracker alone.
LEMMA TypedQuiet ==
    ASSUME Typed, UNCHANGED <<queue, composed, added, tracker>>, batch' \in Batch,
           isRecoverable' \in BOOLEAN, pc' \in {"idle", "try", "compose", "send", "crashed"},
           socket' = "established" => socket = "established",
           pc' = "compose" => batch'.delayed = <<>> \/ (pc = "compose" /\ batch'.delayed = delayed)
    PROVE  Typed'
BY DEF Typed, NoneUsesTracker, queue, delayed, UsesTracker, IsQosPublish

\* The empty batch is a batch.
LEMMA NoBatchTyped == NoBatch \in Batch
<1>1. <<>> \in Seq(Packet) /\ <<>> \in Seq(Nat)
  BY EmptySeq
<1>2. 0 \in 0 .. SendAttempts /\ 0 \in Int /\ 0 \in Nat /\ 1 \in Nat \ {0}
  BY SendQueueAssumption DEF SendQueueAssumption
<1> HIDE DEF Packet
<1> QED
  BY <1>1, <1>2 DEF NoBatch, Batch

\* The queue with a packet more.
LEMMA AppendTyped ==
    ASSUME NEW q \in Seq(Packet \union {Null}), NEW p \in Packet
    PROVE  /\ Append(q, p) \in Seq(Packet \union {Null})
           /\ DOMAIN q = 1 .. Len(q) /\ Len(q) \in Nat
           /\ DOMAIN Append(q, p) = 1 .. Len(q) + 1
           /\ \A i \in 1 .. Len(q) : Append(q, p)[i] = q[i]
           /\ Append(q, p)[Len(q) + 1] = p
<1>1. p \in Packet \union {Null}
  OBVIOUS
<1> HIDE DEF Packet
<1> QED
  BY <1>1, AppendProperties, LenProperties

\* Queueing a packet keeps the types.
LEMMA AddToQueueTyped ==
    ASSUME Typed, NEW t \in Template, AddToQueue(t), composed' \in Seq(Packet),
           UNCHANGED <<tracker, batch, pc, isRecoverable>>,
           socket' = "established" => socket = "established", tracker \in Tracker \/ ~UsesTracker(t)
    PROVE  Typed'
<1> DEFINE p == Numbered(t, added + 1)
<1>1. p \in Packet /\ (~UsesTracker(t) => ~UsesTracker(p))
  BY NumberedPacket DEF Typed, UsesTracker
<1>2. queue' = Append(queue, p) /\ added' = added + 1
  BY DEF AddToQueue, queue
<1> HIDE DEF p
<1>3. /\ queue' \in Seq(Packet \union {Null})
      /\ DOMAIN queue = 1 .. Len(queue) /\ Len(queue) \in Nat
      /\ DOMAIN queue' = 1 .. Len(queue) + 1
      /\ \A i \in 1 .. Len(queue) : queue'[i] = queue[i]
      /\ queue'[Len(queue) + 1] = p
  BY <1>1, <1>2, AppendTyped DEF Typed
<1>4. tracker \in Tracker \/ NoneUsesTracker'
  <2>1. CASE tracker \notin Tracker
    <3>1. NoneUsesTracker /\ ~UsesTracker(p)
      BY <1>1, <2>1 DEF Typed
    <3>2. ASSUME NEW i \in DOMAIN queue', queue'[i] # Null PROVE ~UsesTracker(queue'[i])
      <4>1. i \in 1 .. Len(queue) \/ i = Len(queue) + 1
        BY <1>3
      <4>2. CASE i \in 1 .. Len(queue)
        BY <1>3, <3>1, <3>2, <4>2 DEF NoneUsesTracker
      <4>3. CASE i = Len(queue) + 1
        BY <1>3, <3>1, <4>3
      <4> QED
        BY <4>1, <4>2, <4>3
    <3> QED
      BY <3>2 DEF NoneUsesTracker, UsesTracker, IsQosPublish
  <2> QED
    BY <2>1
<1> QED
  BY <1>2, <1>3, <1>4 DEF Typed, delayed

\* The loop's position, and what it has composed, with one step more.
LEMMA BatchTyped ==
    ASSUME NEW b \in Batch
    PROVE  /\ b.next \in Nat \ {0} /\ b.delayed \in Seq(Packet) /\ b.packets \in Seq(Packet)
           /\ b.encoded \in Seq(Nat) /\ b.ping \in Nat /\ b.pingPacketLastByte \in Nat
           /\ b.loops \in 0 .. SendAttempts /\ b.sendResult \in Int
BY DEF Batch

\* A publish held back moves from the queue to the batch's delayed ones.
LEMMA BatchDelays ==
    ASSUME NEW b \in Batch, NEW p \in Packet,
           NEW c, c = [b EXCEPT !.next = @ + 1, !.delayed = Append(@, p)]
    PROVE  /\ c \in Batch
           /\ c.next = b.next + 1 /\ c.delayed = Append(b.delayed, p) /\ c.packets = b.packets
           /\ c.encoded = b.encoded
<1>1. Append(b.delayed, p) \in Seq(Packet) /\ b.next + 1 \in Nat \ {0}
  BY BatchTyped, AppendProperties
<1> QED
  BY <1>1 DEF Batch

\* The bytes of a packet carry its number.
LEMMA BytesTyped == ASSUME NEW p \in Packet PROVE Bytes(p) \in Seq(Nat)
<1>1. p.size \in Nat /\ p.n \in Nat
  BY PacketTyped
<1>2. \A i \in 1 .. p.size : p.n \in Nat
  BY <1>1
<1> HIDE DEF Packet
<1> QED
  BY <1>1 DEF Bytes

\* The batch b with the packet p composed.
Composes(b, p, ping, last) ==
    [b EXCEPT !.next = @ + 1, !.encoded = @ \o Bytes(p), !.packets = Append(@, p),
              !.ping = ping, !.pingPacketLastByte = last]

\* Composing a packet adds it and its bytes to the batch.
LEMMA BatchComposes ==
    ASSUME NEW b \in Batch, NEW p \in Packet, NEW ping \in Nat, NEW last \in Nat
    PROVE  LET c == Composes(b, p, ping, last)
           IN  /\ c \in Batch
               /\ c.next = b.next + 1 /\ c.delayed = b.delayed
               /\ c.packets = Append(b.packets, p)
               /\ c.encoded = b.encoded \o Bytes(p)
               /\ c.ping = ping /\ c.pingPacketLastByte = last
<1>1. Append(b.packets, p) \in Seq(Packet) /\ b.next + 1 \in Nat \ {0}
  BY BatchTyped, AppendProperties
<1>2. b.encoded \o Bytes(p) \in Seq(Nat)
  BY BatchTyped, BytesTyped, ConcatProperties
<1> QED
  BY <1>1, <1>2 DEF Batch, Composes

\* A send attempt changes only the attempts and the result.
LEMMA BatchSends ==
    ASSUME NEW b \in Batch, b.loops < SendAttempts, NEW k \in Int,
           NEW c, c = [b EXCEPT !.loops = @ + 1, !.sendResult = k]
    PROVE  /\ c \in Batch
           /\ c.next = b.next /\ c.delayed = b.delayed /\ c.packets = b.packets
           /\ c.encoded = b.encoded /\ c.ping = b.ping /\ c.pingPacketLastByte = b.pingPacketLastByte
<1>1. b.loops + 1 \in 0 .. SendAttempts
  BY BatchTyped, SendQueueAssumption DEF SendQueueAssumption
<1> QED
  BY <1>1 DEF Batch

-----------------------------------------------------------------------------
(* The types and the null composers along a step.                           *)

TypedInv == Typed /\ NoNulls

\* The composer the loop looks at is a packet.
LEMMA NextComposerTyped ==
    ASSUME TypedInv, Composing
    PROVE  /\ NextComposer \in Packet /\ NextComposer = queue[batch.next]
           /\ batch.next \in DOMAIN queue /\ batch.next \in 1 .. Len(queue)
           /\ tracker \in Tracker \/ ~UsesTracker(NextComposer)
<1>1. DOMAIN queue = 1 .. Len(queue) /\ Len(queue) \in Nat
  BY LenProperties DEF TypedInv, Typed
<1>2. batch.next \in Nat \ {0} /\ batch.next <= Len(queue)
  BY BatchTyped DEF TypedInv, Typed, Composing, queue
<1>3. batch.next \in DOMAIN queue /\ batch.next \in 1 .. Len(queue)
  BY <1>1, <1>2
<1>4. queue[batch.next] \in Packet \union {Null}
  BY <1>3, ElementOfSeq DEF TypedInv, Typed
<1>5. queue[batch.next] # Null
  BY <1>2, <1>3 DEF TypedInv, NoNulls, Composing
<1> QED
  BY <1>3, <1>4, <1>5 DEF TypedInv, Typed, NoneUsesTracker, NextComposer, queue

\* The packets of a sequence of packets are not null.
LEMMA PacketsNotNull ==
    ASSUME NEW s \in Seq(Packet)
    PROVE  s \in Seq(Packet \union {Null}) /\ \A i \in DOMAIN s : s[i] # Null /\ s[i] \in Packet
<1>1. \A i \in DOMAIN s : s[i] \in Packet
  BY LenProperties, ElementOfSeq
<1>2. Packet \subseteq Packet \union {Null}
  OBVIOUS
<1>3. s \in Seq(Packet \union {Null})
  BY <1>2, SeqMonotonic
<1> QED
  BY <1>1, <1>3, TemplatesTyped

\* Emptying the queue.
LEMMA CancelTyped ==
    ASSUME TypedInv, CancelAll, UNCHANGED <<composed, added, tracker, batch>>,
           isRecoverable' \in BOOLEAN, socket' = "established" => socket = "established"
    PROVE  TypedInv'
<1>1. queue' = <<>> /\ pc' \in {"idle", "crashed"}
  BY DEF CancelAll, queue
<1>2. <<>> \in Seq(Packet \union {Null}) /\ DOMAIN <<>> = {}
  BY EmptySeq
<1>3. queue' \in Seq(Packet \union {Null}) /\ NoneUsesTracker'
  BY <1>1, <1>2 DEF NoneUsesTracker
<1>4. Typed'
  BY <1>1, <1>3 DEF TypedInv, Typed
<1>5. NoNulls'
  BY <1>1, <1>2 DEF NoNulls
<1> QED
  BY <1>4, <1>5 DEF TypedInv

\* A packet is queued.
LEMMA AddToQueueKeepsTyped ==
    ASSUME TypedInv, pc = "idle", NEW t \in Template, AddToQueue(t),
           composed' \in Seq(Packet), UNCHANGED <<tracker, batch, pc, isRecoverable>>,
           socket' = "established" => socket = "established", tracker \in Tracker \/ ~UsesTracker(t)
    PROVE  TypedInv'
<1>1. Typed'
  BY AddToQueueTyped DEF TypedInv
<1>2. ASSUME isRecoverable PROVE \A i \in DOMAIN queue' : queue'[i] # Null
  <2> DEFINE p == Numbered(t, added + 1)
  <2>1. p \in Packet
    BY NumberedPacket DEF TypedInv, Typed
  <2>2. queue' = Append(queue, p)
    BY DEF AddToQueue, queue
  <2> HIDE DEF p
  <2>3. /\ DOMAIN queue = 1 .. Len(queue) /\ Len(queue) \in Nat
        /\ DOMAIN queue' = 1 .. Len(queue) + 1
        /\ \A i \in 1 .. Len(queue) : queue'[i] = queue[i]
        /\ queue'[Len(queue) + 1] = p
    BY <2>1, <2>2, AppendTyped DEF TypedInv, Typed
  <2>4. \A i \in DOMAIN queue : queue[i] # Null
    BY <1>2 DEF TypedInv, NoNulls
  <2>5. p # Null
    BY <2>1, PacketTyped
  <2> QED
    BY <2>3, <2>4, <2>5
<1>3. NoNulls'
  BY <1>2 DEF NoNulls
<1> QED
  BY <1>1, <1>3 DEF TypedInv

\* What the send loop changes when the socket took everything, or a part.
LEMMA AllSentChanges ==
    ASSUME AllSent
    PROVE  /\ pc' = "idle" /\ batch' = NoBatch /\ isRecoverable' = isRecoverable
           /\ socket' = socket \/ socket' = "closed"
BY DEF AllSent, ReturnSuccess, NotifyPackets, Notify

\* What a send attempt that moved some bytes does to the call and the socket.
LEMMA PartSentChanges ==
    ASSUME NEW k, PartSent(k)
    PROVE  /\ pc' = pc /\ isRecoverable' = isRecoverable
           /\ batch' = [batch EXCEPT !.loops = @ + 1, !.sendResult = k]
           /\ socket' = socket \/ socket' = "closed"
<1> DEFINE W == MetadataWalk(m_packetsMetadataInBuffer, k)
           P == IF k >= batch.pingPacketLastByte THEN <<batch.ping>> ELSE <<>>
<1>1. /\ IF batch.ping # 0
         THEN /\ NotifyPackets(P, W.calls)
              /\ m_packetsMetadataInBuffer' = SubSeq(W.slots, 1, W.size)
         ELSE UNCHANGED <<notified, m_startGracefulClear, socket, m_packetsMetadataInBuffer>>
      /\ batch' = [batch EXCEPT !.loops = @ + 1, !.sendResult = k]
      /\ UNCHANGED <<retryVars, isRecoverable, pc>>
  BY DEF PartSent
<1> HIDE DEF W, P
<1> QED
  BY <1>1 DEF NotifyPackets, Notify

\* A send leaves the queue alone; the call goes on, returns or crashes.
LEMMA SendChanges ==
    ASSUME SocketTakes \/ SocketFails
    PROVE  /\ Sending
           /\ UNCHANGED <<queue, composed, added, tracker, isRecoverable>>
           /\ socket' = socket \/ socket' = "closed"
           /\ \/ pc' = "idle" /\ batch' = NoBatch
              \/ pc' = "crashed" /\ batch' = batch
              \/ pc' = pc /\ \E k \in Int : batch' = [batch EXCEPT !.loops = @ + 1, !.sendResult = k]
<1>1. CASE SocketTakes
  <2>1. PICK k \in 0 .. Len(m_sendBuffer) :
            IF k = Len(m_sendBuffer) THEN AllSent ELSE PartSent(k)
    BY <1>1 DEF SocketTakes
  <2>2. k \in Int
    OBVIOUS
  <2>3. Sending /\ UNCHANGED <<queue, composed, added, tracker>>
    BY <1>1 DEF SocketTakes, queue
  <2>4. CASE AllSent
    BY <2>3, <2>4, AllSentChanges
  <2>5. CASE PartSent(k)
    BY <2>2, <2>3, <2>5, PartSentChanges
  <2> QED
    BY <2>1, <2>4, <2>5
<1>2. CASE SocketFails
  <2>1. Sending /\ UNCHANGED <<queue, composed, added, tracker>>
    BY <1>2 DEF SocketFails, streamVars, queue
  <2>2. PICK e \in SendErrors :
          \/ /\ batch' = [batch EXCEPT !.loops = @ + 1, !.sendResult = e]
             /\ UNCHANGED <<isRecoverable, pc, socket>>
          \/ AllSent
          \/ PartSent(e)
          \/ pc' = "crashed" /\ UNCHANGED <<isRecoverable, batch, socket>>
    BY <1>2 DEF SocketFails
  <2>3. e \in Int
    BY SendQueueAssumption DEF SendQueueAssumption
  <2>4. CASE AllSent
    BY <2>1, <2>4, AllSentChanges
  <2>5. CASE PartSent(e)
    BY <2>1, <2>3, <2>5, PartSentChanges
  <2> QED
    BY <2>1, <2>2, <2>3, <2>4, <2>5
<1> QED
  BY <1>1, <1>2

\* The initial state is typed.
LEMMA TypedInit == Init => TypedInv
<1> SUFFICES ASSUME Init PROVE TypedInv
  OBVIOUS
<1>1. <<>> \in Seq(Packet \union {Null}) /\ <<>> \in Seq(Packet) /\ DOMAIN <<>> = {}
  BY EmptySeq
<1>2. queue = <<>> /\ batch = NoBatch /\ tracker = Null /\ composed = <<>>
  BY DEF Init, queue
<1>3. Typed
  BY <1>1, <1>2, NoBatchTyped DEF Init, Typed, NoneUsesTracker
<1>4. NoNulls
  BY <1>1, <1>2 DEF NoNulls
<1> QED
  BY <1>3, <1>4 DEF TypedInv

\* Every step keeps the types.
LEMMA TypedNext == TypedInv /\ StreamTyped /\ [Next]_vars => TypedInv'
<1> SUFFICES ASSUME TypedInv, StreamTyped, [Next]_vars PROVE TypedInv'
  OBVIOUS
<1>0. Typed /\ NoNulls /\ batch \in Batch /\ isRecoverable \in BOOLEAN
  BY DEF TypedInv, Typed
<1>1. CASE UNCHANGED vars
  <2>1. UNCHANGED <<queue, composed, added, tracker, batch, isRecoverable, pc, socket>>
    BY <1>1 DEF vars, socketVars, bufferVars, retryVars, callVars, streamVars, queue
  <2>2. Typed'
    BY <1>0, <2>1, TypedQuiet DEF Typed, delayed
  <2> QED
    BY <1>0, <2>1, <2>2 DEF TypedInv, NoNulls
<1>2. ASSUME NEW t \in Templates, QueuePacket(t) PROVE TypedInv'
  <2>1. t \in Template
    BY TemplatesTyped
  <2>2. tracker \in Tracker \/ ~UsesTracker(t)
    BY <1>0, <1>2 DEF Typed, QueuePacket, UsesTracker, IsQosPublish
  <2>3. /\ pc = "idle" /\ AddToQueue(t) /\ composed' \in Seq(Packet)
        /\ UNCHANGED <<tracker, batch, pc, isRecoverable, socket>>
    BY <1>0, <1>2 DEF QueuePacket, socketVars, callVars, streamVars, Typed
  <2> QED
    BY <2>1, <2>2, <2>3, AddToQueueKeepsTyped
<1>3. CASE ClearQueue
  <2>1. /\ CancelAll /\ UNCHANGED <<composed, added, tracker, batch>> /\ isRecoverable' \in BOOLEAN
        /\ socket' = "closed"
    BY <1>3 DEF ClearQueue, streamVars
  <2> QED
    BY <2>1, CancelTyped
<1>4. CASE SocketConnects
  <2>1. ConnectPacket \in Template /\ ~UsesTracker(ConnectPacket)
    BY TemplatesTyped DEF UsesTracker, IsQosPublish
  <2>2. /\ pc = "idle" /\ AddToQueue(ConnectPacket) /\ composed' \in Seq(Packet)
        /\ UNCHANGED <<tracker, batch, pc, isRecoverable>> /\ socket' = "opening"
    BY <1>4, EmptySeq DEF SocketConnects, callVars
  <2> QED
    BY <2>1, <2>2, AddToQueueKeepsTyped
<1>5. CASE SocketLost
  <2>1. UNCHANGED <<queue, composed, added, tracker, batch, isRecoverable, pc>> /\ socket' = "lost"
    BY <1>5 DEF SocketLost, callVars, streamVars, queue
  <2>2. Typed'
    BY <1>0, <2>1, TypedQuiet DEF Typed, delayed
  <2> QED
    BY <1>0, <2>1, <2>2 DEF TypedInv, NoNulls
<1>6. CASE ConnAck
  <2>1. UNCHANGED <<queue, composed, added, batch, isRecoverable, pc>>
    BY <1>6 DEF ConnAck, callVars, streamVars, queue
  <2>2. tracker' \in Tracker
    BY <1>6, NewTrackerTyped DEF ConnAck
  <2>3. Typed'
    BY <1>0, <2>1, <2>2 DEF Typed
  <2> QED
    BY <1>0, <2>1, <2>3 DEF TypedInv, NoNulls
<1>7. CASE Acknowledge
  <2>1. UNCHANGED <<queue, composed, added, batch, isRecoverable, pc, socket>> /\ tracker \in Tracker
    BY <1>0, <1>7 DEF Typed, socketVars, Acknowledge, callVars, streamVars, queue
  <2>2. PICK p \in ToSet(composed) : tracker' = IncrementSendAllowance(tracker, p.id)
    BY <1>7 DEF Acknowledge
  <2>3. p \in Packet
    BY <1>0, PacketsNotNull DEF Typed, ToSet
  <2>4. tracker' \in Tracker
    BY <2>1, <2>2, <2>3, PacketTyped, TrackerOperators
  <2>5. Typed'
    BY <1>0, <2>1, <2>4 DEF Typed
  <2> QED
    BY <1>0, <2>1, <2>5 DEF TypedInv, NoNulls
<1>8. CASE BeginSendNextBatch
  <2>1. UNCHANGED <<queue, composed, added, tracker, batch, isRecoverable, socket>> /\ pc' = "try"
    BY <1>8 DEF socketVars, BeginSendNextBatch, streamVars, queue
  <2>2. Typed'
    BY <1>0, <2>1, TypedQuiet
  <2>3. pc = "idle" /\ isRecoverable
    BY <1>8 DEF BeginSendNextBatch
  <2> QED
    BY <1>0, <2>1, <2>2, <2>3 DEF TypedInv, NoNulls
<1>9. CASE NothingQueued
  <2>1. /\ UNCHANGED <<queue, composed, added, tracker, isRecoverable, socket>>
        /\ pc' = "idle" /\ batch' = NoBatch /\ pc = "try"
    BY <1>9 DEF socketVars, NothingQueued, ReturnSuccess, streamVars, queue
  <2>2. Typed'
    BY <1>0, <2>1, TypedQuiet, NoBatchTyped
  <2> QED
    BY <1>0, <2>1, <2>2 DEF TypedInv, NoNulls
<1>10. CASE GracefulClear
  <2>1. /\ CancelAll /\ UNCHANGED <<composed, added, tracker, batch>> /\ isRecoverable' \in BOOLEAN
        /\ UNCHANGED socket
    BY <1>0, <1>10 DEF socketVars, GracefulClear, streamVars
  <2> QED
    BY <2>1, CancelTyped
<1>11. CASE BeginCompose
  <2>1. /\ UNCHANGED <<queue, composed, added, tracker, isRecoverable, socket>>
        /\ pc' = "compose" /\ batch' = NoBatch /\ pc = "try"
    BY <1>11 DEF socketVars, BeginCompose, streamVars, queue
  <2>2. Typed'
    BY <1>0, <2>1, TypedQuiet, NoBatchTyped DEF NoBatch
  <2> QED
    BY <1>0, <2>1, <2>2 DEF TypedInv, NoNulls
<1>12. CASE DelayPacket
  <2>1. /\ UNCHANGED <<composed, added, tracker, isRecoverable, pc, socket>> /\ pc = "compose"
        /\ queue' = [queue EXCEPT ![batch.next] = Null]
        /\ batch' = [batch EXCEPT !.next = @ + 1, !.delayed = Append(@, NextComposer)]
    BY <1>12 DEF DelayPacket, Composing, socketVars, streamVars, queue
  <2>2. NextComposer \in Packet /\ batch.next \in 1 .. Len(queue) /\ tracker \in Tracker
    BY <1>12, NextComposerTyped DEF DelayPacket, CanSend, UsesTracker
  <2>3. batch' \in Batch /\ batch'.next = batch.next + 1
    BY <1>0, <2>1, <2>2, BatchDelays
  <2>4. /\ queue' \in Seq(Packet \union {Null}) /\ DOMAIN queue' = DOMAIN queue
        /\ DOMAIN queue = 1 .. Len(queue) /\ Len(queue) \in Nat
        /\ \A i \in 1 .. Len(queue) : queue'[i] = IF i = batch.next THEN Null ELSE queue[i]
    <3>1. Null \in Packet \union {Null}
      OBVIOUS
    <3>2. queue \in Seq(Packet \union {Null})
      BY <1>0 DEF Typed
    <3> QED
      BY <2>1, <2>2, <3>1, <3>2, ExceptSeq, LenProperties
  <2>5. Typed'
    BY <1>0, <2>1, <2>2, <2>3, <2>4 DEF Typed
  <2>6. NoNulls'
    BY <1>0, <2>1, <2>3, <2>4, BatchTyped DEF NoNulls
  <2> QED
    BY <2>5, <2>6 DEF TypedInv
<1>13. CASE EncodeFails
  <2>1. /\ UNCHANGED <<queue, composed, added, tracker, socket>>
        /\ pc' = "idle" /\ batch' = NoBatch /\ isRecoverable' = FALSE
    BY <1>13 DEF socketVars, EncodeFails, streamVars, queue
  <2>2. Typed'
    BY <1>0, <2>1, TypedQuiet, NoBatchTyped
  <2> QED
    BY <1>0, <2>1, <2>2 DEF TypedInv, NoNulls
<1>14. CASE ComposePacket
  <2> DEFINE p == NextComposer
             firstPing == p.type = "PINGREQ" /\ batch.ping = 0
             newPing == IF firstPing THEN p.n ELSE batch.ping
             last == IF firstPing THEN EndByte(p) ELSE batch.pingPacketLastByte
  <2>1. /\ UNCHANGED <<queue, composed, added, isRecoverable, pc, socket>> /\ pc = "compose"
        /\ tracker' = TrackerAfterCompose(p)
        /\ batch' = Composes(batch, p, newPing, last)
    BY <1>14 DEF ComposePacket, Composes, Composing, streamVars, socketVars, queue
  <2>2. p \in Packet /\ (tracker \in Tracker \/ ~UsesTracker(p))
    BY <1>14, NextComposerTyped DEF ComposePacket
  <2>3. p \in Packet /\ newPing \in Nat /\ last \in Nat
    <3>1. Len(m_sendBuffer) \in Nat /\ Len(batch.encoded) \in Nat
      BY <1>0, BatchTyped, LenProperties DEF StreamTyped
    <3> QED
      BY <1>0, <2>2, <3>1, BatchTyped, PacketTyped DEF EndByte
  <2>a. DOMAIN queue = 1 .. Len(queue) /\ Len(queue) \in Nat
    BY <1>0, LenProperties DEF Typed
  <2> HIDE DEF p, newPing, last
  <2>4. batch' \in Batch /\ batch'.next = batch.next + 1 /\ batch'.delayed = delayed
    BY <1>0, <2>1, <2>3, BatchComposes DEF delayed
  <2>5. /\ tracker \in Tracker => tracker' \in Tracker
        /\ tracker \in Tracker \/ tracker' = tracker
    BY <2>1, <2>2, <2>3, TrackerAfterComposeTyped
  <2>6. Typed'
    BY <1>0, <2>1, <2>4, <2>5 DEF Typed, NoneUsesTracker, UsesTracker, IsQosPublish, delayed
  <2>7. NoNulls'
    BY <1>0, <2>a, <2>1, <2>4, BatchTyped DEF NoNulls
  <2> QED
    BY <2>6, <2>7 DEF TypedInv
<1>15. CASE EndCompose
  <2>1. /\ UNCHANGED <<added, tracker, isRecoverable, batch, socket>> /\ pc' = "send"
        /\ queue' = delayed /\ composed' = composed \o packets
    BY <1>15 DEF EndCompose, QueueAfterCompose, socketVars, queue, delayed, packets
  <2>2. delayed \in Seq(Packet) /\ packets \in Seq(Packet)
    BY <1>0, BatchTyped DEF delayed, packets
  <2>3. composed' \in Seq(Packet)
    BY <1>0, <2>1, <2>2, ConcatProperties DEF Typed
  <2>4. queue' \in Seq(Packet \union {Null}) /\ \A i \in DOMAIN queue' : queue'[i] # Null
    BY <2>1, <2>2, PacketsNotNull
  <2>5. tracker \in Tracker \/ NoneUsesTracker'
    <3>1. pc = "compose"
      BY <1>15 DEF EndCompose
    <3>2. CASE delayed = <<>>
      BY <2>1, <3>2, EmptySeq DEF NoneUsesTracker
    <3>3. CASE delayed # <<>>
      BY <1>0, <3>1, <3>3 DEF Typed
    <3> QED
      BY <3>2, <3>3
  <2>6. Typed'
    BY <1>0, <2>1, <2>3, <2>4, <2>5 DEF Typed
  <2>7. NoNulls'
    BY <2>1, <2>4 DEF NoNulls
  <2> QED
    BY <2>6, <2>7 DEF TypedInv
<1>16. CASE SocketTakes \/ SocketFails
  <2>1. /\ UNCHANGED <<queue, composed, added, tracker, isRecoverable>> /\ pc = "send"
        /\ pc' \in {"send", "idle", "crashed"}
        /\ socket' = "established" => socket = "established"
    BY <1>16, SendChanges DEF Sending
  <2>2. batch' \in Batch
    <3>1. CASE \E k \in Int : batch' = [batch EXCEPT !.loops = @ + 1, !.sendResult = k]
      <4>1. batch.loops < SendAttempts
        BY <1>16, SendChanges DEF Sending
      <4> QED
        BY <1>0, <3>1, <4>1, BatchSends
    <3> QED
      BY <1>0, <1>16, <3>1, SendChanges, NoBatchTyped
  <2>3. Typed'
    BY <1>0, <2>1, <2>2, TypedQuiet
  <2> QED
    BY <1>0, <2>1, <2>3 DEF TypedInv, NoNulls
<1>17. CASE EndPartlySent
  <2>1. /\ UNCHANGED <<queue, composed, added, tracker, isRecoverable, socket>>
        /\ pc' = "idle" /\ batch' = NoBatch /\ pc = "send"
    BY <1>17 DEF EndPartlySent, LoopsDone, ReturnSuccess, streamVars, socketVars, queue
  <2>2. Typed'
    BY <1>0, <2>1, TypedQuiet, NoBatchTyped
  <2> QED
    BY <1>0, <2>1, <2>2 DEF TypedInv, NoNulls
<1>18. CASE EndSendError
  <2>1. /\ UNCHANGED <<queue, composed, added, tracker, socket>> /\ batch' = NoBatch
        /\ pc = "send" /\ pc' \in {"idle", "try"}
    BY <1>18 DEF EndSendError, LoopsDone, streamVars, socketVars, queue
  <2>2. isRecoverable' \in BOOLEAN
    <3>1. isRecoverable' = isRecoverable \/ isRecoverable' = (m_sendBatchRetryCount' < MaxBatchRetries)
      BY <1>18 DEF EndSendError, retryVars
    <3>2. (m_sendBatchRetryCount' < MaxBatchRetries) \in BOOLEAN
      OBVIOUS
    <3> QED
      BY <1>0, <3>1, <3>2, Zenon
  <2>3. Typed'
    BY <1>0, <2>1, <2>2, TypedQuiet, NoBatchTyped
  <2> QED
    BY <1>0, <2>1, <2>3 DEF TypedInv, NoNulls
<1> QED
  BY <1>1, <1>2, <1>3, <1>4, <1>5, <1>6, <1>7, <1>8, <1>9, <1>10, <1>11, <1>12, <1>13,
     <1>14, <1>15, <1>16, <1>17, <1>18 DEF Next, SendNextBatch, Environment

\* The buffer after a send: what is left behind the bytes taken.
LEMMA AllSentBuffer ==
    ASSUME AllSent
    PROVE  m_sendBuffer' = <<>>
BY DEF AllSent

\* The buffer after a send attempt holds the bytes the result leaves.
LEMMA PartSentBuffer ==
    ASSUME NEW k, PartSent(k)
    PROVE  m_sendBuffer' = Remaining(k)
BY DEF PartSent

\* The bytes the socket takes and the remainder make up the buffer.
LEMMA BytesTaken ==
    ASSUME StreamTyped, NEW k \in 0 .. Len(m_sendBuffer)
    PROVE  /\ SubSeq(m_sendBuffer, 1, k) \in Seq(Nat)
           /\ Remaining(k) \in Seq(Nat)
           /\ SubSeq(m_sendBuffer, 1, k) \o Remaining(k) = m_sendBuffer
           /\ k = Len(m_sendBuffer) => Remaining(k) = <<>>
<1>1. m_sendBuffer \in Seq(Nat) /\ Len(m_sendBuffer) \in Nat
  BY LenProperties DEF StreamTyped
<1>2. /\ \A i \in 1 .. k : m_sendBuffer[i] \in Nat
      /\ \A i \in k + 1 .. Len(m_sendBuffer) : m_sendBuffer[i] \in Nat
  <2>1. \A i \in 1 .. Len(m_sendBuffer) : m_sendBuffer[i] \in Nat
    BY <1>1, ElementOfSeq
  <2> QED
    BY <1>1, <2>1
<1>3. SubSeq(m_sendBuffer, 1, k) \in Seq(Nat) /\ Remaining(k) \in Seq(Nat)
  BY <1>1, <1>2, SubSeqProperties DEF Remaining
<1>4. SubSeq(m_sendBuffer, 1, k) \o Remaining(k) = m_sendBuffer
  <2>1. 1 \in 1 .. Len(m_sendBuffer) + 1 /\ k \in 1 - 1 .. Len(m_sendBuffer) /\ Len(m_sendBuffer) \in k .. Len(m_sendBuffer)
    BY <1>1
  <2>2. SubSeq(m_sendBuffer, 1, k) \o SubSeq(m_sendBuffer, k + 1, Len(m_sendBuffer)) = SubSeq(m_sendBuffer, 1, Len(m_sendBuffer))
    BY <1>1, <2>1, ConcatAdjacentSubSeq
  <2> QED
    BY <1>1, <2>2, SubSeqFull DEF Remaining
<1>5. k = Len(m_sendBuffer) => Remaining(k) = <<>>
  <2>1. k = Len(m_sendBuffer) => Len(m_sendBuffer) < k + 1
    BY <1>1
  <2> QED
    BY <1>1, <2>1, SubSeqEmpty DEF Remaining
<1> QED
  BY <1>3, <1>4, <1>5

\* The bytes the socket takes go to the wire and leave the buffer.
LEMMA SocketTakesBytes ==
    ASSUME StreamTyped, SocketTakes
    PROVE  \E k \in 0 .. Len(m_sendBuffer) :
              /\ wire' = wire \o SubSeq(m_sendBuffer, 1, k)
              /\ m_sendBuffer' = Remaining(k)
<1>1. PICK k \in 0 .. Len(m_sendBuffer) :
          /\ wire' = wire \o SubSeq(m_sendBuffer, 1, k)
          /\ IF k = Len(m_sendBuffer) THEN AllSent ELSE PartSent(k)
  BY DEF SocketTakes
<1>2. m_sendBuffer' = Remaining(k)
  BY <1>1, AllSentBuffer, PartSentBuffer, BytesTaken
<1> QED
  BY <1>1, <1>2

\* A failed send takes nothing: the buffer shrinks only when the error code is
\* taken for a number of bytes.
LEMMA SocketFailsBytes ==
    ASSUME StreamTyped, SocketFails
    PROVE  /\ wire' = wire
           /\ \/ m_sendBuffer' = m_sendBuffer
              \/ \E e \in SendErrors : e > 0 /\ e \in 0 .. Len(m_sendBuffer) /\ m_sendBuffer' = Remaining(e)
<1>1. wire' = wire /\ m_sendBuffer # <<>> /\ Len(m_sendBuffer) \in Nat \ {0}
  BY EmptySeq DEF SocketFails, streamVars, StreamTyped
<1>2. PICK e \in SendErrors :
          \/ m_sendBuffer' = m_sendBuffer
          \/ e = Len(m_sendBuffer) /\ AllSent
          \/ e \in 0 .. Len(m_sendBuffer) - 1 /\ PartSent(e)
  BY DEF SocketFails, bufferVars
<1>3. CASE e = Len(m_sendBuffer) /\ AllSent
  BY <1>1, <1>3, AllSentBuffer, BytesTaken
<1>4. CASE e \in 0 .. Len(m_sendBuffer) - 1 /\ PartSent(e)
  <2>1. m_sendBuffer' = Remaining(e) /\ e \in 0 .. Len(m_sendBuffer)
    BY <1>1, <1>4, PartSentBuffer
  <2>2. CASE e = 0
    <3>1. Remaining(0) = m_sendBuffer
      BY SubSeqFull DEF Remaining, StreamTyped
    <3> QED
      BY <1>1, <2>1, <2>2, <3>1
  <2>3. CASE e > 0
    BY <1>1, <2>1, <2>3
  <2> QED
    BY <1>1, <2>1, <2>2, <2>3
<1> QED
  BY <1>1, <1>2, <1>3, <1>4

\* Every step keeps the buffer, the wire and the composed packets typed.
LEMMA StreamTypedNext == TypedInv /\ StreamTyped /\ [Next]_vars => StreamTyped'
<1> SUFFICES ASSUME TypedInv, StreamTyped, [Next]_vars PROVE StreamTyped'
  OBVIOUS
<1>1. CASE UNCHANGED <<m_sendBuffer, wire>>
  BY <1>1 DEF StreamTyped
<1>2. CASE SocketConnects
  BY <1>2, EmptySeq DEF StreamTyped, SocketConnects, bufferVars
<1>3. CASE EndCompose
  <2>1. m_sendBuffer' = m_sendBuffer \o batch.encoded /\ wire' = wire
    BY <1>3 DEF EndCompose, BufferAfterCompose
  <2>2. batch.encoded \in Seq(Nat)
    BY BatchTyped DEF TypedInv, Typed
  <2> QED
    BY <2>1, <2>2, ConcatProperties DEF StreamTyped
<1>4. CASE SocketTakes
  BY <1>4, SocketTakesBytes, BytesTaken, ConcatProperties DEF StreamTyped
<1>5. CASE SocketFails
  BY <1>5, SocketFailsBytes, BytesTaken DEF StreamTyped
<1>6. CASE UNCHANGED vars \/ (\E t \in Templates : QueuePacket(t)) \/ ClearQueue \/ SocketLost \/ ConnAck \/ Acknowledge
  BY <1>1, <1>6 DEF vars, bufferVars, streamVars, QueuePacket, ClearQueue, SocketLost, ConnAck, Acknowledge
<1>7. CASE BeginSendNextBatch \/ NothingQueued \/ GracefulClear \/ BeginCompose \/ DelayPacket \/ EncodeFails \/ ComposePacket \/ EndPartlySent \/ EndSendError
  BY <1>1, <1>7 DEF bufferVars, streamVars, BeginSendNextBatch, NothingQueued, GracefulClear, BeginCompose, DelayPacket, EncodeFails, ComposePacket, EndPartlySent, EndSendError
<1> QED
  BY <1>2, <1>3, <1>4, <1>5, <1>6, <1>7 DEF Next, SendNextBatch, Environment

\* The types hold in every reachable state.
LEMMA TypesHold == Spec => [](TypedInv /\ StreamTyped)
<1>1. Init => StreamTyped
  BY EmptySeq DEF Init, StreamTyped
<1> QED
  BY <1>1, TypedInit, TypedNext, StreamTypedNext, PTL DEF Spec

-----------------------------------------------------------------------------
(* Order.                                                                   *)

Order == QueueOrder /\ BatchOrder

\* The elements of a sequence of packets with one more.
LEMMA AppendPacket ==
    ASSUME NEW s \in Seq(Packet), NEW p \in Packet
    PROVE  /\ Append(s, p) \in Seq(Packet)
           /\ DOMAIN s = 1 .. Len(s) /\ Len(s) \in Nat
           /\ DOMAIN Append(s, p) = 1 .. Len(s) + 1
           /\ \A i \in 1 .. Len(s) : Append(s, p)[i] = s[i]
           /\ Append(s, p)[Len(s) + 1] = p
BY AppendProperties, LenProperties

\* A packet queued behind the others has the highest serial number.
LEMMA AddToQueueOrder ==
    ASSUME TypedInv, QueueOrder, NEW t \in Template, AddToQueue(t),
           composed' = composed \/ composed' = <<>>
    PROVE  QueueOrder'
<1> DEFINE p == Numbered(t, added + 1)
           n == Len(queue)
<1>1. p \in Packet /\ p.n = added + 1 /\ added \in Nat
  BY NumberedPacket DEF TypedInv, Typed
<1>2. queue' = Append(queue, p) /\ added' = added + 1
  BY DEF AddToQueue, queue
<1> HIDE DEF p
<1>3. /\ DOMAIN queue = 1 .. n /\ n \in Nat
      /\ DOMAIN queue' = 1 .. n + 1
      /\ \A i \in 1 .. n : queue'[i] = queue[i]
      /\ queue'[n + 1] = p
  BY <1>1, <1>2, AppendTyped DEF TypedInv, Typed
<1>4. /\ \A i \in 1 .. n : queue[i] # Null => queue[i].n \in Nat
      /\ \A i \in DOMAIN composed : composed[i] # Null /\ composed[i].n \in Nat
  <2>1. \A i \in 1 .. n : queue[i] \in Packet \union {Null}
    BY <1>3, ElementOfSeq DEF TypedInv, Typed
  <2> QED
    BY <2>1, PacketsNotNull, PacketTyped DEF TypedInv, Typed
<1> HIDE DEF n
<1>5. Increasing(queue')
  BY <1>1, <1>3, <1>4 DEF QueueOrder, Increasing, UpTo, IsPacket
<1>6. UpTo(queue', added')
  BY <1>1, <1>2, <1>3, <1>4 DEF QueueOrder, UpTo, IsPacket
<1>7. CASE composed' = composed
  <2>1. QosIncreasing(composed') /\ UpTo(composed', added')
    BY <1>1, <1>2, <1>4, <1>7 DEF QueueOrder, QosIncreasing, UpTo, IsPacket, IsQos, IsQosPublish
  <2>2. QosBelow(composed', queue')
    BY <1>1, <1>3, <1>4, <1>7 DEF QueueOrder, QosBelow, UpTo, IsPacket, IsQos, IsQosPublish
  <2> QED
    BY <1>5, <1>6, <2>1, <2>2 DEF QueueOrder, Increasing, QosIncreasing, QosBelow, UpTo, IsPacket, IsQos, IsQosPublish
<1>8. CASE composed' = <<>>
  <2>1. DOMAIN composed' = {}
    BY <1>8
  <2> QED
    BY <1>5, <1>6, <2>1 DEF QueueOrder, Increasing, QosIncreasing, QosBelow, UpTo, IsPacket, IsQos, IsQosPublish
<1> QED
  BY <1>7, <1>8

\* A publish that must wait goes behind those that already do.
LEMMA DelayPacketOrder ==
    ASSUME TypedInv, Order, DelayPacket
    PROVE  Order'
<1> DEFINE p == NextComposer
           k == batch.next
           n == Len(queue)
           m == Len(delayed)
<1>1. /\ p \in Packet /\ p = queue[k] /\ k \in 1 .. n /\ p.n \in Nat
      /\ tracker \in Tracker /\ IsQosPublish(p) /\ ~HasSendAllowance(tracker)
      /\ pc = "compose"
  BY NextComposerTyped, PacketTyped DEF DelayPacket, CanSend, UsesTracker, Composing
<1>2. batch \in Batch /\ delayed \in Seq(Packet) /\ packets \in Seq(Packet)
  BY BatchTyped DEF TypedInv, Typed, delayed, packets
<1>3. /\ UNCHANGED <<composed, added, tracker, pc>>
      /\ queue' = [queue EXCEPT ![k] = Null]
      /\ batch' = [batch EXCEPT !.next = @ + 1, !.delayed = Append(@, p)]
  BY DEF DelayPacket, streamVars, queue
<1> HIDE DEF p
<1>4. batch'.next = k + 1 /\ delayed' = Append(delayed, p) /\ packets' = packets
  BY <1>1, <1>2, <1>3, BatchDelays DEF delayed, packets
<1>5. /\ DOMAIN queue' = DOMAIN queue /\ DOMAIN queue = 1 .. n /\ n \in Nat
      /\ \A i \in 1 .. n : queue'[i] = IF i = k THEN Null ELSE queue[i]
  BY <1>1, <1>3, ExceptSeq, LenProperties DEF TypedInv, Typed
<1>6. /\ DOMAIN delayed = 1 .. m /\ m \in Nat
      /\ DOMAIN delayed' = 1 .. m + 1
      /\ \A i \in 1 .. m : delayed'[i] = delayed[i]
      /\ delayed'[m + 1] = p
  BY <1>1, <1>2, <1>4, AppendPacket
<1>7. /\ \A i \in 1 .. n : queue[i] # Null => queue[i].n \in Nat
      /\ \A i \in DOMAIN delayed : delayed[i] # Null /\ delayed[i].n \in Nat
      /\ \A i \in DOMAIN packets : packets[i] # Null /\ packets[i].n \in Nat
      /\ \A i \in DOMAIN composed : composed[i] # Null /\ composed[i].n \in Nat
      /\ p # Null
  <2>1. \A i \in 1 .. n : queue[i] \in Packet \union {Null}
    BY <1>5, ElementOfSeq DEF TypedInv, Typed
  <2> QED
    BY <1>1, <1>2, <2>1, PacketsNotNull, PacketTyped DEF TypedInv, Typed
<1>8. QueueOrder /\ BatchOrder /\ pc = "compose"
  BY <1>1 DEF Order
<1>k. k = batch.next
  OBVIOUS
<1> HIDE DEF n, m, k
<1>9. QueueOrder'
  BY <1>1, <1>3, <1>5, <1>7, <1>8 DEF QueueOrder, Increasing, QosIncreasing, QosBelow, UpTo,
     IsPacket, IsQos, IsQosPublish
<1>p. /\ k \in DOMAIN queue /\ IsPacket(queue, k) /\ IsQos(queue, k) /\ p.n <= added
      /\ k \in Nat /\ added \in Nat
  BY <1>1, <1>5, <1>7, <1>8 DEF QueueOrder, UpTo, IsPacket, IsQos, TypedInv, Typed
<1>q. \A i \in 1 .. m : delayed[i].n < p.n
  BY <1>1, <1>6, <1>7, <1>8, <1>p, <1>k DEF BatchOrder, QosBelowRest, IsPacket, IsQos
<1>r. \A i \in DOMAIN packets : IsQos(packets, i) => packets[i].n < p.n
  BY <1>1, <1>8, <1>p, <1>k DEF BatchOrder, QosBelowRest
<1>s. \A i \in DOMAIN composed : IsQos(composed, i) => composed[i].n < p.n
  BY <1>1, <1>8, <1>p DEF QueueOrder, QosBelow
<1>t. \A j \in 1 .. n : j > k /\ queue[j] # Null => p.n < queue[j].n
  BY <1>1, <1>5, <1>8, <1>p DEF QueueOrder, Increasing, IsPacket
<1>10. Increasing(delayed') /\ UpTo(delayed', added)
  <2>1. Increasing(delayed) /\ UpTo(delayed, added)
    BY <1>8 DEF BatchOrder
  <2>2. \A i \in 1 .. m + 1 : delayed'[i] # Null => delayed'[i].n <= added
    BY <1>1, <1>6, <1>7, <1>p, <2>1 DEF UpTo, IsPacket
  <2>3. \A i, j \in 1 .. m + 1 : i < j => i \in 1 .. m
    BY <1>6
  <2>4. \A i, j \in 1 .. m : i < j => delayed[i].n < delayed[j].n
    BY <1>6, <1>7, <2>1 DEF Increasing, IsPacket
  <2>5. \A i, j \in 1 .. m + 1 : i < j => delayed'[i].n < delayed'[j].n
    BY <1>1, <1>6, <1>q, <2>3, <2>4
  <2> QED
    BY <1>6, <2>2, <2>5 DEF Increasing, UpTo, IsPacket
<1>11. QosBelow(composed, delayed') /\ QosBelow(packets, delayed')
  <2>1. QosBelow(composed, delayed) /\ QosBelow(packets, delayed)
    BY <1>8 DEF BatchOrder
  <2> QED
    BY <1>6, <1>r, <1>s, <2>1 DEF QosBelow, IsPacket, IsQos
<1>12. QosBelowRest(delayed)' /\ QosBelowRest(packets)'
  <2>1. QosBelowRest(delayed) /\ QosBelowRest(packets)
    BY <1>8 DEF BatchOrder
  <2>2. \A j \in 1 .. n : j >= k + 1 => j >= k /\ j > k /\ j # k
    BY <1>5, <1>p
  <2> QED
    BY <1>k, <1>4, <1>5, <1>6, <1>t, <2>1, <2>2 DEF QosBelowRest, IsPacket, IsQos, IsQosPublish
<1>13. \A i \in DOMAIN delayed' : IsQosPublish(delayed'[i])
  BY <1>1, <1>6, <1>8 DEF BatchOrder
<1>14. BatchOrder'
  BY <1>1, <1>3, <1>4, <1>8, <1>10, <1>11, <1>12, <1>13
     DEF BatchOrder, Increasing, QosIncreasing, QosBelow, UpTo, IsPacket, IsQos, IsQosPublish, HasSendAllowance
<1> QED
  BY <1>9, <1>14 DEF Order

\* What composing a packet changes.
LEMMA ComposePacketChanges ==
    ASSUME TypedInv, StreamTyped, ComposePacket
    PROVE  LET p == NextComposer
           IN  /\ p \in Packet
               /\ batch' \in Batch
               /\ batch'.next = batch.next + 1
               /\ delayed' = delayed
               /\ packets' = Append(packets, p)
               /\ batch'.encoded = batch.encoded \o Bytes(p)
               /\ batch'.ping = IF p.type = "PINGREQ" /\ batch.ping = 0 THEN p.n ELSE batch.ping
               /\ batch'.pingPacketLastByte = IF p.type = "PINGREQ" /\ batch.ping = 0
                                              THEN EndByte(p) ELSE batch.pingPacketLastByte
<1> DEFINE p == NextComposer
           newPing == IF p.type = "PINGREQ" /\ batch.ping = 0 THEN p.n ELSE batch.ping
           last == IF p.type = "PINGREQ" /\ batch.ping = 0 THEN EndByte(p)
                   ELSE batch.pingPacketLastByte
<1>1. batch' = Composes(batch, p, newPing, last)
  BY DEF ComposePacket, Composes
<1>2. p \in Packet /\ batch \in Batch
  BY NextComposerTyped DEF ComposePacket, TypedInv, Typed
<1>3. newPing \in Nat /\ last \in Nat
  <2>1. Len(m_sendBuffer) \in Nat /\ Len(batch.encoded) \in Nat
    BY <1>2, BatchTyped, LenProperties DEF StreamTyped
  <2> QED
    BY <1>2, <2>1, BatchTyped, PacketTyped DEF EndByte
<1> HIDE DEF p, newPing, last
<1>4. batch' \in Batch
  BY <1>1, <1>2, <1>3, BatchComposes
<1>5. batch'.next = batch.next + 1 /\ batch'.delayed = batch.delayed
  BY <1>1, <1>2, <1>3, BatchComposes
<1>6. batch'.packets = Append(batch.packets, p)
  BY <1>1, <1>2 DEF Composes, Batch
<1>7. batch'.encoded = batch.encoded \o Bytes(p)
  BY <1>1, <1>2 DEF Composes, Batch
<1>8. batch'.ping = newPing /\ batch'.pingPacketLastByte = last
  BY <1>1, <1>2, <1>3, BatchComposes
<1> QED
  BY <1>2, <1>4, <1>5, <1>6, <1>7, <1>8 DEF p, newPing, last, delayed, packets

\* A publish is composed behind those queued before it, and only while none waits.
LEMMA ComposePacketOrder ==
    ASSUME TypedInv, StreamTyped, Order, ComposePacket
    PROVE  Order'
<1> DEFINE p == NextComposer
           k == batch.next
           n == Len(queue)
           m == Len(packets)
<1>1. /\ p \in Packet /\ p = queue[k] /\ k \in 1 .. n /\ p.n \in Nat
      /\ tracker \in Tracker \/ ~UsesTracker(p)
      /\ IsQosPublish(p) => HasSendAllowance(tracker)
      /\ pc = "compose"
  BY NextComposerTyped, PacketTyped DEF ComposePacket, CanSend, Composing
<1>2. batch \in Batch /\ delayed \in Seq(Packet) /\ packets \in Seq(Packet)
  BY BatchTyped DEF TypedInv, Typed, delayed, packets
<1>3. UNCHANGED <<queue, composed, added, pc>> /\ tracker' = TrackerAfterCompose(p)
  BY DEF ComposePacket, streamVars, queue
<1>4. batch'.next = k + 1 /\ delayed' = delayed /\ packets' = Append(packets, p)
  BY ComposePacketChanges
<1> HIDE DEF p
<1>5. DOMAIN queue = 1 .. n /\ n \in Nat
  BY LenProperties DEF TypedInv, Typed
<1>6. /\ DOMAIN packets = 1 .. m /\ m \in Nat
      /\ DOMAIN packets' = 1 .. m + 1
      /\ \A i \in 1 .. m : packets'[i] = packets[i]
      /\ packets'[m + 1] = p
  BY <1>1, <1>2, <1>4, AppendPacket
<1>7. /\ \A i \in 1 .. n : queue[i] # Null => queue[i].n \in Nat
      /\ \A i \in DOMAIN delayed : delayed[i] # Null /\ delayed[i].n \in Nat
      /\ \A i \in DOMAIN packets : packets[i] # Null /\ packets[i].n \in Nat
      /\ p # Null
  <2>1. \A i \in 1 .. n : queue[i] \in Packet \union {Null}
    BY <1>5, ElementOfSeq DEF TypedInv, Typed
  <2> QED
    BY <1>1, <1>2, <2>1, PacketsNotNull, PacketTyped
<1>8. QueueOrder /\ BatchOrder
  BY DEF Order
<1>9. k = batch.next
  OBVIOUS
<1> HIDE DEF n, m, k
<1>10. QueueOrder'
  BY <1>3, <1>8 DEF QueueOrder, Increasing, QosIncreasing, QosBelow, UpTo,
     IsPacket, IsQos, IsQosPublish
<1>11. k \in DOMAIN queue /\ IsPacket(queue, k) /\ p.n <= added /\ k \in Nat /\ added \in Nat
  BY <1>1, <1>5, <1>7, <1>8 DEF QueueOrder, UpTo, IsPacket, TypedInv, Typed
<1>12. \A i \in DOMAIN packets : IsQos(packets, i) /\ IsQosPublish(p) => packets[i].n < p.n
  BY <1>1, <1>8, <1>9, <1>11 DEF BatchOrder, QosBelowRest, IsQos
<1>13. \A i \in DOMAIN composed : IsQos(composed, i) /\ IsQosPublish(p) => composed[i].n < p.n
  BY <1>1, <1>8, <1>11 DEF QueueOrder, QosBelow, IsQos
<1>14. \A j \in 1 .. n : j > k /\ queue[j] # Null => p.n < queue[j].n
  BY <1>1, <1>5, <1>8, <1>11 DEF QueueOrder, Increasing, IsPacket
<1>15. delayed # <<>> => tracker' \in Tracker /\ ~HasSendAllowance(tracker') /\ ~IsQosPublish(p)
  <2>1. delayed # <<>> => tracker \in Tracker /\ ~HasSendAllowance(tracker)
    BY <1>1, <1>8 DEF BatchOrder
  <2>2. delayed # <<>> => ~IsQosPublish(p)
    BY <1>1, <2>1
  <2> QED
    BY <1>1, <1>3, <2>1, <2>2, TrackerAfterComposeTyped DEF HasSendAllowance
<1>16. QosIncreasing(packets') /\ UpTo(packets', added)
  <2>1. QosIncreasing(packets) /\ UpTo(packets, added)
    BY <1>1, <1>8 DEF BatchOrder
  <2> QED
    BY <1>1, <1>6, <1>7, <1>11, <1>12, <2>1 DEF QosIncreasing, UpTo, IsPacket, IsQos
<1>17. QosBelow(composed, packets')
  <2>1. QosBelow(composed, packets)
    BY <1>1, <1>8 DEF BatchOrder
  <2> QED
    BY <1>6, <1>13, <2>1 DEF QosBelow, IsPacket, IsQos
<1>18. QosBelow(packets', delayed)
  <2>1. QosBelow(packets, delayed)
    BY <1>1, <1>8 DEF BatchOrder
  <2>2. DOMAIN delayed # {} => delayed # <<>>
    OBVIOUS
  <2> QED
    BY <1>6, <1>15, <2>1, <2>2 DEF QosBelow, IsPacket, IsQos
<1>19. QosBelowRest(delayed)' /\ QosBelowRest(packets)'
  <2>1. QosBelowRest(delayed) /\ QosBelowRest(packets)
    BY <1>1, <1>8 DEF BatchOrder
  <2>2. \A j \in 1 .. n : j >= k + 1 => j >= k /\ j > k
    BY <1>5, <1>11
  <2>3. QosBelowRest(delayed)'
    BY <1>3, <1>4, <1>5, <1>9, <2>1, <2>2 DEF QosBelowRest, IsPacket, IsQos, IsQosPublish
  <2>4. QosBelowRest(packets)'
    BY <1>3, <1>4, <1>5, <1>6, <1>9, <1>14, <2>1, <2>2 DEF QosBelowRest, IsPacket, IsQos, IsQosPublish
  <2> QED
    BY <2>3, <2>4
<1>20. BatchOrder'
  BY <1>1, <1>3, <1>4, <1>8, <1>15, <1>16, <1>17, <1>18, <1>19
     DEF BatchOrder, Increasing, QosIncreasing, QosBelow, UpTo, IsPacket, IsQos, IsQosPublish, HasSendAllowance
<1> QED
  BY <1>10, <1>20 DEF Order

\* The batch joins the packets composed before it; what waits is the queue.
LEMMA EndComposeOrder ==
    ASSUME TypedInv, Order, EndCompose
    PROVE  Order'
<1> DEFINE n == Len(composed)
           m == Len(packets)
<1>1. /\ UNCHANGED <<added, batch>> /\ pc = "compose" /\ pc' = "send"
      /\ queue' = delayed /\ composed' = composed \o packets
  BY DEF EndCompose, QueueAfterCompose, queue, delayed, packets
<1>2. composed \in Seq(Packet) /\ delayed \in Seq(Packet) /\ packets \in Seq(Packet)
  BY BatchTyped DEF TypedInv, Typed, delayed, packets
<1>3. /\ n \in Nat /\ m \in Nat /\ DOMAIN composed = 1 .. n /\ DOMAIN packets = 1 .. m
      /\ DOMAIN composed' = 1 .. n + m
      /\ \A i \in 1 .. n + m : composed'[i] = IF i <= n THEN composed[i] ELSE packets[i - n]
  BY <1>1, <1>2, ConcatProperties, LenProperties
<1>4. /\ \A i \in 1 .. n : composed'[i] = composed[i]
      /\ \A i \in n + 1 .. n + m : composed'[i] = packets[i - n] /\ i - n \in 1 .. m
      /\ \A i \in 1 .. n + m : i \in 1 .. n \/ i \in n + 1 .. n + m
  BY <1>3
<1>5. QueueOrder /\ BatchOrder
  BY DEF Order
<1> HIDE DEF n, m
<1>6. Increasing(queue') /\ UpTo(queue', added')
  BY <1>1, <1>5 DEF BatchOrder
<1>7. UpTo(composed', added')
  BY <1>1, <1>3, <1>4, <1>5 DEF BatchOrder, QueueOrder, UpTo, IsPacket
<1>8. QosBelow(composed', queue')
  BY <1>1, <1>3, <1>4, <1>5 DEF BatchOrder, QosBelow, IsPacket, IsQos
<1>9. QosIncreasing(composed')
  <2>1. SUFFICES ASSUME NEW i \in 1 .. n + m, NEW j \in 1 .. n + m, i < j,
                        IsQos(composed', i), IsQos(composed', j)
                 PROVE  composed'[i].n < composed'[j].n
    BY <1>3 DEF QosIncreasing
  <2>2. CASE i \in 1 .. n /\ j \in 1 .. n
    BY <1>3, <1>4, <1>5, <2>1, <2>2 DEF QueueOrder, QosIncreasing, IsPacket, IsQos
  <2>3. CASE i \in 1 .. n /\ j \in n + 1 .. n + m
    BY <1>1, <1>3, <1>4, <1>5, <2>1, <2>3 DEF BatchOrder, QosBelow, IsPacket, IsQos
  <2>4. CASE i \in n + 1 .. n + m /\ j \in n + 1 .. n + m
    <3>1. i - n < j - n /\ i - n \in 1 .. m /\ j - n \in 1 .. m
      BY <1>3, <1>4, <2>1, <2>4
    <3> QED
      BY <1>1, <1>3, <1>4, <1>5, <2>1, <2>4, <3>1 DEF BatchOrder, QosIncreasing, IsPacket, IsQos
  <2> QED
    BY <1>3, <1>4, <2>1, <2>2, <2>3, <2>4
<1>10. QueueOrder'
  BY <1>1, <1>6, <1>7, <1>8, <1>9 DEF QueueOrder, Increasing, QosIncreasing, QosBelow, UpTo,
     IsPacket, IsQos, IsQosPublish
<1> QED
  BY <1>1, <1>10 DEF Order, BatchOrder

\* The queue and the composed packets stay, and no batch is being composed.
LEMMA QuietOrder ==
    ASSUME QueueOrder, UNCHANGED <<queue, composed, added>>, pc' # "compose"
    PROVE  Order'
BY DEF Order, QueueOrder, BatchOrder, Increasing, QosIncreasing, QosBelow, UpTo,
       IsPacket, IsQos, IsQosPublish

\* Cancelling all packets leaves nothing to be out of order.
LEMMA CancelOrder ==
    ASSUME QueueOrder, CancelAll, UNCHANGED <<composed, added>>
    PROVE  Order'
<1>1. queue' = <<>> /\ DOMAIN queue' = {} /\ pc' # "compose"
  BY DEF CancelAll, queue
<1> QED
  BY <1>1 DEF Order, QueueOrder, BatchOrder, Increasing, QosIncreasing, QosBelow, UpTo,
     IsPacket, IsQos, IsQosPublish

\* The empty queue is in order.
LEMMA OrderInit == Init => Order
<1> SUFFICES ASSUME Init PROVE Order
  OBVIOUS
<1>1. DOMAIN queue = {} /\ DOMAIN composed = {} /\ pc # "compose"
  BY DEF Init, queue
<1> QED
  BY <1>1 DEF Order, QueueOrder, BatchOrder, Increasing, QosIncreasing, QosBelow, UpTo

\* Every step keeps the publishes in the order they were queued in.
LEMMA OrderNext == TypedInv /\ StreamTyped /\ Order /\ [Next]_vars => Order'
<1> SUFFICES ASSUME TypedInv, StreamTyped, Order, [Next]_vars PROVE Order'
  OBVIOUS
<1>0. QueueOrder /\ BatchOrder
  BY DEF Order
<1>1. CASE UNCHANGED vars \/ SocketLost
  <2>1. UNCHANGED <<queue, composed, added, tracker, batch, pc, delayed, packets>>
    BY <1>1 DEF vars, callVars, streamVars, SocketLost, queue, delayed, packets
  <2> QED
    BY <1>0, <2>1 DEF Order, QueueOrder, BatchOrder, Increasing, QosIncreasing, QosBelow, UpTo,
       QosBelowRest, IsPacket, IsQos, IsQosPublish, HasSendAllowance
<1>2. ASSUME NEW t \in Templates, QueuePacket(t) PROVE Order'
  <2>1. t \in Template /\ AddToQueue(t) /\ composed' = composed /\ pc' # "compose"
    BY <1>2, TemplatesTyped DEF QueuePacket, callVars, streamVars
  <2>2. QueueOrder'
    BY <1>0, <2>1, AddToQueueOrder
  <2> QED
    BY <2>1, <2>2 DEF Order, BatchOrder
<1>3. CASE SocketConnects
  <2>1. ConnectPacket \in Template /\ AddToQueue(ConnectPacket) /\ composed' = <<>> /\ pc' # "compose"
    BY <1>3, TemplatesTyped DEF SocketConnects, callVars
  <2>2. QueueOrder'
    BY <1>0, <2>1, AddToQueueOrder
  <2> QED
    BY <2>1, <2>2 DEF Order, BatchOrder
<1>4. CASE ClearQueue \/ GracefulClear
  BY <1>0, <1>4, CancelOrder DEF ClearQueue, GracefulClear, streamVars
<1>5. CASE ConnAck \/ Acknowledge \/ BeginSendNextBatch \/ NothingQueued \/ EncodeFails \/ EndPartlySent
  <2>1. UNCHANGED <<queue, composed, added>> /\ pc' # "compose"
    BY <1>5 DEF ConnAck, Acknowledge, BeginSendNextBatch, NothingQueued, EncodeFails, EndPartlySent, ReturnSuccess,
       callVars, streamVars, queue
  <2> QED
    BY <1>0, <2>1, QuietOrder
<1>6. CASE EndSendError
  <2>1. UNCHANGED <<queue, composed, added>> /\ pc' # "compose"
    BY <1>6 DEF EndSendError, streamVars, queue
  <2> QED
    BY <1>0, <2>1, QuietOrder
<1>7. CASE SocketTakes \/ SocketFails
  BY <1>0, <1>7, SendChanges, QuietOrder DEF Sending
<1>8. CASE BeginCompose
  <2>1. UNCHANGED <<queue, composed, added>> /\ DOMAIN delayed' = {} /\ DOMAIN packets' = {} /\ delayed' = <<>>
    BY <1>8 DEF BeginCompose, streamVars, queue, delayed, packets, NoBatch
  <2> QED
    BY <1>0, <2>1 DEF Order, QueueOrder, BatchOrder, Increasing, QosIncreasing, QosBelow, UpTo,
       QosBelowRest, IsPacket, IsQos, IsQosPublish
<1> QED
  BY <1>1, <1>2, <1>3, <1>4, <1>5, <1>6, <1>7, <1>8, DelayPacketOrder, ComposePacketOrder, EndComposeOrder
     DEF Next, SendNextBatch, Environment

\* Publishes with QoS above 0 leave in the order they were queued, whatever the
\* quota holds back, the socket refuses and the encoder rejects, over any number
\* of connections.
THEOREM QosOrder == Spec => []QosOrderKept
<1>1. TypedInv /\ Order => QosOrderKept
  <2> SUFFICES ASSUME TypedInv, Order PROVE QosOrderKept
    OBVIOUS
  <2>1. \A i \in DOMAIN composed : composed[i] # Null
    BY PacketsNotNull DEF TypedInv, Typed
  <2> QED
    BY <2>1 DEF Order, QueueOrder, QosIncreasing, IsPacket, IsQos, QosOrderKept
<1>2. Init => TypedInv /\ StreamTyped /\ Order
  BY EmptySeq, TypedInit, OrderInit DEF Init, StreamTyped
<1> QED
  BY <1>1, <1>2, TypedNext, StreamTypedNext, OrderNext, PTL DEF Spec

-----------------------------------------------------------------------------
(* The stream of bytes.                                                     *)

Coded(ps) == [i \in DOMAIN ps |-> Bytes(ps[i])]

\* The sequence of the packets' bytes, one element a packet.
LEMMA CodedTyped ==
    ASSUME NEW ps \in Seq(Packet)
    PROVE  /\ Coded(ps) \in Seq(Seq(Nat)) /\ Len(Coded(ps)) = Len(ps)
           /\ \A i \in 1 .. Len(ps) : Coded(ps)[i] = Bytes(ps[i])
<1>1. DOMAIN ps = 1 .. Len(ps) /\ Len(ps) \in Nat /\ \A i \in 1 .. Len(ps) : ps[i] \in Packet
  BY LenProperties, ElementOfSeq
<1>2. \A i \in 1 .. Len(ps) : Bytes(ps[i]) \in Seq(Nat)
  BY <1>1, BytesTyped
<1>3. Coded(ps) = [i \in 1 .. Len(ps) |-> Bytes(ps[i])]
  BY <1>1 DEF Coded
<1> QED
  BY <1>1, <1>2, <1>3

\* The bytes of no packet, of one packet more, and of two sequences of packets.
LEMMA AllBytesEmpty == AllBytes(<<>>) = <<>>
<1>1. <<>> \in Seq(Packet)
  BY EmptySeq
<1>2. Coded(<<>>) = <<>>
  BY <1>1, CodedTyped, EmptySeq
<1> QED
  BY <1>2, FlattenSeqEmpty DEF AllBytes, Coded

\* The bytes of one packet more follow those of the others.
LEMMA AllBytesAppend ==
    ASSUME NEW ps \in Seq(Packet), NEW p \in Packet
    PROVE  /\ AllBytes(ps) \in Seq(Nat)
           /\ AllBytes(Append(ps, p)) = AllBytes(ps) \o Bytes(p)
<1>1. /\ Append(ps, p) \in Seq(Packet) /\ Len(Append(ps, p)) = Len(ps) + 1 /\ Len(ps) \in Nat
      /\ \A i \in 1 .. Len(ps) : Append(ps, p)[i] = ps[i]
      /\ Append(ps, p)[Len(ps) + 1] = p
  BY AppendProperties, LenProperties
<1>2. Bytes(p) \in Seq(Nat) /\ Coded(ps) \in Seq(Seq(Nat)) /\ Coded(Append(ps, p)) \in Seq(Seq(Nat))
  BY <1>1, BytesTyped, CodedTyped
<1>3. /\ Append(Coded(ps), Bytes(p)) \in Seq(Seq(Nat))
      /\ Len(Append(Coded(ps), Bytes(p))) = Len(ps) + 1
      /\ \A i \in 1 .. Len(ps) : Append(Coded(ps), Bytes(p))[i] = Bytes(ps[i])
      /\ Append(Coded(ps), Bytes(p))[Len(ps) + 1] = Bytes(p)
  BY <1>2, CodedTyped, AppendProperties
<1>4. /\ Len(Coded(Append(ps, p))) = Len(ps) + 1
      /\ \A i \in 1 .. Len(ps) + 1 : Coded(Append(ps, p))[i] = Bytes(Append(ps, p)[i])
  BY <1>1, CodedTyped
<1>5. \A i \in 1 .. Len(ps) + 1 : Coded(Append(ps, p))[i] = Append(Coded(ps), Bytes(p))[i]
  BY <1>1, <1>3, <1>4
<1>6. Coded(Append(ps, p)) = Append(Coded(ps), Bytes(p))
  BY <1>2, <1>3, <1>4, <1>5, SeqEqual
<1> QED
  BY <1>2, <1>6, FlattenSeqAppend DEF AllBytes, Coded

\* The bytes of two sequences of packets follow each other.
LEMMA AllBytesConcat ==
    ASSUME NEW ps \in Seq(Packet), NEW qs \in Seq(Packet)
    PROVE  AllBytes(ps \o qs) = AllBytes(ps) \o AllBytes(qs)
<1>1. /\ ps \o qs \in Seq(Packet) /\ Len(ps \o qs) = Len(ps) + Len(qs)
      /\ Len(ps) \in Nat /\ Len(qs) \in Nat
      /\ \A i \in 1 .. Len(ps) + Len(qs) : (ps \o qs)[i] = IF i <= Len(ps) THEN ps[i] ELSE qs[i - Len(ps)]
  BY ConcatProperties, LenProperties
<1>2. Coded(ps) \in Seq(Seq(Nat)) /\ Coded(qs) \in Seq(Seq(Nat)) /\ Coded(ps \o qs) \in Seq(Seq(Nat))
  BY <1>1, CodedTyped
<1>3. Len(Coded(ps)) = Len(ps) /\ Len(Coded(qs)) = Len(qs) /\ Len(Coded(ps \o qs)) = Len(ps) + Len(qs)
  BY <1>1, CodedTyped
<1>4. /\ Coded(ps) \o Coded(qs) \in Seq(Seq(Nat))
      /\ Len(Coded(ps) \o Coded(qs)) = Len(ps) + Len(qs)
      /\ \A i \in 1 .. Len(ps) + Len(qs) :
            (Coded(ps) \o Coded(qs))[i] = IF i <= Len(ps) THEN Coded(ps)[i] ELSE Coded(qs)[i - Len(ps)]
  BY <1>2, <1>3, ConcatProperties
<1>5. ASSUME NEW i \in 1 .. Len(ps) + Len(qs)
      PROVE  Coded(ps \o qs)[i] = (Coded(ps) \o Coded(qs))[i]
  <2>1. Coded(ps \o qs)[i] = Bytes((ps \o qs)[i])
    BY <1>1, CodedTyped
  <2>2. CASE i <= Len(ps)
    <3>1. i \in 1 .. Len(ps)
      BY <1>1, <2>2
    <3> QED
      BY <1>1, <1>4, <2>1, <2>2, <3>1, CodedTyped
  <2>3. CASE ~(i <= Len(ps))
    <3>1. i - Len(ps) \in 1 .. Len(qs)
      BY <1>1, <2>3
    <3> QED
      BY <1>1, <1>4, <2>1, <2>3, <3>1, CodedTyped
  <2> QED
    BY <2>2, <2>3
<1>6. Coded(ps \o qs) = Coded(ps) \o Coded(qs)
  BY <1>2, <1>3, <1>4, <1>5, SeqEqual
<1> QED
  BY <1>2, <1>6, FlattenSeqConcat DEF AllBytes, Coded

\* Before the first socket is opened nothing has happened.
Untouched ==
    /\ connections \in Nat
    /\ connections = 0 => /\ pc = "idle" /\ socket = "closed" /\ tracker = Null
                          /\ queue = <<>> /\ m_sendBuffer = <<>>

\* No connection has been made.
LEMMA UntouchedInit == Init => Untouched
BY DEF Init, Untouched, queue

\* Before the first connection nothing is queued, composed or sent.
LEMMA UntouchedNext == Untouched /\ [Next]_vars => Untouched'
<1> SUFFICES ASSUME Untouched, [Next]_vars PROVE Untouched'
  OBVIOUS
<1>1. CASE connections # 0 /\ connections' = connections
  BY <1>1 DEF Untouched
<1>2. CASE SocketConnects
  BY <1>2 DEF Untouched, SocketConnects
<1>3. connections' = connections \/ SocketConnects
  <2>1. CASE UNCHANGED vars
    BY <2>1 DEF vars, socketVars
  <2>2. CASE Environment
    BY <2>2 DEF Environment, socketVars, QueuePacket, ClearQueue, SocketLost, ConnAck, Acknowledge
  <2>3. CASE BeginSendNextBatch \/ NothingQueued \/ GracefulClear \/ BeginCompose \/ DelayPacket \/ EncodeFails
    BY <2>3 DEF socketVars, BeginSendNextBatch, NothingQueued, GracefulClear, BeginCompose, DelayPacket, EncodeFails
  <2>4. CASE ComposePacket \/ EndCompose \/ SocketTakes \/ SocketFails \/ EndPartlySent \/ EndSendError
    BY <2>4 DEF socketVars, ComposePacket, EndCompose, SocketTakes, SocketFails, EndPartlySent, EndSendError
  <2> QED
    BY <2>1, <2>2, <2>3, <2>4 DEF Next, SendNextBatch
<1>4. CASE connections = 0 /\ ~SocketConnects
  <2>1. /\ pc = "idle" /\ socket = "closed" /\ tracker = Null
        /\ queue = <<>> /\ m_sendBuffer = <<>>
    BY <1>4 DEF Untouched
  <2>2. CASE UNCHANGED vars
    BY <2>1, <2>2 DEF Untouched, vars, callVars, socketVars, bufferVars, queue
  <2>3. CASE ClearQueue
    <3>1. queue' = <<>> /\ pc' = "idle"
      BY <2>1, <2>3 DEF ClearQueue, CancelAll, ToSet, queue
    <3> QED
      BY <2>1, <2>3, <3>1 DEF Untouched, ClearQueue, bufferVars
  <2>4. ~SendNextBatch
    BY <2>1 DEF SendNextBatch, NothingQueued, GracefulClear, BeginCompose, DelayPacket, EncodeFails, ComposePacket,
       EndCompose, SocketTakes, SocketFails, EndPartlySent, EndSendError, Composing, Sending, LoopsDone
  <2>5. ~BeginSendNextBatch /\ ~SocketLost /\ ~ConnAck /\ ~Acknowledge /\ \A t \in Templates : ~QueuePacket(t)
    BY <2>1 DEF BeginSendNextBatch, SocketLost, ConnAck, Acknowledge, QueuePacket
  <2> QED
    BY <1>4, <2>2, <2>3, <2>4, <2>5 DEF Next, Environment
<1> QED
  BY <1>1, <1>2, <1>3, <1>4

\* What the composing loop has encoded, and the stream of the first connection.
Stream ==
    /\ pc = "compose" => batch.encoded = AllBytes(packets)
    /\ connections <= 1 => StreamIntact

\* Nothing composed, nothing written.
LEMMA StreamInit == Init => Stream
<1> SUFFICES ASSUME Init PROVE Stream
  OBVIOUS
<1>1. wire = <<>> /\ m_sendBuffer = <<>> /\ composed = <<>> /\ pc # "compose"
  BY DEF Init
<1>2. <<>> \o <<>> = <<>>
  OBVIOUS
<1> QED
  BY <1>1, <1>2, AllBytesEmpty DEF Stream, StreamIntact

\* Every step of the first connection keeps the wire and the buffer, end to end,
\* the bytes of the composed packets.
LEMMA StreamNext ==
    ASSUME \A e \in SendErrors : e <= 0
    PROVE  TypedInv /\ StreamTyped /\ Untouched /\ Stream /\ [Next]_vars => Stream'
<1> SUFFICES ASSUME TypedInv, StreamTyped, Untouched, Stream, [Next]_vars PROVE Stream'
  OBVIOUS
<1>1. CASE UNCHANGED <<wire, m_sendBuffer, composed, connections>> /\ (pc' # "compose" \/ UNCHANGED <<pc, batch>>)
  BY <1>1 DEF Stream, StreamIntact, packets
<1>2. CASE UNCHANGED vars \/ SocketLost
  BY <1>1, <1>2 DEF vars, streamVars, bufferVars, callVars, socketVars, SocketLost
<1>3. CASE \E t \in Templates : QueuePacket(t)
  BY <1>1, <1>3 DEF QueuePacket, streamVars, bufferVars, callVars, socketVars
<1>4. CASE ClearQueue \/ GracefulClear
  BY <1>1, <1>4 DEF ClearQueue, GracefulClear, CancelAll, streamVars, bufferVars, callVars, socketVars
<1>5. CASE ConnAck \/ Acknowledge \/ BeginSendNextBatch \/ NothingQueued \/ EncodeFails \/ EndPartlySent
  BY <1>1, <1>5 DEF ConnAck, Acknowledge, BeginSendNextBatch, NothingQueued, EncodeFails, EndPartlySent, ReturnSuccess,
     streamVars, bufferVars, callVars, socketVars
<1>6. CASE EndSendError
  BY <1>1, <1>6 DEF EndSendError, streamVars, bufferVars, callVars, socketVars
<1>7. CASE SocketConnects
  <2>1. wire' = <<>> /\ composed' = <<>> /\ pc' # "compose" /\ m_sendBuffer' = m_sendBuffer /\ connections' = connections + 1
    BY <1>7 DEF SocketConnects, bufferVars, callVars
  <2>2. connections' <= 1 => m_sendBuffer = <<>>
    BY <2>1 DEF Untouched
  <2>3. <<>> \o <<>> = <<>>
    OBVIOUS
  <2> QED
    BY <2>1, <2>2, <2>3, AllBytesEmpty DEF Stream, StreamIntact
<1>8. CASE BeginCompose
  <2>1. UNCHANGED <<wire, m_sendBuffer, composed, connections>> /\ batch' = NoBatch
    BY <1>8 DEF BeginCompose, streamVars, bufferVars, socketVars
  <2> QED
    BY <2>1, AllBytesEmpty DEF Stream, StreamIntact, NoBatch, packets
<1>9. CASE DelayPacket
  <2>1. UNCHANGED <<wire, m_sendBuffer, composed, connections, pc>> /\ pc = "compose"
    BY <1>9 DEF DelayPacket, Composing, streamVars, bufferVars, socketVars
  <2>2. packets' = packets /\ batch'.encoded = batch.encoded
    BY <1>9 DEF DelayPacket, TypedInv, Typed, Batch, packets
  <2> QED
    BY <2>1, <2>2 DEF Stream, StreamIntact
<1>10. CASE ComposePacket
  <2>1. UNCHANGED <<wire, m_sendBuffer, composed, connections, pc>> /\ pc = "compose"
    BY <1>10 DEF ComposePacket, Composing, streamVars, socketVars
  <2>2. PICK p \in Packet : packets' = Append(packets, p) /\ batch'.encoded = batch.encoded \o Bytes(p)
    BY <1>10, ComposePacketChanges
  <2>3. packets \in Seq(Packet)
    BY BatchTyped DEF TypedInv, Typed, packets
  <2>4. batch.encoded = AllBytes(packets)
    BY <2>1 DEF Stream
  <2>5. AllBytes(Append(packets, p)) = AllBytes(packets) \o Bytes(p)
    BY <2>3, AllBytesAppend
  <2>6. batch'.encoded = AllBytes(packets')
    BY ONLY <2>2, <2>4, <2>5, Zenon
  <2> QED
    BY <2>1, <2>6 DEF Stream, StreamIntact
<1>11. CASE EndCompose
  <2>1. /\ m_sendBuffer' = m_sendBuffer \o batch.encoded /\ composed' = composed \o packets
        /\ UNCHANGED <<wire, connections>> /\ pc = "compose" /\ pc' = "send"
    BY <1>11 DEF EndCompose, BufferAfterCompose, packets, socketVars
  <2>2. /\ packets \in Seq(Packet) /\ composed \in Seq(Packet) /\ batch.encoded \in Seq(Nat)
        /\ wire \in Seq(Nat) /\ m_sendBuffer \in Seq(Nat)
    BY BatchTyped DEF TypedInv, Typed, StreamTyped, packets
  <2>3. batch.encoded = AllBytes(packets)
    BY <2>1 DEF Stream
  <2>4. AllBytes(composed \o packets) = AllBytes(composed) \o AllBytes(packets)
    BY <2>2, AllBytesConcat
  <2>5. (wire \o m_sendBuffer) \o batch.encoded = wire \o (m_sendBuffer \o batch.encoded)
    BY <2>2, BytesAssociative
  <2>6. StreamIntact => StreamIntact'
    BY ONLY <2>1, <2>3, <2>4, <2>5, Zenon DEF StreamIntact
  <2> QED
    BY <2>1, <2>6 DEF Stream
<1>12. CASE SocketTakes
  <2>1. PICK k \in 0 .. Len(m_sendBuffer) :
           wire' = wire \o SubSeq(m_sendBuffer, 1, k) /\ m_sendBuffer' = Remaining(k)
    BY <1>12, SocketTakesBytes
  <2>2. UNCHANGED <<composed, connections>> /\ pc' # "compose"
    BY <1>12, SendChanges DEF SocketTakes, Sending
  <2>3. /\ SubSeq(m_sendBuffer, 1, k) \in Seq(Nat) /\ Remaining(k) \in Seq(Nat) /\ wire \in Seq(Nat)
        /\ SubSeq(m_sendBuffer, 1, k) \o Remaining(k) = m_sendBuffer
    BY BytesTaken DEF StreamTyped
  <2>4. (wire \o SubSeq(m_sendBuffer, 1, k)) \o Remaining(k) = wire \o (SubSeq(m_sendBuffer, 1, k) \o Remaining(k))
    BY <2>3, BytesAssociative
  <2>5. StreamIntact => StreamIntact'
    BY ONLY <2>1, <2>2, <2>3, <2>4, Zenon DEF StreamIntact
  <2> QED
    BY <2>2, <2>5 DEF Stream
<1>13. CASE SocketFails
  <2>1. wire' = wire /\ m_sendBuffer' = m_sendBuffer
    BY <1>13, SocketFailsBytes, SendQueueAssumption DEF SendQueueAssumption
  <2>2. UNCHANGED <<composed, connections>> /\ pc' # "compose"
    BY <1>13, SendChanges DEF SocketFails, Sending
  <2> QED
    BY <2>1, <2>2 DEF Stream, StreamIntact
<1> QED
  BY <1>2, <1>3, <1>4, <1>5, <1>6, <1>7, <1>8, <1>9, <1>10, <1>11, <1>12, <1>13
     DEF Next, SendNextBatch, Environment

\* When getLastError reports no positive code, the bytes the socket has taken
\* followed by those still buffered are those of the packets composed, in order,
\* as long as one connection lasts: sends that take a part or nothing, retries
\* and encode errors neither lose a byte nor send one twice.
THEOREM StreamStaysIntact ==
    ASSUME \A e \in SendErrors : e <= 0
    PROVE  Spec => [](connections <= 1 => StreamIntact)
<1>1. Init => TypedInv /\ StreamTyped /\ Untouched /\ Stream
  BY EmptySeq, TypedInit, UntouchedInit, StreamInit DEF Init, StreamTyped
<1>2. Stream => (connections <= 1 => StreamIntact)
  BY DEF Stream
<1>3. TypedInv /\ StreamTyped /\ Untouched /\ Stream /\ [Next]_vars => Stream'
  BY StreamNext
<1> QED
  BY <1>1, <1>2, <1>3, TypedNext, StreamTypedNext, UntouchedNext, PTL DEF Spec

-----------------------------------------------------------------------------
(* Where the packets are: the serial numbers of those that wait in the queue,  *)
(* that the composing loop holds back, or has composed, and of those composed  *)
(* for the current connection.                                                 *)

Rest(i) == pc = "compose" => i >= batch.next
Numbers(s) == {s[i].n : i \in DOMAIN s}

Waiting == {queue[i].n : i \in {j \in DOMAIN queue : queue[j] # Null /\ Rest(j)}}
Held == IF pc = "compose" THEN Numbers(delayed) ELSE {}
InBatch == IF pc = "compose" THEN Numbers(packets) ELSE {}
InComposed == Numbers(composed)

\* The numbers of a sequence with one packet more.
LEMMA NumbersAppend ==
    ASSUME NEW s \in Seq(Packet), NEW p \in Packet
    PROVE  Numbers(Append(s, p)) = Numbers(s) \union {p.n}
<1> DEFINE t == Append(s, p)
<1>1. /\ DOMAIN s = 1 .. Len(s) /\ Len(s) \in Nat
      /\ DOMAIN t = 1 .. Len(s) + 1
      /\ \A i \in 1 .. Len(s) : t[i] = s[i]
      /\ t[Len(s) + 1] = p
  BY AppendPacket
<1> HIDE DEF t
<1>2. \A i \in DOMAIN t : i \in 1 .. Len(s) \/ i = Len(s) + 1
  BY <1>1
<1>3. \A i \in DOMAIN s : i \in DOMAIN t /\ t[i] = s[i]
  BY <1>1
<1>4. Len(s) + 1 \in DOMAIN t
  BY <1>1
<1>5. Numbers(t) = Numbers(s) \union {p.n}
  BY <1>1, <1>2, <1>3, <1>4 DEF Numbers
<1> QED
  BY <1>5 DEF t

\* The numbers of two sequences end to end.
LEMMA NumbersConcat ==
    ASSUME NEW s \in Seq(Packet), NEW t \in Seq(Packet)
    PROVE  Numbers(s \o t) = Numbers(s) \union Numbers(t)
<1>1. PICK u \in Seq(Packet) : u = s \o t
  BY ConcatProperties
<1>2. /\ DOMAIN s = 1 .. Len(s) /\ Len(s) \in Nat /\ DOMAIN t = 1 .. Len(t) /\ Len(t) \in Nat
      /\ DOMAIN u = 1 .. Len(s) + Len(t)
      /\ \A i \in 1 .. Len(s) + Len(t) : u[i] = IF i <= Len(s) THEN s[i] ELSE t[i - Len(s)]
  BY <1>1, ConcatProperties, LenProperties
<1>3. \A i \in DOMAIN s : i \in DOMAIN u /\ u[i] = s[i]
  BY <1>2
<1>4. \A i \in DOMAIN t : i + Len(s) \in DOMAIN u /\ u[i + Len(s)] = t[i]
  BY <1>2
<1>5. \A i \in DOMAIN u : (i \in DOMAIN s /\ u[i] = s[i]) \/ (i - Len(s) \in DOMAIN t /\ u[i] = t[i - Len(s)])
  BY <1>2
<1>6. Numbers(u) = Numbers(s) \union Numbers(t)
  BY <1>3, <1>4, <1>5 DEF Numbers
<1> QED
  BY <1>1, <1>6

\* Queueing a packet.
LEMMA NumbersAddToQueue ==
    ASSUME TypedInv, pc = "idle", NEW t \in Template, AddToQueue(t), pc' = pc
    PROVE  Waiting' = Waiting \union {added + 1}
<1> DEFINE p == Numbered(t, added + 1)
           n == Len(queue)
<1>1. p \in Packet /\ p.n = added + 1
  BY NumberedPacket DEF TypedInv, Typed
<1>2. queue' = Append(queue, p)
  BY DEF AddToQueue, queue
<1>3. p # Null
  BY <1>1, PacketTyped
<1> HIDE DEF p
<1>4. /\ DOMAIN queue = 1 .. n /\ n \in Nat
      /\ DOMAIN queue' = 1 .. n + 1
      /\ \A i \in 1 .. n : queue'[i] = queue[i]
      /\ queue'[n + 1] = p
  BY <1>1, <1>2, AppendTyped DEF TypedInv, Typed
<1> HIDE DEF n
<1>5. /\ \A i \in DOMAIN queue' : i \in DOMAIN queue \/ i = n + 1
      /\ \A i \in DOMAIN queue : i \in DOMAIN queue' /\ queue'[i] = queue[i]
      /\ n + 1 \in DOMAIN queue'
  BY <1>4
<1> QED
  BY <1>1, <1>3, <1>4, <1>5 DEF Waiting, Rest

\* Emptying the queue cancels what waits.
LEMMA NumbersCancel ==
    ASSUME pc # "compose", CancelAll
    PROVE  Waiting' = {} /\ cancelled' = cancelled \union Waiting /\ pc' # "compose"
<1>1. queue' = <<>> /\ DOMAIN queue' = {} /\ pc' # "compose"
  BY DEF CancelAll, queue
<1>2. cancelled' = cancelled \union {p.n : p \in ToSet(queue) \ {Null}}
  BY DEF CancelAll, queue
<1>3. {p.n : p \in ToSet(queue) \ {Null}} = Waiting
  BY DEF Waiting, Rest, ToSet
<1> QED
  BY <1>1, <1>2, <1>3 DEF Waiting

\* The steps of the composing loop move one packet.
LEMMA NumbersNext ==
    ASSUME TypedInv, Order, Composing, batch'.next = batch.next + 1,
           pc' = pc, DOMAIN queue' = DOMAIN queue,
           \A i \in DOMAIN queue : i # batch.next => queue'[i] = queue[i]
    PROVE  /\ NextComposer.n \in Waiting
           /\ Waiting' = Waiting \ {NextComposer.n}
<1> DEFINE p == NextComposer
           k == batch.next
<1>1. p \in Packet /\ p = queue[k] /\ k \in DOMAIN queue /\ p # Null /\ pc = "compose"
  BY NextComposerTyped, PacketTyped DEF Composing
<1>2. DOMAIN queue = 1 .. Len(queue) /\ Len(queue) \in Nat
  BY LenProperties DEF TypedInv, Typed
<1>3. \A i \in 1 .. Len(queue) : queue[i] # Null => queue[i].n \in Nat
  <2>1. \A i \in 1 .. Len(queue) : queue[i] \in Packet \union {Null}
    BY <1>2, ElementOfSeq DEF TypedInv, Typed
  <2> QED
    BY <2>1, PacketTyped
<1>4. k = batch.next
  OBVIOUS
<1> HIDE DEF p, k
<1>5. \A i \in DOMAIN queue : queue[i] # Null /\ i > k => queue[i].n # p.n
  BY <1>1, <1>2, <1>3 DEF Order, QueueOrder, Increasing, IsPacket
<1>6. \A i \in DOMAIN queue : (i >= k + 1 <=> i > k) /\ (i >= k <=> i = k \/ i > k) /\ ~(k > k)
  BY <1>1, <1>2
<1>7. p.n \in Waiting
  BY <1>1, <1>4, <1>6 DEF Waiting, Rest
<1>8. Waiting' = {queue[i].n : i \in {j \in DOMAIN queue : queue[j] # Null /\ j > k}}
  BY <1>1, <1>4, <1>6 DEF Waiting, Rest
<1>9. Waiting = {p.n} \union {queue[i].n : i \in {j \in DOMAIN queue : queue[j] # Null /\ j > k}}
  BY <1>1, <1>4, <1>6 DEF Waiting, Rest
<1>10. p.n \notin {queue[i].n : i \in {j \in DOMAIN queue : queue[j] # Null /\ j > k}}
  BY <1>5
<1> QED
  BY <1>7, <1>8, <1>9, <1>10 DEF p

-----------------------------------------------------------------------------
(* Notification.                                                            *)

Meta == [endByte : Nat, packet : Packet]
metas == m_packetsMetadataInBuffer

\* The bytes that wait for the socket, those of the batch under way included.
Pending == IF pc = "compose" THEN m_sendBuffer \o batch.encoded ELSE m_sendBuffer

\* The byte n occurs in the sequence, nowhere behind the position last.
Ends(s, n, last) ==
    /\ \E i \in DOMAIN s : s[i] = n
    /\ \A i \in DOMAIN s : s[i] = n => i <= last

\* The ends recorded: of the packets with metadata and of the batch's first ping.
Records ==
    {<<metas[i].packet.n, metas[i].endByte>> : i \in DOMAIN metas}
    \union {r \in {<<batch.ping, batch.pingPacketLastByte>>} :
               pc \in {"compose", "send"} /\ batch.ping # 0}

\* The packets and positions for which the packet has been delivered, or its
\* last pending byte is at the position or before; no byte of it will join the
\* pending ones, for it no longer waits.
Covered ==
    {r \in Nat \X Nat : /\ r[1] \in delivered \/ Ends(Pending, r[1], r[2])
                       /\ r[1] <= added /\ r[1] \notin Waiting \union Held}

Notification ==
    /\ metas \in Seq(Meta) /\ notified \in [Serials -> Nat]
    /\ Waiting \intersect Held = {}
    /\ Records \subseteq Covered
    /\ NoEarlyNotification

\* The function f walks over the metadata s after k bytes were taken.
Walks(f, s, k) ==
    f = [i \in 0 .. Len(s) |-> IF i = 0 THEN [slots |-> s, size |-> Len(s), calls |-> <<>>]
                                        ELSE Visit(f[i - 1], i, k)]

\* The walks over n slots that hold elements of R, those in C reported.
WalkSet(R, C, n) == [slots : [1 .. n -> R], size : {i \in Int : i <= n}, calls : Seq(C)]

\* A visit moves elements and reports one whose end is within the bytes taken.
LEMMA VisitTyped ==
    ASSUME NEW R, NEW k, NEW n \in Nat, NEW i \in 1 .. n,
           NEW C, C = {m \in R : k >= m.endByte}, NEW w \in WalkSet(R, C, n)
    PROVE  Visit(w, i, k) \in WalkSet(R, C, n)
<1>1. w.slots \in [1 .. n -> R] /\ w.size \in Int /\ w.size <= n /\ w.calls \in Seq(C)
  BY DEF WalkSet
<1>2. CASE k >= w.slots[i].endByte
  <2>1. w.slots[i] \in C
    BY <1>1, <1>2
  <2>2. Append(w.calls, w.slots[i]) \in Seq(C)
    BY <1>1, <2>1, AppendProperties
  <2>3. [j \in DOMAIN w.slots |-> w.slots[IF j < w.size THEN j + 1 ELSE j]] \in [1 .. n -> R]
    BY <1>1
  <2>4. w.size - 1 \in {j \in Int : j <= n}
    BY <1>1
  <2>5. Visit(w, i, k) = [slots |-> [j \in DOMAIN w.slots |-> w.slots[IF j < w.size THEN j + 1 ELSE j]],
                          size  |-> w.size - 1,
                          calls |-> Append(w.calls, w.slots[i])]
    BY <1>2 DEF Visit
  <2> QED
    BY <2>2, <2>3, <2>4, <2>5 DEF WalkSet
<1>3. CASE ~(k >= w.slots[i].endByte)
  BY <1>3 DEF Visit
<1> QED
  BY <1>2, <1>3

\* What the walk starts with and every visit keeps holds at its end.
LEMMA WalkStays ==
    ASSUME NEW s, NEW k, Len(s) \in Nat, NEW S,
           [slots |-> s, size |-> Len(s), calls |-> <<>>] \in S,
           \A i \in 1 .. Len(s) : \A w \in S : Visit(w, i, k) \in S
    PROVE  MetadataWalk(s, k) \in S
<1> DEFINE n == Len(s)
           b == [slots |-> s, size |-> n, calls |-> <<>>]
           F == [i \in Nat |-> [w \in S |-> IF i \in 1 .. n THEN Visit(w, i, k) ELSE w]]
<1>1. b \in S
  OBVIOUS
<1>2. \A i \in Nat : \A w \in S : F[i][w] = (IF i \in 1 .. n THEN Visit(w, i, k) ELSE w)
  BY Zenon
<1>3. \A i \in 1 .. n : \A w \in S : Visit(w, i, k) \in S
  OBVIOUS
<1>4. F \in [Nat -> [S -> S]]
  BY <1>3
<1>5. \A i \in 1 .. n : \A w \in S : F[i][w] = Visit(w, i, k)
  BY <1>2
<1> HIDE DEF b, F
<1>6. PICK f \in [0 .. n -> S] : f[0] = b /\ \A i \in 1 .. n : f[i] = F[i][f[i - 1]]
  <2>1. n \in Nat
    OBVIOUS
  <2> HIDE DEF n
  <2> QED
    BY ONLY <1>1, <1>4, <2>1, FunctionByRecursion
<1>7. \A i \in 0 .. n : f[i] = IF i = 0 THEN b ELSE Visit(f[i - 1], i, k)
  BY <1>5, <1>6
<1>8. f = [i \in 0 .. n |-> IF i = 0 THEN b ELSE Visit(f[i - 1], i, k)]
  BY <1>7
<1>9. Walks(f, s, k)
  BY <1>8 DEF Walks, b
<1> DEFINE g == CHOOSE h : Walks(h, s, k)
<1>10. Walks(g, s, k)
  BY <1>9
<1>11. MetadataWalk(s, k) = g[n]
  BY DEF MetadataWalk, Walks
<1> HIDE DEF g
<1>12. \A i \in 0 .. n : g[i] = IF i = 0 THEN b ELSE Visit(g[i - 1], i, k)
  <2> DEFINE h == [i \in 0 .. n |-> IF i = 0 THEN b ELSE Visit(g[i - 1], i, k)]
  <2>1. \A i \in 0 .. n : h[i] = IF i = 0 THEN b ELSE Visit(g[i - 1], i, k)
    OBVIOUS
  <2>2. g = h
    BY <1>10 DEF Walks, b
  <2> HIDE DEF h
  <2> QED
    BY <2>1, <2>2
<1> DEFINE T == {i \in Nat : i \in 0 .. n => g[i] \in S}
<1>13. T = Nat
  <2>1. 0 \in T
    BY <1>1, <1>12
  <2>2. ASSUME NEW i \in T PROVE i + 1 \in T
    <3>1. SUFFICES ASSUME i + 1 \in 0 .. n PROVE g[i + 1] \in S
      OBVIOUS
    <3>2. i + 1 \in 1 .. n /\ i + 1 # 0 /\ i + 1 - 1 = i /\ i \in 0 .. n
      BY <3>1
    <3>3. g[i + 1] = Visit(g[i], i + 1, k)
      BY <1>12, <3>1, <3>2
    <3>4. g[i] \in S
      BY <3>2
    <3> QED
      BY <1>3, <3>2, <3>3, <3>4
  <2> HIDE DEF T
  <2>3. T \in SUBSET Nat
    BY DEF T
  <2> QED
    BY <2>1, <2>2, <2>3, Induction
<1>14. n \in T
  BY <1>13
<1> QED
  BY <1>11, <1>14

\* What the walk reports ends within the bytes taken; what it leaves was there.
LEMMA WalkTyped ==
    ASSUME NEW s, NEW k, Len(s) \in Nat, DOMAIN s = 1 .. Len(s),
           NEW R, s \in [1 .. Len(s) -> R]
    PROVE  LET W == MetadataWalk(s, k)
           IN  /\ W.calls \in Seq({m \in R : k >= m.endByte})
               /\ SubSeq(W.slots, 1, W.size) \in Seq(R)
<1> DEFINE n == Len(s)
           C == {m \in R : k >= m.endByte}
           S == WalkSet(R, C, n)
           W == MetadataWalk(s, k)
<1>1. [slots |-> s, size |-> n, calls |-> <<>>] \in S
  <2>1. <<>> \in Seq(C) /\ n \in {i \in Int : i <= n}
    BY EmptySeq
  <2> QED
    BY <2>1 DEF WalkSet
<1>2. \A i \in 1 .. n : \A w \in S : Visit(w, i, k) \in S
  BY VisitTyped
<1> HIDE DEF S
<1>3. W \in S
  BY <1>1, <1>2, WalkStays
<1> HIDE DEF W
<1>4. W.slots \in [1 .. n -> R] /\ W.size \in Int /\ W.size <= n /\ W.calls \in Seq(C)
  BY <1>3 DEF S, WalkSet
<1>5. SubSeq(W.slots, 1, W.size) \in Seq(R)
  <2>1. \A i \in 1 .. W.size : i \in 1 .. n /\ W.slots[i] \in R
    BY <1>4
  <2>2. SubSeq(W.slots, 1, W.size) = [i \in 1 .. W.size |-> W.slots[1 + i - 1]]
    BY <1>4
  <2> QED
    BY <1>4, <2>1, <2>2
<1> QED
  BY <1>4, <1>5 DEF W

\* When every end is behind the bytes taken, the walk reports and removes nothing.
LEMMA WalkIdle ==
    ASSUME NEW s, NEW k, Len(s) \in Nat, \A i \in 1 .. Len(s) : ~(k >= s[i].endByte)
    PROVE  MetadataWalk(s, k) = [slots |-> s, size |-> Len(s), calls |-> <<>>]
<1> DEFINE b == [slots |-> s, size |-> Len(s), calls |-> <<>>]
<1>1. \A i \in 1 .. Len(s) : \A w \in {b} : Visit(w, i, k) \in {b}
  BY DEF Visit
<1>2. MetadataWalk(s, k) \in {b}
  BY <1>1, WalkStays
<1> QED
  BY <1>2

\* How often a value occurs in a sequence.
LEMMA OccurrencesCount ==
    ASSUME NEW E, NEW s \in Seq(E), NEW x
    PROVE  Occurrences(x, s) \in Nat /\ (Occurrences(x, s) > 0 => \E i \in DOMAIN s : s[i] = x)
<1> DEFINE I == {i \in DOMAIN s : s[i] = x}
<1>1. DOMAIN s = 1 .. Len(s) /\ Len(s) \in Nat
  BY LenProperties
<1>2. IsFiniteSet(I)
  <2>1. IsFiniteSet(DOMAIN s) /\ I \subseteq DOMAIN s
    BY <1>1, FS_Interval
  <2> QED
    BY <2>1, FS_Subset
<1>3. Cardinality(I) \in Nat
  BY <1>2, FS_CardinalityType
<1>4. Cardinality(I) > 0 => I # {}
  BY <1>2, <1>3, FS_EmptySet
<1> QED
  BY <1>3, <1>4 DEF Occurrences

\* A report counts for the packets it names.
LEMMA NotifyCounts ==
    ASSUME notified \in [Serials -> Nat], NEW ns \in Seq(Nat), NEW closes, Notify(ns, closes)
    PROVE  /\ notified' \in [Serials -> Nat]
           /\ \A n \in Serials : notified'[n] > 0 => notified[n] > 0 \/ \E i \in DOMAIN ns : ns[i] = n
<1>1. notified' = [n \in Serials |-> notified[n] + Occurrences(n, ns)]
  BY DEF Notify
<1>2. \A n \in Serials : Occurrences(n, ns) \in Nat
                         /\ (Occurrences(n, ns) > 0 => \E i \in DOMAIN ns : ns[i] = n)
  BY OccurrencesCount
<1> QED
  BY <1>1, <1>2

\* The elements of the metadata.
LEMMA MetaTyped ==
    ASSUME NEW m \in Meta
    PROVE  m.endByte \in Nat /\ m.packet \in Packet /\ m.packet.n \in Nat
BY PacketTyped DEF Meta

\* The records of the packets in the buffer, one by one.
LEMMA MetasTyped ==
    ASSUME metas \in Seq(Meta)
    PROVE  /\ DOMAIN metas = 1 .. Len(metas) /\ Len(metas) \in Nat
           /\ \A i \in DOMAIN metas :
                 /\ metas[i] \in Meta /\ metas[i].endByte \in Nat
                 /\ metas[i].packet \in Packet /\ metas[i].packet.n \in Nat
<1>1. DOMAIN metas = 1 .. Len(metas) /\ Len(metas) \in Nat /\ \A i \in DOMAIN metas : metas[i] \in Meta
  BY LenProperties, ElementOfSeq
<1> QED
  BY <1>1, MetaTyped

\* A ping and the metadata ms reported.
LEMMA NotifyPacketsCounts ==
    ASSUME notified \in [Serials -> Nat], NEW ms \in Seq(Meta), NEW ping \in Seq(Nat),
           NotifyPackets(ping, ms)
    PROVE  /\ notified' \in [Serials -> Nat]
           /\ \A n \in Serials : notified'[n] > 0 =>
                 \/ notified[n] > 0
                 \/ \E i \in DOMAIN ping : ping[i] = n
                 \/ \E i \in DOMAIN ms : ms[i].packet.n = n
<1> DEFINE ns == [i \in DOMAIN ms |-> ms[i].packet.n]
           all == ping \o ns
<1>1. DOMAIN ms = 1 .. Len(ms) /\ Len(ms) \in Nat /\ \A i \in DOMAIN ms : ms[i].packet.n \in Nat
  BY LenProperties, ElementOfSeq, MetaTyped
<1>2. ns \in Seq(Nat) /\ Len(ns) = Len(ms) /\ \A i \in 1 .. Len(ms) : ns[i] = ms[i].packet.n
  BY <1>1
<1>3. Notify(all, \E i \in DOMAIN ms : ms[i].packet.type = "DISCONNECT")
  BY DEF NotifyPackets
<1> HIDE DEF ns
<1>4. /\ all \in Seq(Nat) /\ Len(ping) \in Nat /\ DOMAIN ping = 1 .. Len(ping)
      /\ DOMAIN all = 1 .. Len(ping) + Len(ms)
      /\ \A i \in 1 .. Len(ping) + Len(ms) : all[i] = IF i <= Len(ping) THEN ping[i] ELSE ns[i - Len(ping)]
  <2>1. /\ all \in Seq(Nat) /\ Len(all) = Len(ping) + Len(ms)
        /\ \A i \in 1 .. Len(ping) + Len(ms) : all[i] = IF i <= Len(ping) THEN ping[i] ELSE ns[i - Len(ping)]
    <3>1. /\ ping \o ns \in Seq(Nat) /\ Len(ping \o ns) = Len(ping) + Len(ns)
          /\ \A i \in 1 .. Len(ping) + Len(ns) :
                (ping \o ns)[i] = IF i <= Len(ping) THEN ping[i] ELSE ns[i - Len(ping)]
      BY <1>2, ConcatProperties
    <3> QED
      BY <1>2, <3>1
  <2> HIDE DEF all
  <2> QED
    BY <1>1, <2>1, LenProperties
<1> HIDE DEF all
<1>5. ASSUME NEW n, NEW i \in DOMAIN all, all[i] = n
      PROVE  (\E j \in DOMAIN ping : ping[j] = n) \/ (\E j \in DOMAIN ms : ms[j].packet.n = n)
  <2>1. CASE i <= Len(ping)
    <3>1. i \in DOMAIN ping /\ ping[i] = n
      BY <1>4, <1>5, <2>1
    <3> QED
      BY <3>1
  <2>2. CASE ~(i <= Len(ping))
    <3>1. i - Len(ping) \in 1 .. Len(ms) /\ ns[i - Len(ping)] = n
      BY <1>1, <1>4, <1>5, <2>2
    <3> QED
      BY <1>1, <1>2, <3>1
  <2> QED
    BY <2>1, <2>2
<1>6. /\ notified' \in [Serials -> Nat]
      /\ \A n \in Serials : notified'[n] > 0 => notified[n] > 0 \/ \E i \in DOMAIN all : all[i] = n
  BY <1>3, <1>4, NotifyCounts
<1> QED
  BY <1>5, <1>6

\* The packet n is recorded with an end within the first k bytes.
Within(n, k) ==
    \/ \E i \in DOMAIN metas : metas[i].packet.n = n /\ k >= metas[i].endByte
    \/ batch.ping # 0 /\ n = batch.ping /\ k >= batch.pingPacketLastByte

\* The packet n is recorded.
Known(n) ==
    \/ \E i \in DOMAIN metas : metas[i].packet.n = n
    \/ batch.ping # 0 /\ n = batch.ping

\* Everything was taken: every recorded packet is reported.
LEMMA AllSentNotifies ==
    ASSUME notified \in [Serials -> Nat], metas \in Seq(Meta), batch \in Batch, AllSent
    PROVE  /\ notified' \in [Serials -> Nat] /\ metas' = <<>>
           /\ \A n \in Serials : notified'[n] > 0 => notified[n] > 0 \/ Known(n)
<1> DEFINE ping == IF batch.ping # 0 THEN <<batch.ping>> ELSE <<>>
<1>1. NotifyPackets(ping, metas) /\ metas' = <<>>
  BY DEF AllSent, metas
<1>2. ping \in Seq(Nat)
  BY BatchTyped, EmptySeq
<1>3. \A i \in DOMAIN ping : batch.ping # 0 /\ ping[i] = batch.ping
  OBVIOUS
<1> HIDE DEF ping
<1> QED
  BY <1>1, <1>2, <1>3, NotifyPacketsCounts DEF Known

\* A part was taken: the packets reported end within it.
LEMMA PartSentNotifies ==
    ASSUME notified \in [Serials -> Nat], metas \in Seq(Meta), batch \in Batch,
           NEW k, PartSent(k)
    PROVE  /\ notified' \in [Serials -> Nat] /\ metas' \in Seq(Meta)
           /\ \A i \in DOMAIN metas' : \E j \in DOMAIN metas : metas'[i] = metas[j]
           /\ \A n \in Serials : notified'[n] > 0 => notified[n] > 0 \/ Within(n, k)
<1> DEFINE W == MetadataWalk(metas, k)
           ping == IF k >= batch.pingPacketLastByte THEN <<batch.ping>> ELSE <<>>
           R == {metas[i] : i \in DOMAIN metas}
           C == {m \in R : k >= m.endByte}
<1>1. IF batch.ping # 0
      THEN NotifyPackets(ping, W.calls) /\ metas' = SubSeq(W.slots, 1, W.size)
      ELSE UNCHANGED <<notified, metas>>
  BY DEF PartSent, metas
<1>2. metas \in [1 .. Len(metas) -> R] /\ Len(metas) \in Nat /\ DOMAIN metas = 1 .. Len(metas)
  BY MetasTyped
<1>3. W.calls \in Seq(C) /\ SubSeq(W.slots, 1, W.size) \in Seq(R)
  <2> HIDE DEF R
  <2> QED
    BY <1>2, WalkTyped
<1>4. R \subseteq Meta /\ C \subseteq Meta
  BY MetasTyped
<1>5. CASE batch.ping # 0
  <2>1. PICK ms \in Seq(C) : NotifyPackets(ping, ms)
    BY <1>1, <1>3, <1>5
  <2>2. metas' \in Seq(R)
    BY <1>1, <1>3, <1>5
  <2>3. \A i \in DOMAIN metas' : metas'[i] \in R
    <3> HIDE DEF R
    <3> QED
      BY <2>2, LenProperties, ElementOfSeq
  <2>4. \A i \in DOMAIN ms : ms[i] \in C
    <3> HIDE DEF C
    <3> QED
      BY <2>1, LenProperties, ElementOfSeq
  <2>5. ms \in Seq(Meta) /\ metas' \in Seq(Meta)
    <3> HIDE DEF C, R
    <3> QED
      BY <1>4, <2>1, <2>2, SeqMonotonic
  <2>6. ping \in Seq(Nat) /\ \A i \in DOMAIN ping : k >= batch.pingPacketLastByte /\ ping[i] = batch.ping
    BY BatchTyped, EmptySeq
  <2> HIDE DEF ping, R, C
  <2>7. /\ notified' \in [Serials -> Nat]
        /\ \A n \in Serials : notified'[n] > 0 =>
              \/ notified[n] > 0
              \/ \E i \in DOMAIN ping : ping[i] = n
              \/ \E i \in DOMAIN ms : ms[i].packet.n = n
    BY <2>1, <2>5, <2>6, NotifyPacketsCounts
  <2>8. ASSUME NEW i \in DOMAIN ms PROVE \E j \in DOMAIN metas : ms[i] = metas[j] /\ k >= metas[j].endByte
    BY <2>4 DEF C, R
  <2>9. \A i \in DOMAIN metas' : \E j \in DOMAIN metas : metas'[i] = metas[j]
    BY <2>3 DEF R
  <2>10. ASSUME NEW n \in Serials, notified'[n] > 0 PROVE notified[n] > 0 \/ Within(n, k)
    <3>1. CASE \E i \in DOMAIN ping : ping[i] = n
      BY <1>5, <2>6, <3>1 DEF Within
    <3>2. CASE \E i \in DOMAIN ms : ms[i].packet.n = n
      <4>1. \E j \in DOMAIN metas : metas[j].packet.n = n /\ k >= metas[j].endByte
        BY <2>8, <3>2
      <4> QED
        BY <4>1 DEF Within
    <3> QED
      BY <2>7, <2>10, <3>1, <3>2
  <2> QED
    BY <2>5, <2>7, <2>9, <2>10
<1>6. CASE batch.ping = 0
  <2>1. notified' = notified /\ metas' = metas
    BY <1>1, <1>6
  <2> QED
    BY <2>1
<1> QED
  BY <1>5, <1>6

\* What a send reports, and the bytes it takes: none of those of a packet
\* reported is left.
LEMMA SendNotifies ==
    ASSUME \A e \in SendErrors : e <= 0,
           TypedInv, StreamTyped, notified \in [Serials -> Nat], metas \in Seq(Meta),
           SocketTakes \/ SocketFails
    PROVE  \E k \in 0 .. Len(m_sendBuffer) :
              /\ m_sendBuffer' = Remaining(k)
              /\ delivered' = delivered \union (ToSet(SubSeq(m_sendBuffer, 1, k)) \ ToSet(Remaining(k)))
              /\ notified' \in [Serials -> Nat] /\ metas' \in Seq(Meta)
              /\ \A i \in DOMAIN metas' : \E j \in DOMAIN metas : metas'[i] = metas[j]
              /\ \A n \in Serials : notified'[n] > 0 =>
                    notified[n] > 0 \/ Within(n, k) \/ (k = Len(m_sendBuffer) /\ Known(n))
              /\ \/ pc' = "idle"
                 \/ /\ pc' = "send" /\ batch'.ping = batch.ping
                    /\ batch'.pingPacketLastByte = batch.pingPacketLastByte
<1>0. /\ batch \in Batch /\ Len(m_sendBuffer) \in Nat /\ pc = "send" /\ batch.loops < SendAttempts
      /\ <<>> \in Seq(Meta) /\ DOMAIN <<>> = {}
  <2>1. <<>> \in Seq(Meta) /\ DOMAIN <<>> = {}
    BY EmptySeq
  <2>2. Len(m_sendBuffer) \in Nat
    BY LenProperties DEF StreamTyped
  <2> QED
    BY <2>1, <2>2, SendChanges DEF TypedInv, Typed, Sending
<1>1. ASSUME NEW k \in 0 .. Len(m_sendBuffer), PartSent(k)
      PROVE  /\ m_sendBuffer' = Remaining(k)
             /\ notified' \in [Serials -> Nat] /\ metas' \in Seq(Meta)
             /\ \A i \in DOMAIN metas' : \E j \in DOMAIN metas : metas'[i] = metas[j]
             /\ \A n \in Serials : notified'[n] > 0 => notified[n] > 0 \/ Within(n, k)
             /\ pc' = "send" /\ batch'.ping = batch.ping
             /\ batch'.pingPacketLastByte = batch.pingPacketLastByte
  <2>1. pc' = pc /\ batch' = [batch EXCEPT !.loops = @ + 1, !.sendResult = k]
    BY <1>1, PartSentChanges
  <2>2. batch'.ping = batch.ping /\ batch'.pingPacketLastByte = batch.pingPacketLastByte
    BY <1>0, <2>1 DEF Batch
  <2> QED
    BY <1>0, <1>1, <2>1, <2>2, PartSentBuffer, PartSentNotifies
<1>2. CASE SocketTakes
  <2>1. PICK k \in 0 .. Len(m_sendBuffer) :
           /\ delivered' = delivered \union (ToSet(SubSeq(m_sendBuffer, 1, k)) \ ToSet(Remaining(k)))
           /\ IF k = Len(m_sendBuffer) THEN AllSent ELSE PartSent(k)
    BY <1>2 DEF SocketTakes
  <2>2. CASE k = Len(m_sendBuffer)
    <3>1. m_sendBuffer' = Remaining(k) /\ pc' = "idle"
      BY <2>1, <2>2, AllSentBuffer, AllSentChanges, BytesTaken
    <3>2. /\ notified' \in [Serials -> Nat] /\ metas' = <<>>
          /\ \A n \in Serials : notified'[n] > 0 => notified[n] > 0 \/ Known(n)
      BY <1>0, <2>1, <2>2, AllSentNotifies
    <3> QED
      BY <1>0, <2>1, <2>2, <3>1, <3>2
  <2>3. CASE k # Len(m_sendBuffer)
    BY <1>1, <2>1, <2>3
  <2> QED
    BY <2>2, <2>3
<1>3. CASE SocketFails
  <2>1. delivered' = delivered /\ m_sendBuffer # <<>> /\ Len(m_sendBuffer) > 0 /\ 0 \in 0 .. Len(m_sendBuffer)
    <3>1. delivered' = delivered /\ m_sendBuffer # <<>>
      BY <1>3 DEF SocketFails
    <3>2. Len(m_sendBuffer) # 0
      BY <3>1, EmptySeq DEF StreamTyped
    <3> QED
      BY <1>0, <3>1, <3>2
  <2>2. SubSeq(m_sendBuffer, 1, 0) = <<>> /\ Remaining(0) = m_sendBuffer
    BY SubSeqFull, SubSeqEmpty DEF Remaining, StreamTyped
  <2>3. delivered' = delivered \union (ToSet(SubSeq(m_sendBuffer, 1, 0)) \ ToSet(Remaining(0)))
    BY <2>1, <2>2 DEF ToSet
  <2>4. \/ PartSent(0)
        \/ /\ UNCHANGED <<m_sendBuffer, metas, notified, pc>>
           /\ \E e \in Int : batch' = [batch EXCEPT !.loops = @ + 1, !.sendResult = e]
    <3>1. PICK e \in SendErrors :
            \/ /\ UNCHANGED <<bufferVars, notified, pc>>
               /\ batch' = [batch EXCEPT !.loops = @ + 1, !.sendResult = e]
            \/ e = Len(m_sendBuffer)
            \/ e \in 0 .. Len(m_sendBuffer) - 1 /\ PartSent(e)
            \/ e > Len(m_sendBuffer)
      BY <1>3 DEF SocketFails
    <3>2. e \in Int /\ e <= 0
      BY SendQueueAssumption DEF SendQueueAssumption
    <3>3. ~(e = Len(m_sendBuffer)) /\ ~(e > Len(m_sendBuffer))
      BY <1>0, <2>1, <3>2
    <3>4. CASE e \in 0 .. Len(m_sendBuffer) - 1 /\ PartSent(e)
      <4>1. e = 0
        BY <1>0, <3>2, <3>4
      <4> QED
        BY <3>4, <4>1
    <3>5. CASE /\ UNCHANGED <<bufferVars, notified, pc>>
               /\ batch' = [batch EXCEPT !.loops = @ + 1, !.sendResult = e]
      BY <3>2, <3>5 DEF bufferVars, metas
    <3> QED
      BY <3>1, <3>3, <3>4, <3>5
  <2>5. CASE PartSent(0)
    BY <1>1, <2>1, <2>3, <2>5
  <2>6. CASE /\ UNCHANGED <<m_sendBuffer, metas, notified, pc>>
             /\ \E e \in Int : batch' = [batch EXCEPT !.loops = @ + 1, !.sendResult = e]
    <3>1. batch'.ping = batch.ping /\ batch'.pingPacketLastByte = batch.pingPacketLastByte
      BY <1>0, <2>6 DEF Batch
    <3>2. \A i \in DOMAIN metas' : \E j \in DOMAIN metas : metas'[i] = metas[j]
      BY <2>6
    <3>3. m_sendBuffer' = Remaining(0) /\ pc' = "send"
      BY <1>0, <2>2, <2>6
    <3>4. notified' \in [Serials -> Nat] /\ metas' \in Seq(Meta) /\ notified' = notified
      BY <2>6
    <3> QED
      BY <2>1, <2>3, <3>1, <3>2, <3>3, <3>4
  <2> QED
    BY <2>4, <2>5, <2>6
<1> QED
  BY <1>2, <1>3

\* A packet whose bytes are recorded to end at a position stays covered when the
\* socket takes k bytes, and is delivered when they reach that position.
LEMMA CoveredTaken ==
    ASSUME StreamTyped, NEW k \in 0 .. Len(m_sendBuffer), NEW n, NEW last \in Nat,
           delivered' = delivered \union (ToSet(SubSeq(m_sendBuffer, 1, k)) \ ToSet(Remaining(k))),
           n \in delivered \/ Ends(m_sendBuffer, n, last)
    PROVE  /\ n \in delivered' \/ Ends(Remaining(k), n, last)
           /\ k >= last \/ k = Len(m_sendBuffer) => n \in delivered'
<1>1. CASE n \in delivered
  BY <1>1
<1>2. CASE Ends(m_sendBuffer, n, last)
  <2> DEFINE s == SubSeq(m_sendBuffer, 1, k)
             r == Remaining(k)
             m == Len(m_sendBuffer)
  <2>1. m \in Nat /\ DOMAIN m_sendBuffer = 1 .. m
    BY LenProperties DEF StreamTyped
  <2>2. /\ DOMAIN s = 1 .. k /\ \A i \in 1 .. k : s[i] = m_sendBuffer[i]
        /\ DOMAIN r = 1 .. m - k /\ \A i \in 1 .. m - k : r[i] = m_sendBuffer[i + k]
    <3>1. s = [i \in 1 .. k |-> m_sendBuffer[1 + i - 1]]
      BY <2>1
    <3>2. r = [i \in 1 .. m - k |-> m_sendBuffer[k + 1 + i - 1]]
      BY <2>1 DEF Remaining
    <3> HIDE DEF s, r
    <3> QED
      BY <2>1, <3>1, <3>2
  <2>3. ToSet(s) = {s[i] : i \in DOMAIN s} /\ ToSet(r) = {r[i] : i \in DOMAIN r}
    BY DEF ToSet
  <2> HIDE DEF s, r
  <2>4. PICK i \in 1 .. m : m_sendBuffer[i] = n
    BY <1>2, <2>1 DEF Ends
  <2>5. \A j \in 1 .. m : m_sendBuffer[j] = n => j <= last
    BY <1>2, <2>1 DEF Ends
  <2>6. \A j \in DOMAIN r : r[j] = n => j + k <= last /\ j + k <= m /\ j >= 1
    BY <2>1, <2>2, <2>5
  <2>7. CASE n \in ToSet(r)
    <3>1. PICK j \in DOMAIN r : r[j] = n
      BY <2>3, <2>7
    <3>2. ~(k >= last) /\ k # m
      <4>1. j + k <= last /\ j + k <= m /\ j >= 1 /\ j \in Int
        BY <2>1, <2>2, <2>6, <3>1
      <4> HIDE DEF m
      <4> QED
        BY <2>1, <4>1
    <3>3. Ends(r, n, last)
      BY <2>1, <2>2, <2>6, <3>1 DEF Ends
    <3> QED
      BY <3>2, <3>3 DEF r
  <2>8. CASE n \notin ToSet(r)
    <3>1. i <= k
      <4>1. SUFFICES ASSUME i > k PROVE FALSE
        BY <2>1
      <4>2. i - k \in DOMAIN r /\ r[i - k] = n
        BY <2>1, <2>2, <2>4, <4>1
      <4> QED
        BY <2>3, <2>8, <4>2
    <3>2. n \in ToSet(s)
      <4>1. i \in DOMAIN s /\ s[i] = n
        BY <2>1, <2>2, <2>4, <3>1
      <4> QED
        BY <2>3, <4>1
    <3>3. n \in ToSet(s) \ ToSet(r)
      BY <2>8, <3>2
    <3> QED
      BY <3>3 DEF s, r
  <2> QED
    BY <2>7, <2>8
<1> QED
  BY <1>1, <1>2

\* The numbers of the packets that wait.
LEMMA WaitingNumbers ==
    ASSUME TypedInv, Order
    PROVE  \A n \in Waiting \union Held : n \in Nat /\ n <= added
<1>1. \A i \in DOMAIN queue : queue[i] # Null => queue[i].n \in Nat /\ queue[i].n <= added
  <2>1. \A i \in DOMAIN queue : queue[i] \in Packet \union {Null}
    BY LenProperties, ElementOfSeq DEF TypedInv, Typed
  <2> QED
    BY <2>1, PacketTyped DEF Order, QueueOrder, UpTo, IsPacket
<1>2. \A n \in Waiting : n \in Nat /\ n <= added
  BY <1>1 DEF Waiting
<1>3. \A n \in Held : n \in Nat /\ n <= added
  <2>1. delayed \in Seq(Packet)
    BY BatchTyped DEF TypedInv, Typed, delayed
  <2>2. \A i \in DOMAIN delayed : delayed[i] # Null /\ delayed[i].n \in Nat
    BY <2>1, PacketsNotNull, PacketTyped
  <2> QED
    BY <2>2 DEF Held, Numbers, Order, BatchOrder, UpTo, IsPacket
<1> QED
  BY <1>2, <1>3

\* Where the packets are in the steps that move none: outside the composing
\* loop, and where it begins.
LEMMA PlacesQuiet ==
    ASSUME UNCHANGED queue, pc # "compose", pc' # "compose"
    PROVE  Waiting' = Waiting /\ Held' = {} /\ Held = {} /\ InBatch' = {} /\ InBatch = {}
BY DEF Waiting, Rest, Held, InBatch

\* Composing starts with every queued packet waiting.
LEMMA PlacesBegin ==
    ASSUME TypedInv, BeginCompose
    PROVE  Waiting' = Waiting /\ Held' = {} /\ Held = {} /\ InBatch' = {} /\ InBatch = {}
<1>1. queue' = queue /\ pc' = "compose" /\ pc = "try" /\ batch' = NoBatch
  BY DEF BeginCompose, queue
<1>2. \A i \in DOMAIN queue : i >= 1
  BY LenProperties DEF TypedInv, Typed
<1>3. batch'.next = 1 /\ DOMAIN delayed' = {} /\ DOMAIN packets' = {}
  BY <1>1 DEF NoBatch, delayed, packets
<1>4. Waiting' = Waiting
  BY <1>1, <1>2, <1>3 DEF Waiting, Rest
<1> QED
  BY <1>1, <1>3, <1>4 DEF Held, InBatch, Numbers

\* At its end the packets held back are the queue and those composed are recorded.
LEMMA PlacesEnd ==
    ASSUME TypedInv, EndCompose
    PROVE  /\ Waiting' = Held /\ Held' = {} /\ Waiting = {}
           /\ InBatch' = {} /\ InComposed' = InComposed \union InBatch
<1>1. /\ queue' = delayed /\ pc = "compose" /\ pc' = "send" /\ batch.next > Len(queue)
      /\ composed' = composed \o packets
  BY DEF EndCompose, QueueAfterCompose, queue, delayed, packets
<1>2. delayed \in Seq(Packet) /\ packets \in Seq(Packet) /\ composed \in Seq(Packet)
  BY BatchTyped DEF TypedInv, Typed, delayed, packets
<1>3. \A i \in DOMAIN delayed : delayed[i] # Null
  BY <1>2, PacketsNotNull
<1>4. \A i \in DOMAIN queue : ~(i >= batch.next)
  <2>1. DOMAIN queue = 1 .. Len(queue) /\ Len(queue) \in Nat /\ batch.next \in Nat
    BY LenProperties, BatchTyped DEF TypedInv, Typed
  <2> QED
    BY <1>1, <2>1
<1>5. Waiting = {}
  BY <1>1, <1>4 DEF Waiting, Rest
<1>6. Waiting' = Held
  BY <1>1, <1>3 DEF Waiting, Rest, Held, Numbers
<1>7. InComposed' = InComposed \union InBatch
  BY <1>1, <1>2, NumbersConcat DEF InComposed, InBatch
<1> QED
  BY <1>1, <1>5, <1>6, <1>7 DEF Held, InBatch

\* A publish held back passes from the waiting packets to the held ones.
LEMMA PlacesDelay ==
    ASSUME TypedInv, Order, DelayPacket
    PROVE  /\ NextComposer.n \in Waiting
           /\ Waiting' = Waiting \ {NextComposer.n}
           /\ Held' = Held \union {NextComposer.n}
           /\ InBatch' = InBatch
<1>1. batch \in Batch /\ NextComposer \in Packet /\ Composing /\ pc = "compose" /\ pc' = pc
      /\ batch.next \in DOMAIN queue
  BY NextComposerTyped DEF DelayPacket, Composing, TypedInv, Typed
<1>2. /\ batch' = [batch EXCEPT !.next = @ + 1, !.delayed = Append(@, NextComposer)]
      /\ queue' = [queue EXCEPT ![batch.next] = Null]
  BY DEF DelayPacket, queue
<1>3. batch'.next = batch.next + 1 /\ delayed' = Append(delayed, NextComposer) /\ packets' = packets
  BY <1>1, <1>2, BatchDelays DEF delayed, packets
<1>4. DOMAIN queue' = DOMAIN queue /\ \A i \in DOMAIN queue : i # batch.next => queue'[i] = queue[i]
  BY <1>2
<1>5. delayed \in Seq(Packet)
  BY <1>1, BatchTyped DEF delayed
<1>6. Held' = Held \union {NextComposer.n}
  BY <1>1, <1>3, <1>5, NumbersAppend DEF Held
<1>7. InBatch' = InBatch
  BY <1>1, <1>3 DEF InBatch
<1> QED
  BY <1>1, <1>3, <1>4, <1>6, <1>7, NumbersNext

\* A packet composed passes from the waiting packets to the batch.
LEMMA PlacesCompose ==
    ASSUME TypedInv, StreamTyped, Order, ComposePacket
    PROVE  /\ NextComposer.n \in Waiting
           /\ Waiting' = Waiting \ {NextComposer.n}
           /\ Held' = Held
           /\ InBatch' = InBatch \union {NextComposer.n}
<1>1. /\ batch \in Batch /\ NextComposer \in Packet /\ Composing /\ pc = "compose" /\ pc' = pc
      /\ queue' = queue
  BY NextComposerTyped DEF ComposePacket, Composing, TypedInv, Typed, queue
<1>2. batch'.next = batch.next + 1 /\ delayed' = delayed /\ packets' = Append(packets, NextComposer)
  BY ComposePacketChanges
<1>3. packets \in Seq(Packet)
  BY <1>1, BatchTyped DEF packets
<1>4. InBatch' = InBatch \union {NextComposer.n}
  BY <1>1, <1>2, <1>3, NumbersAppend DEF InBatch
<1>5. Held' = Held
  BY <1>1, <1>2 DEF Held
<1> QED
  BY <1>1, <1>2, <1>4, <1>5, NumbersNext

\* The records are pairs of a packet's number and a position.
LEMMA RecordsTyped ==
    ASSUME metas \in Seq(Meta), batch \in Batch
    PROVE  Records \subseteq Nat \X Nat
BY MetasTyped, BatchTyped DEF Records

\* The steps that compose and send nothing.
LEMMA NotificationQuiet ==
    ASSUME TypedInv, Order, Notification,
           UNCHANGED <<metas, notified, delivered, Pending>>,
           added' = added \/ added' = added + 1,
           Waiting' \subseteq Waiting \union {added + 1}, Held' = {},
           added' = added => Waiting' \subseteq Waiting,
           pc' \in {"compose", "send"} => batch'.ping = 0
    PROVE  Notification'
<1>1. added \in Nat
  BY DEF TypedInv, Typed
<1>2. ASSUME NEW r \in Covered PROVE r \in Covered'
  <2>1. /\ r \in Nat \X Nat /\ r[1] \in Nat /\ r[1] <= added /\ r[1] \notin Waiting
        /\ r[1] \in delivered \/ Ends(Pending, r[1], r[2])
    BY <1>2 DEF Covered
  <2>2. r[1] # added + 1 /\ r[1] <= added'
    BY <1>1, <2>1
  <2>3. r[1] \notin Waiting' \union Held'
    BY <2>1, <2>2
  <2> QED
    BY <2>1, <2>2, <2>3 DEF Covered
<1>3. Records' \subseteq Records
  BY DEF Records
<1>4. NoEarlyNotification'
  BY DEF Notification, NoEarlyNotification
<1> QED
  BY <1>2, <1>3, <1>4 DEF Notification

\* A send: the packets reported are delivered, and those that remain recorded
\* stay covered.
LEMMA NotificationSend ==
    ASSUME \A e \in SendErrors : e <= 0,
           TypedInv, StreamTyped, Order, Notification, SocketTakes \/ SocketFails
    PROVE  Notification'
<1>1. PICK k \in 0 .. Len(m_sendBuffer) :
         /\ m_sendBuffer' = Remaining(k)
         /\ delivered' = delivered \union (ToSet(SubSeq(m_sendBuffer, 1, k)) \ ToSet(Remaining(k)))
         /\ notified' \in [Serials -> Nat] /\ metas' \in Seq(Meta)
         /\ \A i \in DOMAIN metas' : \E j \in DOMAIN metas : metas'[i] = metas[j]
         /\ \A n \in Serials : notified'[n] > 0 =>
               notified[n] > 0 \/ Within(n, k) \/ (k = Len(m_sendBuffer) /\ Known(n))
         /\ \/ pc' = "idle"
            \/ /\ pc' = "send" /\ batch'.ping = batch.ping
               /\ batch'.pingPacketLastByte = batch.pingPacketLastByte
  BY SendNotifies DEF Notification
<1>2. pc = "send" /\ queue' = queue /\ added' = added /\ batch \in Batch
  BY SendChanges DEF Sending, TypedInv, Typed
<1>3. Pending = m_sendBuffer /\ Pending' = m_sendBuffer' /\ Waiting' = Waiting /\ Held' = {} /\ Held = {}
  BY <1>1, <1>2, PlacesQuiet DEF Pending
<1>4. ASSUME NEW r \in Covered
      PROVE  r \in Covered' /\ (k >= r[2] \/ k = Len(m_sendBuffer) => r[1] \in delivered')
  <2>1. /\ r \in Nat \X Nat /\ r[2] \in Nat /\ r[1] <= added /\ r[1] \notin Waiting
        /\ r[1] \in delivered \/ Ends(m_sendBuffer, r[1], r[2])
    BY <1>3 DEF Covered
  <2>2. /\ r[1] \in delivered' \/ Ends(Remaining(k), r[1], r[2])
        /\ k >= r[2] \/ k = Len(m_sendBuffer) => r[1] \in delivered'
    BY <1>1, <2>1, CoveredTaken
  <2>3. Pending' = Remaining(k)
    BY <1>1, <1>3
  <2>4. r[1] <= added' /\ r[1] \notin Waiting' \union Held'
    BY <1>2, <1>3, <2>1
  <2>5. r[1] \in delivered' \/ Ends(Pending', r[1], r[2])
    BY <2>2, <2>3
  <2>6. r \in Covered'
    BY <2>1, <2>4, <2>5 DEF Covered
  <2> QED
    BY <2>2, <2>6
<1>5. Records' \subseteq Records
  BY <1>1, <1>2 DEF Records
<1>6. ASSUME NEW n, Known(n) PROVE \E r \in Records : r[1] = n
  <2>1. CASE \E i \in DOMAIN metas : metas[i].packet.n = n
    <3>1. PICK i \in DOMAIN metas : metas[i].packet.n = n
      BY <2>1
    <3>2. <<metas[i].packet.n, metas[i].endByte>> \in Records
      BY DEF Records
    <3> QED
      BY <3>1, <3>2
  <2>2. CASE batch.ping # 0 /\ n = batch.ping
    <3>1. <<batch.ping, batch.pingPacketLastByte>> \in Records
      BY <1>2, <2>2 DEF Records
    <3> QED
      BY <2>2, <3>1
  <2> QED
    BY <1>6, <2>1, <2>2 DEF Known
<1>7. ASSUME NEW n, Within(n, k) PROVE \E r \in Records : r[1] = n /\ k >= r[2]
  <2>1. CASE \E i \in DOMAIN metas : metas[i].packet.n = n /\ k >= metas[i].endByte
    <3>1. PICK i \in DOMAIN metas : metas[i].packet.n = n /\ k >= metas[i].endByte
      BY <2>1
    <3>2. <<metas[i].packet.n, metas[i].endByte>> \in Records
      BY DEF Records
    <3> QED
      BY <3>1, <3>2
  <2>2. CASE batch.ping # 0 /\ n = batch.ping /\ k >= batch.pingPacketLastByte
    <3>1. <<batch.ping, batch.pingPacketLastByte>> \in Records
      BY <1>2, <2>2 DEF Records
    <3> QED
      BY <2>2, <3>1
  <2> QED
    BY <1>7, <2>1, <2>2 DEF Within
<1>8. NoEarlyNotification'
  <2>1. SUFFICES ASSUME NEW n \in Serials, notified'[n] > 0 PROVE n \in delivered'
    BY DEF NoEarlyNotification
  <2>2. CASE notified[n] > 0
    BY <1>1, <2>2 DEF Notification, NoEarlyNotification
  <2>3. CASE Within(n, k) \/ (k = Len(m_sendBuffer) /\ Known(n))
    <3>1. PICK r \in Records : r[1] = n /\ (k >= r[2] \/ k = Len(m_sendBuffer))
      BY <1>6, <1>7, <2>3
    <3>2. r \in Covered
      BY DEF Notification
    <3> QED
      BY <1>4, <3>1, <3>2
  <2> QED
    BY <1>1, <2>1, <2>2, <2>3
<1> QED
  BY <1>1, <1>3, <1>4, <1>5, <1>8 DEF Notification

\* Composing: the end recorded for the packet is that of its bytes, and the
\* bytes of a packet recorded before stay where they are.
LEMMA NotificationCompose ==
    ASSUME TypedInv, StreamTyped, Order, Notification, ComposePacket
    PROVE  Notification'
<1> DEFINE p == NextComposer
           last == EndByte(p)
           m == Len(m_sendBuffer) + Len(batch.encoded)
<1>1. /\ p \in Packet /\ p.n \in Nat /\ p.size \in Nat \ {0}
      /\ pc = "compose" /\ pc' = pc /\ batch \in Batch /\ batch.encoded \in Seq(Nat)
      /\ UNCHANGED <<m_sendBuffer, added, notified, delivered>> /\ m_sendBuffer \in Seq(Nat)
  BY NextComposerTyped, PacketTyped, BatchTyped
     DEF ComposePacket, Composing, reportVars, TypedInv, Typed, StreamTyped
<1>2. metas' = IF p.type \in TrackedTypes THEN Append(metas, [endByte |-> last, packet |-> p]) ELSE metas
  BY DEF ComposePacket, metas
<1>3. /\ batch'.encoded = batch.encoded \o Bytes(p)
      /\ batch'.ping = IF p.type = "PINGREQ" /\ batch.ping = 0 THEN p.n ELSE batch.ping
      /\ batch'.pingPacketLastByte = IF p.type = "PINGREQ" /\ batch.ping = 0
                                     THEN last ELSE batch.pingPacketLastByte
  BY ComposePacketChanges
<1>4. p.n \in Waiting /\ Waiting' = Waiting \ {p.n} /\ Held' = Held
  BY PlacesCompose
<1>5. m \in Nat /\ last = m + p.size /\ last \in Nat
  BY <1>1, LenProperties DEF EndByte
<1>6. Bytes(p) \in Seq(Nat) /\ Len(Bytes(p)) = p.size /\ \A i \in 1 .. p.size : Bytes(p)[i] = p.n
  BY <1>1, BytesTyped DEF Bytes
<1>7. PICK old \in Seq(Nat) : old = Pending /\ Len(old) = m /\ DOMAIN old = 1 .. m
  <2>1. m_sendBuffer \o batch.encoded \in Seq(Nat) /\ Len(m_sendBuffer \o batch.encoded) = m
    BY <1>1, ConcatProperties
  <2>2. Pending = m_sendBuffer \o batch.encoded
    BY <1>1 DEF Pending
  <2>3. Pending \in Seq(Nat) /\ Len(Pending) = m
    BY <2>1, <2>2
  <2> HIDE DEF m
  <2> QED
    BY <2>3, LenProperties
<1> HIDE DEF p, last, m
<1>8. Pending' = old \o Bytes(p)
  <2>1. Pending' = m_sendBuffer \o (batch.encoded \o Bytes(p)) /\ old = m_sendBuffer \o batch.encoded
    BY <1>1, <1>3, <1>7 DEF Pending
  <2>2. (m_sendBuffer \o batch.encoded) \o Bytes(p) = m_sendBuffer \o (batch.encoded \o Bytes(p))
    BY <1>1, <1>6, BytesAssociative
  <2> QED
    BY ONLY <2>1, <2>2, Zenon
<1> DEFINE new == old \o Bytes(p)
<1>9. /\ DOMAIN new = 1 .. m + p.size
      /\ \A i \in 1 .. m + p.size : new[i] = IF i <= m THEN old[i] ELSE p.n
  <2>1. /\ Len(new) = m + p.size /\ new \in Seq(Nat)
        /\ \A i \in 1 .. m + p.size : new[i] = IF i <= m THEN old[i] ELSE Bytes(p)[i - m]
    <3>1. /\ old \o Bytes(p) \in Seq(Nat) /\ Len(old \o Bytes(p)) = Len(old) + Len(Bytes(p))
          /\ \A i \in 1 .. Len(old) + Len(Bytes(p)) :
                (old \o Bytes(p))[i] = IF i <= Len(old) THEN old[i] ELSE Bytes(p)[i - Len(old)]
      BY <1>6, <1>7, ConcatProperties
    <3> QED
      BY <1>6, <1>7, <3>1
  <2>2. \A i \in 1 .. m + p.size : ~(i <= m) => i - m \in 1 .. p.size
    BY <1>1, <1>5
  <2>3. DOMAIN new = 1 .. m + p.size
    BY <2>1, LenProperties
  <2> HIDE DEF new
  <2> QED
    BY <1>6, <2>1, <2>2, <2>3
<1> HIDE DEF new
<1>10. <<p.n, last>> \in Covered'
  <2>1. Ends(new, p.n, last)
    <3>1. m + p.size \in DOMAIN new /\ new[m + p.size] = p.n
      BY <1>1, <1>5, <1>9
    <3> QED
      BY <1>1, <1>5, <1>9, <3>1 DEF Ends
  <2>2. p.n <= added' /\ p.n \notin Waiting' \union Held'
    BY <1>1, <1>4, WaitingNumbers DEF Notification
  <2>3. Pending' = new
    BY <1>8 DEF new
  <2>4. p.n \in delivered' \/ Ends(Pending', p.n, last)
    BY <2>1, <2>3
  <2> QED
    BY <1>1, <1>5, <2>2, <2>4 DEF Covered
<1>11. ASSUME NEW r \in Covered PROVE r \in Covered'
  <2>1. /\ r \in Nat \X Nat /\ r[1] <= added /\ r[1] \notin Waiting \union Held
        /\ r[1] \in delivered \/ Ends(old, r[1], r[2])
    BY <1>7 DEF Covered
  <2>2. r[1] # p.n /\ r[1] <= added' /\ r[1] \notin Waiting' \union Held'
    BY <1>1, <1>4, <2>1
  <2>3. Ends(old, r[1], r[2]) => Ends(new, r[1], r[2])
    <3>1. SUFFICES ASSUME Ends(old, r[1], r[2]) PROVE Ends(new, r[1], r[2])
      OBVIOUS
    <3>2. PICK i \in 1 .. m : old[i] = r[1]
      BY <1>7, <3>1 DEF Ends
    <3>3. i \in DOMAIN new /\ new[i] = r[1]
      BY <1>1, <1>5, <1>9, <3>2
    <3>4. \A j \in DOMAIN new : new[j] = r[1] => j \in DOMAIN old /\ old[j] = r[1]
      BY <1>1, <1>5, <1>7, <1>9, <2>2
    <3> QED
      BY <3>1, <3>3, <3>4 DEF Ends
  <2>4. Pending' = new
    BY <1>8 DEF new
  <2>5. r[1] \in delivered' \/ Ends(Pending', r[1], r[2])
    BY <1>1, <2>1, <2>3, <2>4
  <2> QED
    BY <2>1, <2>2, <2>5 DEF Covered
<1>12. /\ metas' \in Seq(Meta)
       /\ \A i \in DOMAIN metas' : \/ \E j \in DOMAIN metas : metas'[i] = metas[j]
                                   \/ metas'[i].endByte = last /\ metas'[i].packet = p
  <2>1. CASE metas' = metas
    BY <2>1 DEF Notification
  <2>2. CASE metas' = Append(metas, [endByte |-> last, packet |-> p])
    <3> DEFINE meta == [endByte |-> last, packet |-> p]
    <3>1. meta \in Meta /\ meta.endByte = last /\ meta.packet = p /\ metas \in Seq(Meta)
      BY <1>1, <1>5 DEF Meta, Notification
    <3> HIDE DEF meta
    <3>2. /\ metas' \in Seq(Meta) /\ DOMAIN metas = 1 .. Len(metas) /\ Len(metas) \in Nat
          /\ DOMAIN metas' = 1 .. Len(metas) + 1
          /\ \A i \in 1 .. Len(metas) : metas'[i] = metas[i]
          /\ metas'[Len(metas) + 1] = meta
      BY <2>2, <3>1, AppendProperties, LenProperties DEF meta
    <3> QED
      BY <3>1, <3>2
  <2> QED
    BY <1>2, <2>1, <2>2
<1>13. Records' \subseteq Records \union {<<p.n, last>>}
  BY <1>1, <1>3, <1>12 DEF Records
<1>14. Records' \subseteq Covered'
  BY <1>10, <1>11, <1>13 DEF Notification
<1>15. NoEarlyNotification'
  BY <1>1 DEF Notification, NoEarlyNotification
<1> QED
  BY <1>1, <1>4, <1>12, <1>14, <1>15 DEF Notification

\* No packet is recorded, none has been notified.
LEMMA NotificationInit == Init => Notification
<1> SUFFICES ASSUME Init PROVE Notification
  OBVIOUS
<1>1. /\ metas = <<>> /\ DOMAIN metas = {} /\ <<>> \in Seq(Meta)
      /\ notified = [n \in Serials |-> 0] /\ pc = "idle"
  BY EmptySeq DEF Init, metas
<1>2. Held = {}
  BY <1>1 DEF Held
<1> QED
  BY <1>1, <1>2 DEF Notification, Records, NoEarlyNotification

\* Every step keeps the records matching the bytes in the buffer and notifies
\* only packets whose last byte has been taken.
LEMMA NotificationNext ==
    ASSUME EncodeMayFail = FALSE, \A e \in SendErrors : e <= 0
    PROVE  TypedInv /\ StreamTyped /\ Order /\ Notification /\ [Next]_vars => Notification'
<1> SUFFICES ASSUME TypedInv, StreamTyped, Order, Notification, [Next]_vars PROVE Notification'
  OBVIOUS
<1>1. CASE UNCHANGED vars \/ SocketLost
  <2>1. /\ UNCHANGED <<metas, notified, delivered, added, m_sendBuffer, batch, pc, queue>>
        /\ UNCHANGED <<delayed>>
    BY <1>1 DEF vars, SocketLost, bufferVars, callVars, reportVars, metas, queue, delayed
  <2> QED
    <3>1. Waiting' = Waiting /\ Held' = Held
      BY <2>1 DEF Waiting, Held, Rest, Numbers
    <3>2. Pending' = Pending /\ Records' = Records
      BY <2>1 DEF Pending, Records
    <3>3. Covered' = Covered
      BY <2>1, <3>1, <3>2 DEF Covered
    <3> QED
      BY <2>1, <3>1, <3>2, <3>3 DEF Notification, NoEarlyNotification
<1>2. ASSUME NEW t \in Templates, QueuePacket(t) PROVE Notification'
  <2>1. /\ t \in Template /\ AddToQueue(t) /\ pc = "idle" /\ pc' = pc
        /\ UNCHANGED <<metas, notified, delivered, m_sendBuffer>>
    BY <1>2, TemplatesTyped DEF QueuePacket, bufferVars, callVars, reportVars, metas
  <2>2. Waiting' = Waiting \union {added + 1} /\ Held' = {} /\ Pending' = Pending /\ added' = added + 1
    BY <2>1, NumbersAddToQueue DEF Held, Pending, AddToQueue
  <2> QED
    BY <2>1, <2>2, NotificationQuiet DEF TypedInv, Typed
<1>3. CASE SocketConnects
  <2>1. /\ ConnectPacket \in Template /\ AddToQueue(ConnectPacket) /\ pc = "idle" /\ pc' = pc
        /\ UNCHANGED <<metas, notified, delivered, m_sendBuffer>>
    BY <1>3, TemplatesTyped DEF SocketConnects, bufferVars, callVars, reportVars, metas
  <2>2. Waiting' = Waiting \union {added + 1} /\ Held' = {} /\ Pending' = Pending /\ added' = added + 1
    BY <2>1, NumbersAddToQueue DEF Held, Pending, AddToQueue
  <2> QED
    BY <2>1, <2>2, NotificationQuiet DEF TypedInv, Typed
<1>4. CASE ClearQueue \/ GracefulClear
  <2>1. /\ CancelAll /\ pc # "compose" /\ pc' \in {"idle", "crashed"}
        /\ UNCHANGED <<metas, notified, delivered, added, m_sendBuffer>>
    BY <1>4 DEF ClearQueue, GracefulClear, CancelAll, bufferVars, reportVars, metas
  <2>2. Waiting' = {} /\ Held' = {} /\ Pending' = Pending
    BY <2>1, NumbersCancel DEF Held, Pending
  <2> QED
    BY <2>1, <2>2, NotificationQuiet
<1>5. CASE ConnAck \/ Acknowledge \/ BeginSendNextBatch \/ NothingQueued \/ EndPartlySent
  <2>1. /\ UNCHANGED <<queue, metas, notified, delivered, added, m_sendBuffer>>
        /\ pc # "compose" /\ pc' \in {"idle", "try"}
    BY <1>5 DEF ConnAck, Acknowledge, BeginSendNextBatch, NothingQueued, EndPartlySent, LoopsDone,
       ReturnSuccess, bufferVars, callVars, reportVars, metas, queue
  <2> QED
    BY <2>1, PlacesQuiet, NotificationQuiet DEF Pending
<1>6. CASE EndSendError
  <2>1. /\ UNCHANGED <<queue, metas, notified, delivered, added, m_sendBuffer>>
        /\ pc # "compose" /\ pc' \in {"idle", "try"}
    BY <1>6 DEF EndSendError, LoopsDone, bufferVars, reportVars, metas, queue
  <2> QED
    BY <2>1, PlacesQuiet, NotificationQuiet DEF Pending
<1>7. CASE BeginCompose
  <2>1. /\ UNCHANGED <<metas, notified, delivered, added, m_sendBuffer>>
        /\ pc # "compose" /\ batch' = NoBatch
    BY <1>7 DEF BeginCompose, bufferVars, reportVars, metas
  <2>2. Pending' = Pending
    <3>1. m_sendBuffer \o <<>> = m_sendBuffer
      BY ConcatEmptySeq DEF StreamTyped
    <3> QED
      BY <2>1, <3>1 DEF Pending, NoBatch
  <2>3. batch'.ping = 0
    BY <2>1 DEF NoBatch
  <2> QED
    BY <1>7, <2>1, <2>2, <2>3, PlacesBegin, NotificationQuiet
<1>8. CASE DelayPacket
  <2>1. /\ UNCHANGED <<metas, notified, delivered, added, m_sendBuffer, pc>> /\ batch \in Batch
        /\ pc = "compose"
    BY <1>8 DEF DelayPacket, Composing, bufferVars, reportVars, metas, TypedInv, Typed
  <2>2. /\ batch'.encoded = batch.encoded /\ batch'.ping = batch.ping
        /\ batch'.pingPacketLastByte = batch.pingPacketLastByte
    BY <1>8, <2>1 DEF DelayPacket, Batch
  <2>3. Waiting' \union Held' = Waiting \union Held /\ Waiting' \intersect Held' = {}
    BY <1>8, PlacesDelay DEF Notification
  <2>4. Pending' = Pending
    BY <2>1, <2>2 DEF Pending
  <2> QED
    BY <2>1, <2>2, <2>3, <2>4 DEF Notification, Records, NoEarlyNotification, Covered, Ends
<1>9. CASE EndCompose
  <2>1. /\ UNCHANGED <<metas, notified, delivered, added, batch>> /\ pc = "compose" /\ pc' = "send"
        /\ m_sendBuffer' = m_sendBuffer \o batch.encoded
    BY <1>9 DEF EndCompose, BufferAfterCompose, reportVars, metas
  <2>2. Pending' = Pending
    BY <2>1 DEF Pending
  <2>3. Waiting' \union Held' = Waiting \union Held /\ Waiting' \intersect Held' = {}
    BY <1>9, PlacesEnd
  <2> QED
    BY <2>1, <2>2, <2>3 DEF Notification, Records, NoEarlyNotification, Covered, Ends
<1>10. ~EncodeFails
  BY DEF EncodeFails
<1> QED
  BY <1>1, <1>2, <1>3, <1>4, <1>5, <1>6, <1>7, <1>8, <1>9, <1>10, NotificationCompose, NotificationSend
     DEF Next, SendNextBatch, Environment

\* When no packet fails to encode and getLastError reports no positive code, a
\* packet is reported sent only after the socket has taken its last byte,
\* whatever part of the buffer each send takes, on any number of connections:
\* the ends recorded before a partial send are never corrected, but they can
\* only be too high.
THEOREM NotificationsNotEarly ==
    ASSUME EncodeMayFail = FALSE, \A e \in SendErrors : e <= 0
    PROVE  Spec => []NoEarlyNotification
<1>1. Init => TypedInv /\ StreamTyped /\ Order /\ Notification
  BY EmptySeq, TypedInit, OrderInit, NotificationInit DEF Init, StreamTyped
<1>2. TypedInv /\ StreamTyped /\ Order /\ Notification /\ [Next]_vars => Notification'
  BY NotificationNext
<1>3. Notification => NoEarlyNotification
  BY DEF Notification
<1> QED
  BY <1>1, <1>2, <1>3, TypedNext, StreamTypedNext, OrderNext, PTL DEF Spec

-----------------------------------------------------------------------------
(* Every packet queued is in one place.                                     *)

Distinct(s) == \A i, j \in DOMAIN s : s[i].n = s[j].n => i = j

Everywhere == Waiting \union Held \union InBatch \union InComposed \union cancelled

\* The places hold different packets, none of them twice, and, as long as one
\* connection lasts, all packets queued so far.
Partition ==
    /\ Waiting \intersect (Held \union InBatch \union InComposed \union cancelled) = {}
    /\ Held \intersect (InBatch \union InComposed \union cancelled) = {}
    /\ InBatch \intersect (InComposed \union cancelled) = {}
    /\ InComposed \intersect cancelled = {}
    /\ pc = "compose" => Distinct(packets)
    /\ Distinct(composed)
    /\ Everywhere \subseteq 1 .. added
    /\ connections = 0 => composed = <<>>
    /\ connections <= 1 => 1 .. added \subseteq Everywhere

\* The positions of a sequence that hold the number n, when at most one does.
LEMMA OnePlace ==
    ASSUME NEW I, NEW b \in BOOLEAN,
           b => \E i \in I : TRUE, ~b => I = {}, \A i, j \in I : i = j
    PROVE  Cardinality(I) = IF b THEN 1 ELSE 0
<1>1. CASE b
  <2>1. PICK i \in I : TRUE
    BY <1>1
  <2>2. I = {i}
    BY <2>1
  <2> QED
    BY <1>1, <2>2, FS_Singleton
<1>2. CASE ~b
  BY <1>2, FS_EmptySet
<1> QED
  BY <1>1, <1>2

\* The increasing serial numbers of a sequence of packets are distinct.
LEMMA IncreasingDistinct ==
    ASSUME NEW s \in Seq(Packet), Increasing(s)
    PROVE  Distinct(s)
<1>1. DOMAIN s = 1 .. Len(s) /\ Len(s) \in Nat /\ \A i \in DOMAIN s : s[i] # Null /\ s[i].n \in Nat
  BY LenProperties, PacketsNotNull, PacketTyped
<1>2. ASSUME NEW i \in DOMAIN s, NEW j \in DOMAIN s, s[i].n = s[j].n PROVE i = j
  <2>1. ~(i < j) /\ ~(j < i) /\ i \in Nat /\ j \in Nat
    BY <1>1, <1>2 DEF Increasing, IsPacket
  <2> QED
    BY <2>1
<1> QED
  BY <1>2 DEF Distinct

\* A place for each packet, counted.
LEMMA PartitionCounts ==
    ASSUME TypedInv, Order, Partition
    PROVE  NoPacketLost
<1> SUFFICES ASSUME connections <= 1, NEW n \in 1 .. added PROVE Places(n) = 1
  BY DEF NoPacketLost
<1>1. /\ queue \in Seq(Packet \union {Null}) /\ composed \in Seq(Packet) /\ delayed \in Seq(Packet)
      /\ packets \in Seq(Packet)
  BY BatchTyped DEF TypedInv, Typed, delayed, packets
<1>2. DOMAIN queue = 1 .. Len(queue) /\ Len(queue) \in Nat /\ batch.next \in Nat
  BY <1>1, LenProperties, BatchTyped DEF TypedInv, Typed
<1>3. \A i \in DOMAIN queue : queue[i] # Null => queue[i].n \in Nat
  <2>1. \A i \in DOMAIN queue : queue[i] \in Packet \union {Null}
    BY <1>1, LenProperties, ElementOfSeq
  <2> QED
    BY <2>1, PacketTyped
<1> DEFINE A == {i \in DOMAIN m_nextPacketComposersBatch :
                    LET p == m_nextPacketComposersBatch[i]
                    IN  p # Null /\ p.n = n /\ ~(pc = "compose" /\ i < batch.next)}
           B == {i \in DOMAIN batch.delayed : pc = "compose" /\ batch.delayed[i].n = n}
           C == {i \in DOMAIN batch.packets : pc = "compose" /\ batch.packets[i].n = n}
           D == {i \in DOMAIN composed : composed[i].n = n}
<1>4. Cardinality(A) = IF n \in Waiting THEN 1 ELSE 0
  <2>1. A = {i \in DOMAIN queue : queue[i] # Null /\ queue[i].n = n /\ Rest(i)}
    <3>1. \A i \in DOMAIN queue : ~(i < batch.next) <=> i >= batch.next
      BY <1>2
    <3> QED
      BY <3>1 DEF Rest, queue
  <2>2. \A i, j \in DOMAIN queue :
           queue[i] # Null /\ queue[j] # Null /\ queue[i].n = queue[j].n => i = j
    <3> SUFFICES ASSUME NEW i \in DOMAIN queue, NEW j \in DOMAIN queue,
                        queue[i] # Null, queue[j] # Null, queue[i].n = queue[j].n
                 PROVE  i = j
      OBVIOUS
    <3>1. ~(i < j) /\ ~(j < i) /\ i \in Nat /\ j \in Nat
      BY <1>2, <1>3 DEF Order, QueueOrder, Increasing, IsPacket
    <3> QED
      BY <3>1
  <2>3. n \in Waiting <=> \E i \in A : TRUE
    BY <2>1 DEF Waiting
  <2>4. \A i, j \in A : i = j
    BY <2>1, <2>2
  <2> HIDE DEF A
  <2>5. (n \in Waiting) \in BOOLEAN /\ (~(n \in Waiting) => A = {})
    BY <2>3
  <2> QED
    BY <2>3, <2>4, <2>5, OnePlace
<1>5. Cardinality(B) = IF n \in Held THEN 1 ELSE 0
  <2>1. B = {i \in DOMAIN delayed : pc = "compose" /\ delayed[i].n = n}
    BY DEF delayed
  <2>2. n \in Held <=> \E i \in B : TRUE
    BY <2>1 DEF Held, Numbers
  <2>3. \A i, j \in B : i = j
    <3>1. pc = "compose" => Distinct(delayed)
      BY <1>1, IncreasingDistinct DEF Order, BatchOrder
    <3> QED
      BY <2>1, <3>1 DEF Distinct
  <2> HIDE DEF B
  <2>4. (n \in Held) \in BOOLEAN /\ (~(n \in Held) => B = {})
    BY <2>2
  <2> QED
    BY <2>2, <2>3, <2>4, OnePlace
<1>6. Cardinality(C) = IF n \in InBatch THEN 1 ELSE 0
  <2>1. C = {i \in DOMAIN packets : pc = "compose" /\ packets[i].n = n}
    BY DEF packets
  <2>2. n \in InBatch <=> \E i \in C : TRUE
    BY <2>1 DEF InBatch, Numbers
  <2>3. \A i, j \in C : i = j
    BY <2>1 DEF Partition, Distinct
  <2> HIDE DEF C
  <2>4. (n \in InBatch) \in BOOLEAN /\ (~(n \in InBatch) => C = {})
    BY <2>2
  <2> QED
    BY <2>2, <2>3, <2>4, OnePlace
<1>7. Cardinality(D) = IF n \in InComposed THEN 1 ELSE 0
  <2>1. n \in InComposed <=> \E i \in D : TRUE
    BY DEF InComposed, Numbers
  <2>2. \A i, j \in D : i = j
    BY DEF Partition, Distinct
  <2> HIDE DEF D
  <2>3. (n \in InComposed) \in BOOLEAN /\ (~(n \in InComposed) => D = {})
    BY <2>1
  <2> QED
    BY <2>1, <2>2, <2>3, OnePlace
<1>8. Places(n) = Cardinality(A) + Cardinality(B) + Cardinality(C) + Cardinality(D)
                  + (IF n \in cancelled THEN 1 ELSE 0)
  BY DEF Places
<1> HIDE DEF A, B, C, D
<1>9. n \in Everywhere
  BY DEF Partition
<1> QED
  BY <1>4, <1>5, <1>6, <1>7, <1>8, <1>9 DEF Partition, Everywhere

\* A sequence of packets with one more of another number, and two sequences
\* without a number in common.
LEMMA DistinctAppend ==
    ASSUME NEW s \in Seq(Packet), NEW p \in Packet, Distinct(s), p.n \notin Numbers(s)
    PROVE  Distinct(Append(s, p))
<1>1. PICK t \in Seq(Packet) :
          /\ t = Append(s, p) /\ DOMAIN s = 1 .. Len(s) /\ Len(s) \in Nat
          /\ DOMAIN t = 1 .. Len(s) + 1
          /\ \A i \in 1 .. Len(s) : t[i] = s[i]
          /\ t[Len(s) + 1] = p
  BY AppendPacket
<1>2. \A i \in DOMAIN s : s[i].n # p.n
  BY DEF Numbers
<1>3. \A i \in DOMAIN t : (i \in DOMAIN s /\ t[i] = s[i]) \/ (i = Len(s) + 1 /\ t[i] = p)
  BY <1>1
<1>4. Distinct(t)
  BY <1>2, <1>3 DEF Distinct
<1> QED
  BY <1>1, <1>4

\* Two sequences of different packets with no number in common.
LEMMA DistinctConcat ==
    ASSUME NEW s \in Seq(Packet), NEW t \in Seq(Packet), Distinct(s), Distinct(t),
           Numbers(s) \intersect Numbers(t) = {}
    PROVE  Distinct(s \o t)
<1>1. PICK u \in Seq(Packet) : u = s \o t
  BY ConcatProperties
<1>2. /\ DOMAIN s = 1 .. Len(s) /\ Len(s) \in Nat /\ DOMAIN t = 1 .. Len(t) /\ Len(t) \in Nat
      /\ DOMAIN u = 1 .. Len(s) + Len(t)
      /\ \A i \in 1 .. Len(s) + Len(t) : u[i] = IF i <= Len(s) THEN s[i] ELSE t[i - Len(s)]
  BY <1>1, ConcatProperties, LenProperties
<1>3. \A i \in DOMAIN u : \/ i \in DOMAIN s /\ u[i] = s[i]
                          \/ i - Len(s) \in DOMAIN t /\ u[i] = t[i - Len(s)]
  BY <1>2
<1>4. \A i \in DOMAIN s, j \in DOMAIN t : s[i].n # t[j].n
  BY DEF Numbers
<1>5. ASSUME NEW i \in DOMAIN u, NEW j \in DOMAIN u, u[i].n = u[j].n PROVE i = j
  <2>1. CASE i \in DOMAIN s /\ u[i] = s[i] /\ j \in DOMAIN s /\ u[j] = s[j]
    BY <1>5, <2>1 DEF Distinct
  <2>2. CASE i - Len(s) \in DOMAIN t /\ u[i] = t[i - Len(s)] /\ j - Len(s) \in DOMAIN t /\ u[j] = t[j - Len(s)]
    <3>1. i - Len(s) = j - Len(s)
      BY <1>5, <2>2 DEF Distinct
    <3> QED
      BY <1>2, <3>1
  <2> QED
    BY <1>3, <1>4, <1>5, <2>1, <2>2
<1> QED
  BY <1>1, <1>5 DEF Distinct

\* No packet has been queued.
LEMMA PartitionInit == Init => Partition
<1> SUFFICES ASSUME Init PROVE Partition
  OBVIOUS
<1>1. /\ DOMAIN queue = {} /\ DOMAIN composed = {} /\ pc = "idle" /\ cancelled = {} /\ added = 0
      /\ composed = <<>>
  BY DEF Init, queue
<1>2. Waiting = {} /\ Held = {} /\ InBatch = {} /\ InComposed = {} /\ 1 .. added = {}
  BY <1>1 DEF Waiting, Held, InBatch, InComposed, Numbers
<1> QED
  BY <1>1, <1>2 DEF Partition, Everywhere, Distinct

\* The steps outside the composing loop that queue and cancel nothing.
LEMMA PartitionQuiet ==
    ASSUME Partition, UNCHANGED <<composed, added, cancelled, connections>>,
           Waiting' = Waiting, Held' = {}, InBatch' = {}, Held = {}, InBatch = {},
           pc' = "compose" => packets' = <<>>
    PROVE  Partition'
<1>1. InComposed' = InComposed
  BY DEF InComposed
<1>2. Everywhere' = Everywhere
  BY <1>1 DEF Everywhere
<1>3. pc' = "compose" => Distinct(packets')
  BY DEF Distinct
<1> QED
  BY <1>1, <1>2, <1>3 DEF Partition, Distinct

\* Cancelling every queued packet leaves each in one place.
LEMMA PartitionCancel ==
    ASSUME Partition, pc # "compose", CancelAll, UNCHANGED <<composed, added, connections>>
    PROVE  Partition'
<1>1. Waiting' = {} /\ cancelled' = cancelled \union Waiting /\ pc' # "compose"
  BY NumbersCancel
<1>2. Held' = {} /\ InBatch' = {} /\ Held = {} /\ InBatch = {} /\ InComposed' = InComposed
  BY <1>1 DEF Held, InBatch, InComposed
<1>3. Everywhere' = Everywhere
  BY <1>1, <1>2 DEF Everywhere
<1> QED
  BY <1>1, <1>2, <1>3 DEF Partition, Distinct

\* A packet is queued; a new connection forgets what was composed for the last.
LEMMA PartitionQueue ==
    ASSUME TypedInv, Partition, pc = "idle", pc' = pc, NEW t \in Template, AddToQueue(t),
           cancelled' = cancelled,
           \/ UNCHANGED <<composed, connections>>
           \/ /\ composed' = <<>> /\ connections' = connections + 1
              /\ connections \in Nat
    PROVE  Partition'
<1>1. /\ Waiting' = Waiting \union {added + 1} /\ added' = added + 1 /\ added \in Nat
      /\ Held' = {} /\ InBatch' = {} /\ Held = {} /\ InBatch = {}
  BY NumbersAddToQueue DEF AddToQueue, Held, InBatch, TypedInv, Typed
<1>2. \A n \in Everywhere : n \in 1 .. added /\ n # added + 1
  BY <1>1 DEF Partition
<1>3. 1 .. added' = (1 .. added) \union {added + 1}
  BY <1>1
<1>4. CASE UNCHANGED <<composed, connections>>
  <2>1. InComposed' = InComposed
    BY <1>4 DEF InComposed
  <2>2. Everywhere' = Everywhere \union {added + 1}
    BY <1>1, <2>1 DEF Everywhere
  <2> QED
    BY <1>1, <1>2, <1>3, <1>4, <2>1, <2>2 DEF Partition, Distinct, Everywhere
<1>5. CASE composed' = <<>> /\ connections' = connections + 1 /\ connections \in Nat
  <2>1. InComposed' = {} /\ Distinct(composed') /\ DOMAIN composed' = {}
    BY <1>5 DEF InComposed, Numbers, Distinct
  <2>2. Everywhere' \subseteq Everywhere \union {added + 1}
    BY <1>1, <2>1 DEF Everywhere
  <2>3. connections' # 0 /\ (connections' <= 1 => connections = 0)
    BY <1>5
  <2>4. connections' <= 1 => Everywhere' = Everywhere \union {added + 1}
    <3>1. composed = <<>> => InComposed = {}
      BY DEF InComposed, Numbers
    <3> QED
      BY <1>1, <2>1, <2>3, <3>1 DEF Everywhere, Partition
  <2>5. connections' <= 1 => 1 .. added' \subseteq Everywhere'
    BY <1>3, <2>3, <2>4 DEF Partition
  <2>6. Everywhere' \subseteq 1 .. added'
    BY <1>2, <1>3, <2>2
  <2>7. Waiting' \intersect cancelled' = {}
    BY <1>1, <1>2 DEF Partition, Everywhere
  <2> QED
    BY <1>1, <2>1, <2>3, <2>5, <2>6, <2>7 DEF Partition
<1> QED
  BY <1>4, <1>5

\* Every step keeps each queued packet in exactly one place.
LEMMA PartitionNext ==
    ASSUME EncodeMayFail = FALSE
    PROVE  TypedInv /\ StreamTyped /\ Order /\ Untouched /\ Partition /\ [Next]_vars => Partition'
<1> SUFFICES ASSUME TypedInv, StreamTyped, Order, Untouched, Partition, [Next]_vars PROVE Partition'
  OBVIOUS
<1>1. CASE UNCHANGED vars \/ SocketLost
  <2>1. UNCHANGED <<queue, composed, added, cancelled, connections, batch, pc, delayed, packets>>
    BY <1>1 DEF vars, SocketLost, callVars, streamVars, socketVars, reportVars, queue, delayed, packets
  <2> QED
    <3>1. Waiting' = Waiting /\ Held' = Held /\ InBatch' = InBatch /\ InComposed' = InComposed
      BY <2>1 DEF Waiting, Held, InBatch, InComposed, Rest, Numbers
    <3> QED
      BY <2>1, <3>1 DEF Partition, Everywhere, Distinct
<1>2. ASSUME NEW t \in Templates, QueuePacket(t) PROVE Partition'
  <2>1. /\ t \in Template /\ AddToQueue(t) /\ pc = "idle" /\ pc' = pc
        /\ UNCHANGED <<composed, connections, cancelled>>
    BY <1>2, TemplatesTyped DEF QueuePacket, socketVars, callVars, streamVars, reportVars
  <2> QED
    BY <2>1, PartitionQueue
<1>3. CASE SocketConnects
  <2>1. /\ ConnectPacket \in Template /\ AddToQueue(ConnectPacket) /\ pc = "idle" /\ pc' = pc
        /\ composed' = <<>> /\ connections' = connections + 1 /\ connections \in Nat
        /\ cancelled' = cancelled
    BY <1>3, TemplatesTyped DEF SocketConnects, callVars, reportVars, Untouched
  <2> QED
    BY <2>1, PartitionQueue
<1>4. CASE ClearQueue \/ GracefulClear
  <2>1. /\ CancelAll /\ pc # "compose" /\ UNCHANGED <<composed, added, connections>>
    BY <1>4 DEF ClearQueue, GracefulClear, streamVars, socketVars
  <2> QED
    BY <2>1, PartitionCancel
<1>5. CASE ConnAck \/ Acknowledge \/ BeginSendNextBatch \/ NothingQueued \/ EndPartlySent
  <2>1. /\ UNCHANGED <<queue, composed, added, cancelled, connections>>
        /\ pc # "compose" /\ pc' # "compose"
    BY <1>5 DEF ConnAck, Acknowledge, BeginSendNextBatch, NothingQueued, EndPartlySent, LoopsDone,
       ReturnSuccess, streamVars, socketVars, callVars, reportVars, queue
  <2> QED
    BY <2>1, PlacesQuiet, PartitionQuiet
<1>6. CASE EndSendError
  <2>1. /\ UNCHANGED <<queue, composed, added, cancelled, connections>>
        /\ pc # "compose" /\ pc' # "compose"
    BY <1>6 DEF EndSendError, LoopsDone, streamVars, socketVars, reportVars, queue
  <2> QED
    BY <2>1, PlacesQuiet, PartitionQuiet
<1>7. CASE SocketTakes \/ SocketFails
  <2>1. UNCHANGED <<queue, composed, added, cancelled, connections>> /\ pc # "compose" /\ pc' # "compose"
    BY <1>7, SendChanges DEF Sending, SocketTakes, SocketFails
  <2> QED
    BY <2>1, PlacesQuiet, PartitionQuiet
<1>8. CASE BeginCompose
  <2>1. UNCHANGED <<composed, added, cancelled, connections>> /\ packets' = <<>>
    BY <1>8 DEF BeginCompose, streamVars, socketVars, reportVars, packets, NoBatch
  <2> QED
    BY <1>8, <2>1, PlacesBegin, PartitionQuiet
<1>9. CASE DelayPacket
  <2>1. UNCHANGED <<composed, added, cancelled, connections, pc>>
    BY <1>9 DEF DelayPacket, streamVars, socketVars, reportVars
  <2>2. packets' = packets
    BY <1>9, BatchTyped DEF DelayPacket, packets, TypedInv, Typed, Batch
  <2>3. InComposed' = InComposed
    BY <2>1 DEF InComposed
  <2>4. /\ NextComposer.n \in Waiting /\ Waiting' = Waiting \ {NextComposer.n}
        /\ Held' = Held \union {NextComposer.n} /\ InBatch' = InBatch
    BY <1>9, PlacesDelay
  <2>5. Everywhere' = Everywhere
    BY <2>1, <2>3, <2>4 DEF Everywhere
  <2> QED
    BY <2>1, <2>2, <2>3, <2>4, <2>5 DEF Partition, Distinct
<1>10. CASE ComposePacket
  <2>1. UNCHANGED <<composed, added, cancelled, connections, pc>> /\ pc = "compose"
    BY <1>10 DEF ComposePacket, Composing, streamVars, socketVars, reportVars
  <2>2. InComposed' = InComposed
    BY <2>1 DEF InComposed
  <2>3. /\ NextComposer.n \in Waiting /\ Waiting' = Waiting \ {NextComposer.n}
        /\ Held' = Held /\ InBatch' = InBatch \union {NextComposer.n}
    BY <1>10, PlacesCompose
  <2>4. Everywhere' = Everywhere
    BY <2>1, <2>2, <2>3 DEF Everywhere
  <2>5. Distinct(packets')
    <3>1. NextComposer \in Packet /\ packets' = Append(packets, NextComposer) /\ packets \in Seq(Packet)
      BY <1>10, ComposePacketChanges, BatchTyped DEF TypedInv, Typed, packets
    <3>2. NextComposer.n \notin Numbers(packets)
      BY <2>1, <2>3 DEF Partition, InBatch
    <3> QED
      BY <2>1, <3>1, <3>2, DistinctAppend DEF Partition
  <2> QED
    BY <2>1, <2>2, <2>3, <2>4, <2>5 DEF Partition, Distinct
<1>11. CASE EndCompose
  <2>1. /\ UNCHANGED <<added, cancelled, connections>> /\ pc = "compose" /\ pc' # "compose"
        /\ composed' = composed \o packets
    BY <1>11 DEF EndCompose, socketVars, reportVars, packets
  <2>2. /\ Waiting' = Held /\ Held' = {} /\ Waiting = {}
        /\ InBatch' = {} /\ InComposed' = InComposed \union InBatch
    BY <1>11, PlacesEnd
  <2>3. Everywhere' = Everywhere
    BY <2>1, <2>2 DEF Everywhere
  <2>4. Distinct(composed')
    <3>1. composed \in Seq(Packet) /\ packets \in Seq(Packet)
      BY BatchTyped DEF TypedInv, Typed, packets
    <3>2. Numbers(composed) \intersect Numbers(packets) = {}
      BY <2>1 DEF Partition, InBatch, InComposed
    <3> QED
      BY <2>1, <3>1, <3>2, DistinctConcat DEF Partition
  <2>5. connections' # 0
    BY <2>1 DEF Untouched
  <2> QED
    BY <2>1, <2>2, <2>3, <2>4, <2>5 DEF Partition
<1>12. ~EncodeFails
  BY DEF EncodeFails
<1> QED
  BY <1>1, <1>2, <1>3, <1>4, <1>5, <1>6, <1>7, <1>8, <1>9, <1>10, <1>11, <1>12
     DEF Next, SendNextBatch, Environment

\* When no packet fails to encode, every packet queued on the first connection is
\* in one place: it waits, is held back by the quota, is composed or cancelled,
\* never two of these and never none, whatever the socket does.
THEOREM PacketsAccountedFor ==
    ASSUME EncodeMayFail = FALSE
    PROVE  Spec => []NoPacketLost
<1>1. Init => TypedInv /\ StreamTyped /\ Order /\ Untouched /\ Partition
  BY EmptySeq, TypedInit, OrderInit, UntouchedInit, PartitionInit DEF Init, StreamTyped
<1>2. TypedInv /\ StreamTyped /\ Order /\ Untouched /\ Partition /\ [Next]_vars => Partition'
  BY PartitionNext
<1>3. TypedInv /\ Order /\ Partition => NoPacketLost
  BY PartitionCounts
<1> QED
  BY <1>1, <1>2, <1>3, TypedNext, StreamTypedNext, OrderNext, UntouchedNext, PTL DEF Spec

-----------------------------------------------------------------------------
(* The broker's Receive Maximum.                                            *)

Live(p) == IsQosPublish(p) /\ p.n \notin acked

\* The packets composed for the connection, and all packets the queue holds.
Sent == ToSet(composed) \union ToSet(packets)
InPlay == (ToSet(queue) \ {Null}) \union ToSet(delayed) \union Sent

\* The allowances and the identifiers that hold a part of them make up the
\* Receive Maximum; the model's broker sends no publish.
Balanced(t) ==
    /\ t \in Tracker
    /\ IsFiniteSet(t.m_sentPublishIDs)
    /\ t.m_sendAllowance + Cardinality(t.m_sentPublishIDs) = ReceiveMaximum
    /\ t.m_maxSendAllowance = ReceiveMaximum
    /\ t.m_receivedPublishIDs = {} /\ t.m_receiveAllowance = ReceiveMaximum

\* What the loop holds outside a batch.
BatchPlaces ==
    /\ pc \in {"idle", "try"} => packets = <<>> /\ delayed = <<>>
    /\ pc # "compose" => ToSet(packets) \subseteq ToSet(composed)

\* Unless a publish may be queued again, no two unacknowledged ones have one
\* identifier.
OneLive ==
    ~Retries => \A p, q \in InPlay : Live(p) /\ Live(q) /\ p.id = q.id => p.n = q.n

TrackerBalanced ==
    /\ Balanced(tracker) \/ (tracker = Null /\ \A p \in InPlay : ~UsesTracker(p))
    /\ socket = "established" => Balanced(tracker)

\* Every unacknowledged publish composed holds a part of the quota; the first
\* CONNACK finds none.
QuotaHeld ==
    ~Retries /\ connections <= 1 =>
        /\ \A p \in Sent : Live(p) => p.id \in tracker.m_sentPublishIDs
        /\ socket = "opening" => tracker = Null /\ \A p \in InPlay : ~UsesTracker(p)

QuotaInv == BatchPlaces /\ OneLive /\ TrackerBalanced /\ QuotaHeld

\* The tracker's operators keep the balance.
LEMMA NewTrackerBalanced ==
    /\ Balanced(NewTracker(ReceiveMaximum, ReceiveMaximum))
    /\ NewTracker(ReceiveMaximum, ReceiveMaximum).m_sentPublishIDs = {}
<1> DEFINE t == NewTracker(ReceiveMaximum, ReceiveMaximum)
<1>1. t \in Tracker
  BY NewTrackerTyped
<1>2. /\ t.m_sentPublishIDs = {} /\ t.m_sendAllowance = ReceiveMaximum
      /\ t.m_maxSendAllowance = ReceiveMaximum
      /\ t.m_receivedPublishIDs = {} /\ t.m_receiveAllowance = ReceiveMaximum
  BY DEF NewTracker
<1> HIDE DEF t
<1>3. IsFiniteSet(t.m_sentPublishIDs) /\ Cardinality(t.m_sentPublishIDs) = 0
  BY <1>2, FS_EmptySet
<1>4. Balanced(t)
  BY <1>1, <1>2, <1>3, SendQueueAssumption DEF Balanced, SendQueueAssumption
<1> QED
  BY <1>2, <1>4 DEF t

\* The model's client receives no QoS publish: its receive allowance stays.
LEMMA ReceiveBalanced ==
    ASSUME NEW t, Balanced(t), NEW id
    PROVE  IncrementReceiveAllowance(t, id) = t
BY DEF Balanced, IncrementReceiveAllowance

\* A publish composed takes one of the allowance for its identifier.
LEMMA DecrementBalanced ==
    ASSUME NEW t, Balanced(t), NEW id \in Nat, HasSendAllowance(t)
    PROVE  /\ Balanced(DecrementSendAllowance(t, id))
           /\ DecrementSendAllowance(t, id).m_sentPublishIDs = t.m_sentPublishIDs \union {id}
<1> DEFINE u == DecrementSendAllowance(t, id)
<1>1. CASE id \in t.m_sentPublishIDs
  BY <1>1 DEF DecrementSendAllowance
<1>2. CASE id \notin t.m_sentPublishIDs
  <2>1. /\ t \in Tracker /\ t.m_sendAllowance \in Nat /\ t.m_sendAllowance > 0
        /\ IsFiniteSet(t.m_sentPublishIDs) /\ Cardinality(t.m_sentPublishIDs) \in Nat
        /\ t.m_sendAllowance + Cardinality(t.m_sentPublishIDs) = ReceiveMaximum
    BY FS_CardinalityType DEF Balanced, Tracker, HasSendAllowance
  <2>2. u = [t EXCEPT !.m_sendAllowance = t.m_sendAllowance - 1,
                      !.m_sentPublishIDs = t.m_sentPublishIDs \union {id}]
    BY <1>2 DEF DecrementSendAllowance
  <2>3. u \in Tracker
    BY <2>1, TrackerOperators
  <2>4. /\ u.m_sendAllowance = t.m_sendAllowance - 1
        /\ u.m_sentPublishIDs = t.m_sentPublishIDs \union {id}
        /\ u.m_maxSendAllowance = t.m_maxSendAllowance
        /\ u.m_receivedPublishIDs = t.m_receivedPublishIDs
        /\ u.m_receiveAllowance = t.m_receiveAllowance
    BY <2>1, <2>2 DEF Tracker
  <2>5. /\ IsFiniteSet(t.m_sentPublishIDs \union {id})
        /\ Cardinality(t.m_sentPublishIDs \union {id}) = Cardinality(t.m_sentPublishIDs) + 1
    BY <1>2, <2>1, FS_AddElement
  <2> HIDE DEF u
  <2>6. u.m_sendAllowance + Cardinality(u.m_sentPublishIDs) = ReceiveMaximum
    BY <2>1, <2>4, <2>5
  <2>7. Balanced(u)
    BY <2>3, <2>4, <2>5, <2>6 DEF Balanced
  <2> QED
    BY <2>4, <2>7 DEF u
<1> QED
  BY <1>1, <1>2

\* An acknowledgement gives back what its publish took.
LEMMA IncrementBalanced ==
    ASSUME NEW t, Balanced(t), NEW id \in t.m_sentPublishIDs
    PROVE  /\ Balanced(IncrementSendAllowance(t, id))
           /\ IncrementSendAllowance(t, id).m_sentPublishIDs = t.m_sentPublishIDs \ {id}
<1> DEFINE u == IncrementSendAllowance(t, id)
<1>1. /\ t \in Tracker /\ t.m_sendAllowance \in Nat /\ id \in Nat
      /\ IsFiniteSet(t.m_sentPublishIDs) /\ Cardinality(t.m_sentPublishIDs) \in Nat
      /\ t.m_sendAllowance + Cardinality(t.m_sentPublishIDs) = ReceiveMaximum
      /\ t.m_maxSendAllowance = ReceiveMaximum
  BY FS_CardinalityType DEF Balanced, Tracker
<1>2. /\ IsFiniteSet(t.m_sentPublishIDs \ {id})
      /\ Cardinality(t.m_sentPublishIDs \ {id}) = Cardinality(t.m_sentPublishIDs) - 1
      /\ Cardinality(t.m_sentPublishIDs \ {id}) \in Nat
  BY <1>1, FS_RemoveElement, FS_CardinalityType
<1>3. t.m_sendAllowance < t.m_maxSendAllowance
  BY <1>1, <1>2
<1>4. u = [t EXCEPT !.m_sendAllowance = t.m_sendAllowance + 1,
                    !.m_sentPublishIDs = t.m_sentPublishIDs \ {id}]
  BY <1>3 DEF IncrementSendAllowance
<1>5. u \in Tracker
  BY <1>1, TrackerOperators
<1>6. /\ u.m_sendAllowance = t.m_sendAllowance + 1
      /\ u.m_sentPublishIDs = t.m_sentPublishIDs \ {id}
      /\ u.m_maxSendAllowance = t.m_maxSendAllowance
      /\ u.m_receivedPublishIDs = t.m_receivedPublishIDs
      /\ u.m_receiveAllowance = t.m_receiveAllowance
  BY <1>1, <1>4 DEF Tracker
<1> HIDE DEF u
<1>7. u.m_sendAllowance + Cardinality(u.m_sentPublishIDs) = ReceiveMaximum
  BY <1>1, <1>2, <1>6
<1>8. Balanced(u)
  BY <1>2, <1>5, <1>6, <1>7 DEF Balanced
<1> QED
  BY <1>6, <1>8 DEF u

\* Composing a packet keeps the balance and takes a part for a publish.
LEMMA ComposeBalanced ==
    ASSUME Balanced(tracker), NEW p \in Packet, CanSend(p)
    PROVE  /\ Balanced(TrackerAfterCompose(p))
           /\ tracker.m_sentPublishIDs \subseteq TrackerAfterCompose(p).m_sentPublishIDs
           /\ IsQosPublish(p) => p.id \in TrackerAfterCompose(p).m_sentPublishIDs
<1>1. p.id \in Nat
  BY PacketTyped
<1>2. CASE p.type \in {"PUBACK", "PUBCOMP"}
  <2>1. ~IsQosPublish(p) /\ TrackerAfterCompose(p) = tracker
    BY <1>2, ReceiveBalanced DEF TrackerAfterCompose, IsQosPublish
  <2> QED
    BY <2>1
<1>3. CASE p.type \notin {"PUBACK", "PUBCOMP"} /\ IsQosPublish(p)
  <2>1. TrackerAfterCompose(p) = DecrementSendAllowance(tracker, p.id) /\ HasSendAllowance(tracker)
    BY <1>3 DEF TrackerAfterCompose, CanSend
  <2> QED
    BY <1>1, <2>1, DecrementBalanced
<1>4. CASE p.type \notin {"PUBACK", "PUBCOMP"} /\ ~IsQosPublish(p)
  BY <1>4 DEF TrackerAfterCompose
<1> QED
  BY <1>2, <1>3, <1>4

\* The quota follows from what the publishes hold.
LEMMA QuotaCounts ==
    ASSUME TypedInv, QuotaInv, ~Retries, connections <= 1
    PROVE  QuotaRespected
<1> DEFINE U == {p.id : p \in {q \in ToSet(composed \o packets) : IsQosPublish(q) /\ q.n \notin acked}}
<1>1. composed \in Seq(Packet) /\ packets \in Seq(Packet)
  BY BatchTyped DEF TypedInv, Typed, packets
<1>2. \A p \in ToSet(composed \o packets) : p \in Sent
  BY <1>1, ElementsConcat DEF Sent
<1>3. CASE Balanced(tracker)
  <2>1. U \subseteq tracker.m_sentPublishIDs
    BY <1>2 DEF QuotaInv, QuotaHeld, Live
  <2>2. IsFiniteSet(tracker.m_sentPublishIDs) /\ Cardinality(tracker.m_sentPublishIDs) \in Nat
    BY <1>3, FS_CardinalityType DEF Balanced
  <2>3. Cardinality(U) <= Cardinality(tracker.m_sentPublishIDs) /\ Cardinality(U) \in Nat
    <3> HIDE DEF U
    <3> QED
      BY <2>1, <2>2, FS_Subset, FS_CardinalityType
  <2>4. tracker.m_sendAllowance \in Nat /\ tracker.m_sendAllowance + Cardinality(tracker.m_sentPublishIDs) = ReceiveMaximum
    BY <1>3 DEF Balanced, Tracker
  <2>5. Cardinality(U) <= ReceiveMaximum
    <3> HIDE DEF U
    <3> QED
      BY <2>2, <2>3, <2>4
  <2> QED
    BY <2>5 DEF QuotaRespected, packets
<1>4. CASE ~Balanced(tracker)
  <2>1. U = {}
    BY <1>2, <1>4 DEF QuotaInv, TrackerBalanced, InPlay, UsesTracker
  <2>2. Cardinality(U) = 0
    BY <2>1, FS_EmptySet
  <2> QED
    BY <2>2, SendQueueAssumption DEF QuotaRespected, packets, SendQueueAssumption
<1> QED
  BY <1>3, <1>4

\* The packets the queue holds are packets.
LEMMA InPlayTyped ==
    ASSUME TypedInv
    PROVE  InPlay \subseteq Packet
<1>1. /\ queue \in Seq(Packet \union {Null}) /\ composed \in Seq(Packet)
      /\ delayed \in Seq(Packet) /\ packets \in Seq(Packet)
  BY BatchTyped DEF TypedInv, Typed, delayed, packets
<1>2. \A i \in DOMAIN queue : queue[i] \in Packet \union {Null}
  BY <1>1, LenProperties, ElementOfSeq
<1>3. /\ \A i \in DOMAIN composed : composed[i] \in Packet
      /\ \A i \in DOMAIN delayed : delayed[i] \in Packet
      /\ \A i \in DOMAIN packets : packets[i] \in Packet
  BY <1>1, PacketsNotNull
<1> QED
  BY <1>2, <1>3 DEF InPlay, Sent, ToSet

\* Without a tracker nothing has been composed that needs one.
LEMMA QuotaInit == Init => QuotaInv
<1> SUFFICES ASSUME Init PROVE QuotaInv
  OBVIOUS
<1>1. /\ queue = <<>> /\ composed = <<>> /\ packets = <<>> /\ delayed = <<>>
      /\ tracker = Null /\ socket = "closed"
  BY DEF Init, queue, packets, delayed, NoBatch
<1>2. InPlay = {} /\ Sent = {}
  BY <1>1, ElementsEmpty DEF InPlay, Sent
<1> QED
  BY <1>1, <1>2 DEF QuotaInv, BatchPlaces, OneLive, TrackerBalanced, QuotaHeld

\* The steps that leave the tracker alone and add no packet.
LEMMA QuotaShrinks ==
    ASSUME QuotaInv, InPlay' \subseteq InPlay, Sent' \subseteq Sent, BatchPlaces',
           UNCHANGED <<tracker, acked, connections>>, socket' \in {socket, "closed", "lost"}
    PROVE  QuotaInv'
<1>1. \A p \in InPlay' : p \in InPlay /\ (Live(p)' <=> Live(p))
  BY DEF Live
<1>2. OneLive'
  BY <1>1 DEF QuotaInv, OneLive, Live
<1>3. TrackerBalanced'
  BY DEF QuotaInv, TrackerBalanced
<1>4. QuotaHeld'
  BY <1>1 DEF QuotaInv, QuotaHeld, Live
<1> QED
  BY <1>2, <1>3, <1>4 DEF QuotaInv

\* Those that leave the queue alone as well and are outside a batch.
LEMMA QuotaQuiet ==
    ASSUME QuotaInv, pc # "compose",
           UNCHANGED <<queue, composed, tracker, acked, connections>>,
           socket' = socket \/ socket' = "closed",
           \/ UNCHANGED <<packets, delayed>> /\ (pc' = pc \/ pc' = "crashed" \/ pc \in {"idle", "try"})
           \/ batch' = NoBatch
    PROVE  QuotaInv'
<1>1. batch' = NoBatch => packets' = <<>> /\ delayed' = <<>>
  BY DEF NoBatch, packets, delayed
<1>2. InPlay' \subseteq InPlay /\ Sent' \subseteq Sent
  BY <1>1, ElementsEmpty DEF InPlay, Sent
<1>3. BatchPlaces'
  BY <1>1, ElementsEmpty DEF QuotaInv, BatchPlaces
<1> QED
  BY <1>2, <1>3, QuotaShrinks

\* Cancelling the queued packets leaves the tracker and what it counts.
LEMMA QuotaCancel ==
    ASSUME QuotaInv, pc \in {"idle", "try"}, CancelAll,
           UNCHANGED <<composed, batch, tracker, acked, connections>>,
           socket' = socket \/ socket' = "closed"
    PROVE  QuotaInv'
<1>1. queue' = <<>> /\ packets' = packets /\ delayed' = delayed
  BY DEF CancelAll, queue, packets, delayed
<1>2. InPlay' \subseteq InPlay /\ Sent' \subseteq Sent
  BY <1>1, ElementsEmpty DEF InPlay, Sent
<1>3. BatchPlaces'
  BY <1>1, ElementsEmpty DEF QuotaInv, BatchPlaces
<1> QED
  BY <1>2, <1>3, QuotaShrinks

\* A packet is queued.  A publish that is queued once has an identifier that no
\* unacknowledged one has.
LEMMA QuotaQueue ==
    ASSUME TypedInv, QuotaInv, pc = "idle", NEW t \in Template, AddToQueue(t),
           UNCHANGED <<pc, batch, tracker, acked>>,
           tracker # Null \/ ~UsesTracker(t),
           \/ UNCHANGED <<composed, socket, connections>> /\ (InFlight(t) => Retries)
           \/ /\ composed' = <<>> /\ socket' = "opening" /\ ~UsesTracker(t)
              /\ connections' <= 1 => tracker = Null /\ queue = <<>>
    PROVE  QuotaInv'
<1> DEFINE new == Numbered(t, added + 1)
<1>1. /\ new \in Packet /\ new.n = added + 1 /\ new.id = t.id /\ new.type = t.type
      /\ IsQosPublish(new) = IsQosPublish(t) /\ (UsesTracker(new) <=> UsesTracker(t))
  BY NumberedPacket DEF TypedInv, Typed, UsesTracker
<1>2. queue' = Append(queue, new)
  BY DEF AddToQueue, queue
<1> HIDE DEF new
<1>3. queue \in Seq(Packet \union {Null}) /\ new # Null /\ new \in Packet \union {Null}
  BY <1>1, PacketTyped DEF TypedInv, Typed
<1>4. ToSet(queue') = ToSet(queue) \union {new}
  <2> HIDE DEF Packet
  <2> QED
    BY <1>2, <1>3, ElementsAppend
<1>5. /\ packets' = packets /\ delayed' = delayed /\ packets = <<>> /\ delayed = <<>>
      /\ composed' = composed \/ composed' = <<>>
  BY DEF QuotaInv, BatchPlaces, packets, delayed
<1>6. /\ Sent' = ToSet(composed') /\ Sent = ToSet(composed) /\ Sent' \subseteq Sent
      /\ InPlay = (ToSet(queue) \ {Null}) \union ToSet(composed)
      /\ InPlay' = ((ToSet(queue) \union {new}) \ {Null}) \union ToSet(composed')
      /\ InPlay' \subseteq InPlay \union {new}
  BY <1>4, <1>5, ElementsEmpty DEF InPlay, Sent
<1>7. \A p \in InPlay : p \in Packet
  BY InPlayTyped
<1>8. BatchPlaces'
  BY <1>5, ElementsEmpty DEF BatchPlaces
<1>9. ASSUME ~InFlight(t), IsQosPublish(t)
      PROVE  \A p \in InPlay : Live(p) => p.id # t.id
  <2>1. ToSet(queue \o composed) = ToSet(queue) \union ToSet(composed)
    <3>1. composed \in Seq(Packet \union {Null})
      BY PacketsNotNull DEF TypedInv, Typed
    <3> HIDE DEF Packet
    <3> QED
      BY <1>3, <3>1, ElementsConcat
  <2>2. \A p \in ToSet(composed) : p # Null
    BY PacketsNotNull DEF TypedInv, Typed, ToSet
  <2> QED
    BY <1>6, <1>9, <2>1, <2>2 DEF InFlight, Live, queue
<1>10. OneLive'
  <2>1. SUFFICES ASSUME ~Retries, NEW p \in InPlay', NEW q \in InPlay', Live(p)', Live(q)', p.id = q.id
                 PROVE  p.n = q.n
    BY DEF OneLive
  <2>2. Live(p) /\ Live(q)
    BY <2>1 DEF Live
  <2>3. CASE p \in InPlay /\ q \in InPlay
    BY <2>1, <2>2, <2>3 DEF QuotaInv, OneLive
  <2>4. CASE p = new \/ q = new
    <3>1. CASE p = q
      BY <3>1
    <3>2. CASE p # q
      <4>1. IsQosPublish(new)
        BY <2>2, <2>4 DEF Live
      <4>2. ~InFlight(t) /\ IsQosPublish(t)
        BY <1>1, <2>1, <4>1 DEF UsesTracker
      <4>3. (p = new /\ q \in InPlay) \/ (q = new /\ p \in InPlay)
        BY <1>6, <2>4, <3>2
      <4> QED
        BY <1>1, <1>9, <2>1, <2>2, <4>2, <4>3
    <3> QED
      BY <3>1, <3>2
  <2> QED
    BY <1>6, <2>1, <2>3, <2>4
<1>11. TrackerBalanced'
  BY <1>1, <1>6 DEF QuotaInv, TrackerBalanced
<1>12. QuotaHeld'
  <2>1. CASE UNCHANGED <<composed, socket, connections>>
    <3>1. \A p \in Sent' : p \in Sent /\ (Live(p)' <=> Live(p))
      BY <1>6 DEF Live
    <3>2. ~Retries /\ connections <= 1 /\ socket = "opening" => tracker = Null /\ ~UsesTracker(new)
      BY <1>1 DEF QuotaInv, QuotaHeld
    <3> QED
      BY <1>6, <2>1, <3>1, <3>2 DEF QuotaInv, QuotaHeld, Live
  <2>2. CASE /\ composed' = <<>> /\ ~UsesTracker(t)
             /\ connections' <= 1 => tracker = Null /\ queue = <<>>
    <3>1. Sent' = {} /\ ToSet(composed') = {}
      BY <1>6, <2>2, ElementsEmpty
    <3>2. connections' <= 1 => InPlay' \subseteq {new} /\ tracker' = Null
      BY <1>6, <2>2, <3>1, ElementsEmpty
    <3> QED
      BY <1>1, <2>2, <3>1, <3>2 DEF QuotaHeld
  <2> QED
    BY <2>1, <2>2
<1> QED
  BY <1>8, <1>10, <1>11, <1>12 DEF QuotaInv

\* A CONNACK installs a new tracker: on the first connection no publish has been
\* composed yet.
LEMMA QuotaConnAck ==
    ASSUME QuotaInv, ConnAck
    PROVE  QuotaInv'
<1>1. /\ UNCHANGED <<queue, composed, packets, delayed, acked, connections, pc>>
      /\ socket = "opening" /\ socket' = "established"
      /\ tracker' = NewTracker(ReceiveMaximum, ReceiveMaximum)
  BY DEF ConnAck, callVars, streamVars, socketVars, reportVars, queue, packets, delayed
<1>2. InPlay' = InPlay /\ Sent' = Sent
  BY <1>1 DEF InPlay, Sent
<1>3. Balanced(tracker')
  BY <1>1, NewTrackerBalanced
<1>4. OneLive' /\ BatchPlaces'
  BY <1>1, <1>2 DEF QuotaInv, OneLive, BatchPlaces, Live
<1>5. ~Retries /\ connections <= 1 => \A p \in Sent : ~IsQosPublish(p)
  BY <1>1 DEF QuotaInv, QuotaHeld, InPlay, UsesTracker
<1>6. QuotaHeld'
  BY <1>1, <1>2, <1>5 DEF QuotaHeld, Live
<1> QED
  BY <1>3, <1>4, <1>6 DEF QuotaInv, TrackerBalanced

\* An acknowledgement frees the identifier; the one publish that held it is
\* acknowledged.
LEMMA QuotaAcknowledge ==
    ASSUME TypedInv, QuotaInv, Acknowledge
    PROVE  QuotaInv'
<1>1. /\ UNCHANGED <<queue, composed, packets, delayed, connections, pc, socket>>
      /\ socket = "established"
  BY DEF Acknowledge, callVars, streamVars, socketVars, queue, packets, delayed
<1>2. PICK p \in ToSet(composed) :
         /\ IsQosPublish(p) /\ OnWire(p) /\ p.n \notin acked
         /\ tracker' = IncrementSendAllowance(tracker, p.id)
         /\ acked' = acked \union
                {q.n : q \in {q \in ToSet(composed) : IsQosPublish(q) /\ q.id = p.id /\ OnWire(q)}}
  BY DEF Acknowledge
<1>3. acked \subseteq acked' /\ p.n \in acked'
  BY <1>2
<1>4. InPlay' = InPlay /\ Sent' = Sent /\ p \in Sent /\ Live(p)
  BY <1>1, <1>2 DEF InPlay, Sent, Live
<1>5. ASSUME NEW q \in InPlay, Live(q)' PROVE Live(q)
  BY <1>3, <1>5 DEF Live
<1>6. BatchPlaces' /\ OneLive'
  BY <1>1, <1>4, <1>5 DEF QuotaInv, BatchPlaces, OneLive, Live
<1>7. Balanced(tracker)
  BY <1>1 DEF QuotaInv, TrackerBalanced
<1>8. /\ Balanced(tracker')
      /\ p.id \in tracker.m_sentPublishIDs =>
            tracker'.m_sentPublishIDs = tracker.m_sentPublishIDs \ {p.id}
  <2>1. CASE p.id \in tracker.m_sentPublishIDs
    BY <1>2, <1>7, <2>1, IncrementBalanced
  <2>2. CASE p.id \notin tracker.m_sentPublishIDs
    BY <1>2, <1>7, <2>2 DEF IncrementSendAllowance
  <2> QED
    BY <2>1, <2>2
<1>9. ASSUME ~Retries, connections <= 1, NEW q \in Sent, Live(q)'
      PROVE  q.id \in tracker'.m_sentPublishIDs
  <2>1. Live(q) /\ q \in InPlay /\ p \in InPlay
    BY <1>4, <1>5, <1>9 DEF InPlay
  <2>2. q.id # p.id
    <3>1. q.n # p.n
      BY <1>3, <1>9 DEF Live
    <3> QED
      BY <1>4, <1>9, <2>1, <3>1 DEF QuotaInv, OneLive
  <2>3. q.id \in tracker.m_sentPublishIDs /\ p.id \in tracker.m_sentPublishIDs
    BY <1>4, <1>9, <2>1 DEF QuotaInv, QuotaHeld
  <2> QED
    BY <1>8, <2>2, <2>3
<1>10. QuotaHeld'
  BY <1>1, <1>4, <1>9 DEF QuotaHeld, Live
<1> QED
  BY <1>6, <1>8, <1>10 DEF QuotaInv, TrackerBalanced

\* A packet composed moves from the queue to the batch.
LEMMA InPlayCompose ==
    ASSUME TypedInv, StreamTyped, ComposePacket
    PROVE  /\ NextComposer \in InPlay /\ InPlay' = InPlay /\ Sent' = Sent \union {NextComposer}
           /\ NextComposer \in Packet /\ (tracker \in Tracker \/ ~UsesTracker(NextComposer))
<1> DEFINE p == NextComposer
<1>1. /\ UNCHANGED <<queue, composed, acked, connections, socket, pc>> /\ pc = "compose"
      /\ Composing /\ CanSend(p) /\ tracker' = TrackerAfterCompose(p)
  BY DEF ComposePacket, socketVars, streamVars, reportVars, Composing, queue
<1>2. p \in Packet /\ delayed' = delayed /\ packets' = Append(packets, p)
  BY ComposePacketChanges
<1>3. /\ p = queue[batch.next] /\ batch.next \in DOMAIN queue
      /\ tracker \in Tracker \/ ~UsesTracker(p)
  BY <1>1, NextComposerTyped
<1>4. p \in ToSet(queue) \ {Null}
  BY <1>2, <1>3, PacketTyped DEF ToSet
<1> HIDE DEF p
<1>5. ToSet(packets') = ToSet(packets) \union {p}
  <2>1. packets \in Seq(Packet)
    BY BatchTyped DEF TypedInv, Typed, packets
  <2> HIDE DEF Packet
  <2> QED
    BY <1>2, <2>1, ElementsAppend
<1>6. InPlay' = InPlay /\ Sent' = Sent \union {p} /\ p \in InPlay
  BY <1>1, <1>2, <1>4, <1>5 DEF InPlay, Sent
<1> QED
  BY <1>2, <1>3, <1>6 DEF p

\* It takes its part of the quota.
LEMMA QuotaCompose ==
    ASSUME TypedInv, StreamTyped, QuotaInv, ComposePacket
    PROVE  QuotaInv'
<1>1. UNCHANGED <<composed, acked, connections, socket, pc>> /\ pc = "compose"
  BY DEF ComposePacket, socketVars, streamVars, reportVars, Composing
<1>2. PICK p \in Packet :
         /\ CanSend(p) /\ tracker' = TrackerAfterCompose(p)
         /\ InPlay' = InPlay /\ Sent' = Sent \union {p} /\ p \in InPlay
         /\ tracker \in Tracker \/ ~UsesTracker(p)
  BY InPlayCompose DEF ComposePacket
<1>3. BatchPlaces' /\ OneLive'
  BY <1>1, <1>2 DEF QuotaInv, BatchPlaces, OneLive, Live
<1>4. CASE Balanced(tracker)
  <2>1. /\ Balanced(tracker')
        /\ tracker.m_sentPublishIDs \subseteq tracker'.m_sentPublishIDs
        /\ IsQosPublish(p) => p.id \in tracker'.m_sentPublishIDs
    BY <1>1, <1>2, <1>4, ComposeBalanced
  <2>2. TrackerBalanced'
    BY <2>1 DEF TrackerBalanced
  <2>3. \A q \in Sent : (Live(q)' <=> Live(q))
    BY <1>1 DEF Live
  <2>4. ~Retries /\ connections <= 1 /\ socket = "opening" =>
           tracker = Null /\ \A q \in InPlay : ~UsesTracker(q)
    BY DEF QuotaInv, QuotaHeld
  <2>5. ~UsesTracker(p) => tracker' = tracker
    BY <1>1, <1>2, TrackerAfterComposeTyped
  <2>6. QuotaHeld'
    BY <1>1, <1>2, <2>1, <2>3, <2>4, <2>5 DEF QuotaInv, QuotaHeld, Live
  <2> QED
    BY <1>3, <2>2, <2>6 DEF QuotaInv
<1>5. CASE ~Balanced(tracker)
  <2>1. tracker = Null /\ ~UsesTracker(p)
    BY <1>2, <1>5 DEF QuotaInv, TrackerBalanced
  <2>2. tracker' = tracker
    BY <1>1, <1>2, <2>1, TrackerAfterComposeTyped
  <2>3. TrackerBalanced'
    BY <1>1, <1>2, <2>2 DEF QuotaInv, TrackerBalanced
  <2>4. ~Live(p)'
    BY <2>1 DEF Live, UsesTracker
  <2>5. QuotaHeld'
    BY <1>1, <1>2, <2>2, <2>4 DEF QuotaInv, QuotaHeld, Live
  <2> QED
    BY <1>3, <2>3, <2>5 DEF QuotaInv
<1> QED
  BY <1>4, <1>5

\* A packet held back moves from the queue to the delayed ones.
LEMMA InPlayDelay ==
    ASSUME TypedInv, DelayPacket
    PROVE  InPlay' \subseteq InPlay /\ Sent' \subseteq Sent
<1> DEFINE p == NextComposer
<1>1. /\ UNCHANGED <<composed, tracker, acked, connections, socket, pc>> /\ pc = "compose"
      /\ Composing
      /\ queue' = [queue EXCEPT ![batch.next] = Null]
      /\ batch' = [batch EXCEPT !.next = @ + 1, !.delayed = Append(@, p)]
  BY DEF DelayPacket, socketVars, streamVars, reportVars, Composing, queue
<1>2. p \in Packet /\ p = queue[batch.next] /\ batch.next \in DOMAIN queue
  BY <1>1, NextComposerTyped
<1>3. p \in ToSet(queue) \ {Null}
  BY <1>2, PacketTyped DEF ToSet
<1> HIDE DEF p
<1>4. batch \in Batch /\ delayed' = Append(delayed, p) /\ packets' = packets
  BY <1>1, <1>2, BatchDelays DEF TypedInv, Typed, delayed, packets
<1>5. ToSet(delayed') = ToSet(delayed) \union {p}
  <2>1. delayed \in Seq(Packet)
    BY <1>4, BatchTyped DEF delayed
  <2> HIDE DEF Packet
  <2> QED
    BY <1>2, <1>4, <2>1, ElementsAppend
<1>6. ToSet(queue') \subseteq ToSet(queue) \union {Null}
  BY <1>1 DEF ToSet
<1>7. InPlay' \subseteq InPlay /\ Sent' \subseteq Sent
  BY <1>1, <1>3, <1>4, <1>5, <1>6 DEF InPlay, Sent
<1> QED
  BY <1>7

\* The end of the composing loop moves packets only.
LEMMA InPlayEnd ==
    ASSUME TypedInv, EndCompose
    PROVE  InPlay' \subseteq InPlay /\ Sent' \subseteq Sent /\ BatchPlaces'
<1>1. /\ UNCHANGED <<tracker, acked, connections, socket>> /\ pc' = "send"
      /\ queue' = delayed /\ packets' = packets /\ delayed' = delayed
      /\ composed' = composed \o packets
  BY DEF EndCompose, QueueAfterCompose, socketVars, streamVars, reportVars, queue, packets, delayed
<1>2. ToSet(composed') = ToSet(composed) \union ToSet(packets)
  <2>1. composed \in Seq(Packet) /\ packets \in Seq(Packet)
    BY BatchTyped DEF TypedInv, Typed, packets
  <2> HIDE DEF Packet
  <2> QED
    BY <1>1, <2>1, ElementsConcat
<1>3. InPlay' \subseteq InPlay /\ Sent' \subseteq Sent /\ BatchPlaces'
  BY <1>1, <1>2 DEF InPlay, Sent, BatchPlaces
<1> QED
  BY <1>3

\* Every step keeps the quota's invariant.
LEMMA QuotaNext == TypedInv /\ StreamTyped /\ Untouched /\ QuotaInv /\ [Next]_vars => QuotaInv'
<1> SUFFICES ASSUME TypedInv, StreamTyped, Untouched, QuotaInv, [Next]_vars PROVE QuotaInv'
  OBVIOUS
<1>1. CASE UNCHANGED vars
  <2>1. /\ UNCHANGED <<queue, composed, packets, delayed, tracker, acked, connections, socket, pc>>
    BY <1>1 DEF vars, callVars, socketVars, streamVars, reportVars, queue, packets, delayed
  <2>2. InPlay' \subseteq InPlay /\ Sent' \subseteq Sent /\ BatchPlaces'
    BY <2>1 DEF InPlay, Sent, QuotaInv, BatchPlaces
  <2> QED
    BY <2>1, <2>2, QuotaShrinks
<1>2. CASE BeginSendNextBatch \/ NothingQueued
  <2>1. /\ UNCHANGED <<queue, composed, tracker, acked, connections, socket>>
        /\ pc \in {"idle", "try"}
        /\ UNCHANGED <<packets, delayed>> \/ batch' = NoBatch
    BY <1>2 DEF BeginSendNextBatch, NothingQueued, ReturnSuccess, socketVars, streamVars, reportVars,
               queue, packets, delayed
  <2> QED
    BY <2>1, QuotaQuiet
<1>3. CASE GracefulClear \/ ClearQueue
  <2>1. /\ pc \in {"idle", "try"} /\ CancelAll
        /\ UNCHANGED <<composed, batch, tracker, acked, connections>>
        /\ socket' = socket \/ socket' = "closed"
    BY <1>3 DEF GracefulClear, ClearQueue, socketVars, streamVars
  <2> QED
    BY <2>1, QuotaCancel
<1>4. CASE BeginCompose
  <2>1. /\ UNCHANGED <<queue, composed, tracker, acked, connections, socket>> /\ pc = "try"
        /\ batch' = NoBatch
    BY <1>4 DEF BeginCompose, socketVars, streamVars, reportVars, queue
  <2> QED
    BY <2>1, QuotaQuiet
<1>5. CASE DelayPacket
  <2>1. UNCHANGED <<tracker, acked, connections, socket, pc>> /\ pc = "compose"
    BY <1>5 DEF DelayPacket, socketVars, reportVars, Composing
  <2>2. BatchPlaces'
    BY <2>1 DEF BatchPlaces
  <2> QED
    BY <1>5, <2>1, <2>2, InPlayDelay, QuotaShrinks
<1>6. CASE EncodeFails
  <2>1. /\ UNCHANGED <<queue, composed, tracker, acked, connections, socket>>
        /\ packets' = <<>> /\ delayed' = <<>>
    BY <1>6 DEF EncodeFails, NoBatch, socketVars, streamVars, reportVars, queue, packets, delayed
  <2>2. InPlay' \subseteq InPlay /\ Sent' \subseteq Sent /\ BatchPlaces'
    BY <2>1, ElementsEmpty DEF InPlay, Sent, BatchPlaces
  <2> QED
    BY <2>1, <2>2, QuotaShrinks
<1>7. CASE ComposePacket
  BY <1>7, QuotaCompose
<1>8. CASE EndCompose
  <2>1. UNCHANGED <<tracker, acked, connections, socket>>
    BY <1>8 DEF EndCompose, socketVars, reportVars
  <2> QED
    BY <1>8, <2>1, InPlayEnd, QuotaShrinks
<1>9. CASE SocketTakes \/ SocketFails
  <2>1. /\ Sending /\ UNCHANGED <<queue, composed, tracker>>
        /\ socket' = socket \/ socket' = "closed"
        /\ \/ pc' = "idle" /\ batch' = NoBatch
           \/ pc' = "crashed" /\ batch' = batch
           \/ pc' = pc /\ \E k \in Int : batch' = [batch EXCEPT !.loops = @ + 1, !.sendResult = k]
    BY <1>9, SendChanges
  <2>2. UNCHANGED <<acked, connections>> /\ pc = "send"
    BY <1>9, <2>1 DEF SocketTakes, SocketFails, Sending
  <2>3. \/ batch' = NoBatch
        \/ UNCHANGED <<packets, delayed>> /\ (pc' = pc \/ pc' = "crashed")
    <3>1. CASE pc' = pc /\ \E k \in Int : batch' = [batch EXCEPT !.loops = @ + 1, !.sendResult = k]
      BY <2>1, <3>1, BatchSends DEF TypedInv, Typed, Sending, packets, delayed
    <3>2. CASE pc' = "crashed" /\ batch' = batch
      BY <3>2 DEF packets, delayed
    <3> QED
      BY <2>1, <3>1, <3>2
  <2> QED
    BY <2>1, <2>2, <2>3, QuotaQuiet
<1>10. CASE EndPartlySent \/ EndSendError
  <2>1. /\ UNCHANGED <<queue, composed, tracker, acked, connections, socket>>
        /\ pc = "send" /\ batch' = NoBatch
    BY <1>10 DEF EndPartlySent, EndSendError, LoopsDone, ReturnSuccess, socketVars, streamVars,
                reportVars, queue
  <2> QED
    BY <2>1, QuotaQuiet
<1>11. ASSUME NEW t \in Templates, QueuePacket(t) PROVE QuotaInv'
  <2>1. t \in Template
    BY TemplatesTyped
  <2>2. /\ pc = "idle" /\ AddToQueue(t) /\ UNCHANGED <<pc, batch, tracker, acked>>
        /\ UNCHANGED <<composed, socket, connections>> /\ (InFlight(t) => Retries)
        /\ tracker # Null \/ t.type = "DISCONNECT"
    BY <1>11 DEF QueuePacket, callVars, socketVars, streamVars, reportVars
  <2>3. tracker # Null \/ ~UsesTracker(t)
    BY <2>2 DEF UsesTracker, IsQosPublish
  <2> QED
    BY <2>1, <2>2, <2>3, QuotaQueue
<1>12. CASE SocketConnects
  <2>1. /\ pc = "idle" /\ AddToQueue(ConnectPacket) /\ UNCHANGED <<pc, batch, tracker, acked>>
        /\ composed' = <<>> /\ socket' = "opening" /\ connections' = connections + 1
    BY <1>12 DEF SocketConnects, callVars, reportVars
  <2>2. ~UsesTracker(ConnectPacket)
    BY TemplatesTyped DEF UsesTracker, IsQosPublish
  <2>3. connections' <= 1 => tracker = Null /\ queue = <<>>
    BY <2>1 DEF Untouched
  <2> QED
    BY <2>1, <2>2, <2>3, TemplatesTyped, QuotaQueue
<1>13. CASE SocketLost
  <2>1. /\ UNCHANGED <<queue, composed, packets, delayed, tracker, acked, connections, pc>>
        /\ socket' = "lost"
    BY <1>13 DEF SocketLost, callVars, streamVars, reportVars, queue, packets, delayed
  <2>2. InPlay' \subseteq InPlay /\ Sent' \subseteq Sent /\ BatchPlaces'
    BY <2>1 DEF InPlay, Sent, QuotaInv, BatchPlaces
  <2> QED
    BY <2>1, <2>2, QuotaShrinks
<1>14. CASE ConnAck
  BY <1>14, QuotaConnAck
<1>15. CASE Acknowledge
  BY <1>15, QuotaAcknowledge
<1> QED
  BY <1>1, <1>2, <1>3, <1>4, <1>5, <1>6, <1>7, <1>8, <1>9, <1>10, <1>11, <1>12, <1>13, <1>14, <1>15
     DEF Next, SendNextBatch, Environment

\* Unless a publish is queued again while it is in flight, the publishes of the
\* first connection that the broker has not acknowledged never exceed its
\* Receive Maximum, whatever order queueing, ticks, losses of bytes, errors and
\* acknowledgements come in.
THEOREM QuotaNeverExceeded ==
    ASSUME Retries = FALSE
    PROVE  Spec => [](connections <= 1 => QuotaRespected)
<1>1. Init => TypedInv /\ StreamTyped /\ Untouched /\ QuotaInv
  BY EmptySeq, TypedInit, UntouchedInit, QuotaInit DEF Init, StreamTyped
<1>2. TypedInv /\ QuotaInv => (connections <= 1 => QuotaRespected)
  BY QuotaCounts
<1> QED
  BY <1>1, <1>2, QuotaNext, TypedNext, StreamTypedNext, UntouchedNext, PTL DEF Spec

-----------------------------------------------------------------------------
(* The type invariant.                                                      *)

\* The packets the queue and its records hold have been queued.
Named ==
    /\ added \in 0 .. MaxPackets
    /\ InPlay \subseteq PacketType
    /\ metas \in Seq(Meta) /\ \A i \in DOMAIN metas : metas[i].packet \in PacketType
    /\ notified \in [Serials -> Nat]

BytesNamed == m_sendBuffer \in Seq(Serials) /\ batch.encoded \in Seq(Serials)

\* Once the failed batches reach their limit each further one takes another
\* connection, which the failing one has used up.
MayFail == isRecoverable /\ (socket # "closed" \/ pc \notin {"idle", "crashed"})

BatchRetriesBounded ==
    m_sendBatchRetryCount >= MaxBatchRetries =>
        /\ m_sendBatchRetryCount < MaxBatchRetries + connections
        /\ MayFail => m_sendBatchRetryCount + 1 < MaxBatchRetries + connections

Counters ==
    /\ connections \in 0 .. MaxConnections
    /\ m_sendBatchRetryCount \in Nat
    /\ m_currentLocalRetry \in 0 .. MaxLocalRetries
    /\ m_startGracefulClear \in BOOLEAN
    /\ socket \in {"closed", "opening", "established", "lost"}
    /\ pc \notin {"idle", "crashed"} => isRecoverable
    /\ BatchRetriesBounded

\* A queued packet and its bytes.
LEMMA QueuedTyped ==
    ASSUME NEW p \in PacketType
    PROVE  p.n \in Serials /\ p.size \in Nat /\ Bytes(p) \in Seq(Serials)
<1>1. PICK t \in Templates \union {ConnectPacket}, i \in Serials : p = Numbered(t, i)
  BY DEF PacketType
<1>2. t \in Template
  BY TemplatesTyped
<1>3. p.n = i /\ p \in Packet
  BY <1>1, <1>2, NumberedPacket DEF Serials
<1>4. p.size \in Nat
  BY <1>3, PacketTyped
<1>5. p.n \in Serials
  BY <1>1, <1>3
<1> QED
  BY <1>4, <1>5 DEF Bytes

\* The remainder of the buffer holds numbers of queued packets.
LEMMA RemainingSerials ==
    ASSUME m_sendBuffer \in Seq(Serials), NEW k \in 0 .. Len(m_sendBuffer)
    PROVE  Remaining(k) \in Seq(Serials)
<1>1. Len(m_sendBuffer) \in Nat
  BY LenProperties
<1>2. \A i \in k + 1 .. Len(m_sendBuffer) : m_sendBuffer[i] \in Serials
  <2>1. \A i \in 1 .. Len(m_sendBuffer) : m_sendBuffer[i] \in Serials
    BY ElementOfSeq
  <2> QED
    BY <1>1, <2>1
<1> QED
  BY <1>1, <1>2, SubSeqProperties DEF Remaining

\* What the sends leave of the records.
LEMMA SendNamed ==
    ASSUME TypedInv, StreamTyped, Named, BytesNamed, SocketTakes \/ SocketFails
    PROVE  /\ m_sendBuffer' \in Seq(Serials)
           /\ metas' \in Seq(Meta) /\ \A i \in DOMAIN metas' : metas'[i].packet \in PacketType
           /\ notified' \in [Serials -> Nat]
           /\ m_startGracefulClear \in BOOLEAN => m_startGracefulClear' \in BOOLEAN
           /\ m_sendBatchRetryCount' \in {m_sendBatchRetryCount, 0}
           /\ m_currentLocalRetry' = m_currentLocalRetry
<1>1. /\ batch \in Batch /\ Len(m_sendBuffer) \in Nat
      /\ metas \in Seq(Meta) /\ notified \in [Serials -> Nat]
  BY LenProperties DEF TypedInv, Typed, StreamTyped, Named
<1>2. ASSUME AllSent
      PROVE  /\ m_sendBuffer' = <<>> /\ metas' = <<>> /\ notified' \in [Serials -> Nat]
             /\ m_startGracefulClear \in BOOLEAN => m_startGracefulClear' \in BOOLEAN
             /\ m_sendBatchRetryCount' = 0 /\ m_currentLocalRetry' = m_currentLocalRetry
  <2>1. notified' \in [Serials -> Nat] /\ metas' = <<>>
    BY <1>1, <1>2, AllSentNotifies
  <2> QED
    BY <1>2, <2>1 DEF AllSent, ReturnSuccess, NotifyPackets, Notify
<1>3. ASSUME NEW k \in 0 .. Len(m_sendBuffer), PartSent(k)
      PROVE  /\ m_sendBuffer' = Remaining(k) /\ metas' \in Seq(Meta) /\ notified' \in [Serials -> Nat]
             /\ \A i \in DOMAIN metas' : \E j \in DOMAIN metas : metas'[i] = metas[j]
             /\ m_startGracefulClear \in BOOLEAN => m_startGracefulClear' \in BOOLEAN
             /\ UNCHANGED retryVars
  <2>1. /\ notified' \in [Serials -> Nat] /\ metas' \in Seq(Meta)
        /\ \A i \in DOMAIN metas' : \E j \in DOMAIN metas : metas'[i] = metas[j]
    BY <1>1, <1>3, PartSentNotifies
  <2>2. /\ m_startGracefulClear \in BOOLEAN => m_startGracefulClear' \in BOOLEAN
        /\ m_sendBuffer' = Remaining(k) /\ UNCHANGED retryVars
    BY <1>3 DEF PartSent, NotifyPackets, Notify
  <2> QED
    BY <2>1, <2>2
<1>4. ASSUME UNCHANGED <<bufferVars, retryVars, m_startGracefulClear, notified>>
      PROVE  /\ m_sendBuffer' = m_sendBuffer /\ metas' = metas /\ notified' = notified
             /\ m_startGracefulClear' = m_startGracefulClear /\ UNCHANGED retryVars
  BY <1>4 DEF bufferVars, metas
<1>5. \/ AllSent \/ (\E k \in 0 .. Len(m_sendBuffer) : PartSent(k))
      \/ UNCHANGED <<bufferVars, retryVars, m_startGracefulClear, notified>>
  <2>1. CASE SocketTakes
    BY <2>1 DEF SocketTakes
  <2>2. CASE SocketFails
    <3>1. PICK e \in SendErrors :
            \/ UNCHANGED <<bufferVars, retryVars, m_startGracefulClear, notified>>
            \/ AllSent
            \/ e \in 0 .. Len(m_sendBuffer) - 1 /\ PartSent(e)
      BY <2>2 DEF SocketFails
    <3>2. e \in 0 .. Len(m_sendBuffer) - 1 => e \in 0 .. Len(m_sendBuffer)
      BY <1>1
    <3> QED
      BY <3>1, <3>2
  <2> QED
    BY <2>1, <2>2
<1>6. <<>> \in Seq(Serials) /\ <<>> \in Seq(Meta) /\ DOMAIN <<>> = {}
  BY EmptySeq
<1>7. CASE AllSent
  BY <1>2, <1>6, <1>7
<1>8. CASE \E k \in 0 .. Len(m_sendBuffer) : PartSent(k)
  <2>1. PICK k \in 0 .. Len(m_sendBuffer) : PartSent(k)
    BY <1>8
  <2>2. m_sendBuffer' \in Seq(Serials)
    BY <1>3, <2>1, RemainingSerials DEF BytesNamed
  <2>3. \A i \in DOMAIN metas' : metas'[i].packet \in PacketType
    BY <1>3, <2>1 DEF Named
  <2> QED
    BY <1>3, <2>1, <2>2, <2>3 DEF retryVars
<1>9. CASE UNCHANGED <<bufferVars, retryVars, m_startGracefulClear, notified>>
  BY <1>1, <1>4, <1>9 DEF Named, BytesNamed, retryVars
<1> QED
  BY <1>5, <1>7, <1>8, <1>9

\* A queued packet has the next serial number.
LEMMA NamedQueue ==
    ASSUME TypedInv, Named, NEW t \in Templates \union {ConnectPacket}, AddToQueue(t),
           UNCHANGED <<batch, metas, notified>>, composed' = composed \/ composed' = <<>>
    PROVE  Named'
<1> DEFINE new == Numbered(t, added + 1)
<1>1. /\ added' = added + 1 /\ added' \in 0 .. MaxPackets /\ added + 1 \in Serials
      /\ queue' = Append(queue, new)
  BY SendQueueAssumption DEF SendQueueAssumption, Named, AddToQueue, queue, Serials
<1>2. new \in PacketType /\ new \in Packet
  BY <1>1, TemplatesTyped, NumberedPacket DEF PacketType, Serials
<1> HIDE DEF new
<1>3. ToSet(queue') = ToSet(queue) \union {new}
  <2>1. queue \in Seq(Packet \union {Null})
    BY DEF TypedInv, Typed
  <2> HIDE DEF Packet
  <2> QED
    BY <1>1, <1>2, <2>1, ElementsAppend
<1>4. ToSet(composed') \subseteq ToSet(composed)
  BY ElementsEmpty
<1>5. InPlay' \subseteq InPlay \union {new}
  BY <1>3, <1>4 DEF InPlay, Sent, delayed, packets
<1> QED
  BY <1>1, <1>2, <1>5 DEF Named

\* Every step keeps the records to queued packets.
LEMMA NamedNext == TypedInv /\ StreamTyped /\ Named /\ BytesNamed /\ [Next]_vars => Named' /\ BytesNamed'
<1> SUFFICES ASSUME TypedInv, StreamTyped, Named, BytesNamed, [Next]_vars PROVE Named' /\ BytesNamed'
  OBVIOUS
<1>1. ASSUME InPlay' \subseteq InPlay, UNCHANGED <<added, metas, notified>> PROVE Named'
  BY <1>1 DEF Named
<1>2. ASSUME m_sendBuffer' = m_sendBuffer, batch'.encoded = batch.encoded \/ batch' = NoBatch
      PROVE  BytesNamed'
  <2>1. NoBatch.encoded \in Seq(Serials)
    BY EmptySeq DEF NoBatch
  <2> QED
    BY <1>2, <2>1 DEF BytesNamed
<1>3. ASSUME UNCHANGED <<queue, composed>>, batch' = batch \/ batch' = NoBatch
      PROVE  InPlay' \subseteq InPlay
  <2>1. CASE batch' = batch
    BY <1>3, <2>1 DEF InPlay, Sent, packets, delayed
  <2>2. CASE batch' = NoBatch
    <3>1. packets' = <<>> /\ delayed' = <<>>
      BY <2>2 DEF NoBatch, packets, delayed
    <3> QED
      BY <1>3, <3>1, ElementsEmpty DEF InPlay, Sent
  <2> QED
    BY <1>3, <2>1, <2>2
<1>4. CASE UNCHANGED vars
  <2>1. /\ UNCHANGED <<queue, composed, batch, added, metas, notified, m_sendBuffer>>
    BY <1>4 DEF vars, bufferVars, callVars, streamVars, reportVars, queue, metas
  <2> QED
    BY <1>1, <1>2, <1>3, <2>1
<1>5. CASE \/ BeginSendNextBatch \/ NothingQueued \/ BeginCompose \/ EncodeFails \/ EndPartlySent
           \/ EndSendError \/ SocketLost \/ ConnAck \/ Acknowledge
  <2>1. /\ UNCHANGED <<queue, composed, added, metas, notified, m_sendBuffer>>
        /\ batch' = batch \/ batch' = NoBatch
    BY <1>5 DEF BeginSendNextBatch, NothingQueued, BeginCompose, EncodeFails, EndPartlySent,
               EndSendError, SocketLost, ConnAck, Acknowledge, ReturnSuccess, bufferVars, callVars,
               streamVars, reportVars, queue, metas
  <2> QED
    BY <1>1, <1>2, <1>3, <2>1
<1>6. CASE GracefulClear \/ ClearQueue
  <2>1. /\ UNCHANGED <<composed, batch, added, metas, notified, m_sendBuffer>> /\ queue' = <<>>
    BY <1>6 DEF GracefulClear, ClearQueue, CancelAll, bufferVars, streamVars, reportVars, queue, metas
  <2>2. InPlay' \subseteq InPlay
    BY <2>1, ElementsEmpty DEF InPlay, Sent, packets, delayed
  <2> QED
    BY <1>1, <1>2, <2>1, <2>2
<1>7. CASE DelayPacket
  <2>1. /\ UNCHANGED <<added, metas, notified, m_sendBuffer>> /\ Composing
        /\ batch' = [batch EXCEPT !.next = @ + 1, !.delayed = Append(@, NextComposer)]
    BY <1>7 DEF DelayPacket, bufferVars, reportVars, metas
  <2>2. batch'.encoded = batch.encoded
    BY <2>1, NextComposerTyped, BatchDelays DEF TypedInv, Typed
  <2> QED
    BY <1>1, <1>2, <1>7, <2>1, <2>2, InPlayDelay
<1>8. CASE ComposePacket
  <2> DEFINE p == NextComposer
  <2>1. /\ UNCHANGED <<added, notified, m_sendBuffer>>
        /\ metas' = IF p.type \in TrackedTypes
                    THEN Append(metas, [endByte |-> EndByte(p), packet |-> p]) ELSE metas
    BY <1>8 DEF ComposePacket, reportVars, metas
  <2>2. p \in InPlay /\ InPlay' = InPlay /\ p \in Packet
    BY <1>8, InPlayCompose
  <2>3. batch'.encoded = batch.encoded \o Bytes(p)
    BY <1>8, ComposePacketChanges
  <2>4. EndByte(p) \in Nat
    <3>1. /\ Len(m_sendBuffer) \in Nat /\ Len(batch.encoded) \in Nat /\ p.size \in Nat
      BY <2>2, LenProperties, PacketTyped DEF BytesNamed
    <3> QED
      BY <3>1 DEF EndByte
  <2> HIDE DEF p
  <2>5. p \in PacketType /\ Bytes(p) \in Seq(Serials)
    BY <2>2, QueuedTyped DEF Named
  <2>6. BytesNamed'
    BY <2>1, <2>3, <2>5, ConcatProperties DEF BytesNamed
  <2>7. metas' \in Seq(Meta) /\ \A i \in DOMAIN metas' : metas'[i].packet \in PacketType
    <3> DEFINE m == [endByte |-> EndByte(p), packet |-> p]
    <3>1. m \in Meta /\ m.packet = p
      BY <2>2, <2>4 DEF Meta
    <3>2. metas \in Seq(Meta) /\ \A i \in DOMAIN metas : metas[i].packet \in PacketType
      BY DEF Named
    <3>3. metas' = metas \/ metas' = Append(metas, m)
      BY <2>1
    <3> HIDE DEF m
    <3>4. CASE metas' = Append(metas, m)
      <4>1. /\ metas' \in Seq(Meta) /\ DOMAIN metas' = 1 .. Len(metas) + 1 /\ DOMAIN metas = 1 .. Len(metas)
            /\ Len(metas) \in Nat /\ metas'[Len(metas) + 1] = m
            /\ \A i \in 1 .. Len(metas) : metas'[i] = metas[i]
        BY <3>1, <3>2, <3>4, AppendProperties, LenProperties
      <4>2. \A i \in DOMAIN metas' : i \in DOMAIN metas \/ i = Len(metas) + 1
        BY <4>1
      <4> QED
        BY <2>5, <3>1, <3>2, <4>1, <4>2
    <3> QED
      BY <3>2, <3>3, <3>4
  <2> QED
    BY <2>1, <2>2, <2>6, <2>7 DEF Named
<1>9. CASE EndCompose
  <2>1. /\ UNCHANGED <<added, metas, notified>> /\ batch' = batch
        /\ m_sendBuffer' = m_sendBuffer \o batch.encoded
    BY <1>9 DEF EndCompose, BufferAfterCompose, reportVars, metas
  <2>2. BytesNamed'
    BY <2>1, ConcatProperties DEF BytesNamed
  <2> QED
    BY <1>1, <1>9, <2>1, <2>2, InPlayEnd
<1>10. CASE SocketTakes \/ SocketFails
  <2>1. /\ Sending /\ UNCHANGED <<queue, composed, added>>
        /\ \/ batch' = NoBatch
           \/ batch' = batch
           \/ \E k \in Int : batch' = [batch EXCEPT !.loops = @ + 1, !.sendResult = k]
    BY <1>10, SendChanges
  <2>2. /\ batch' = NoBatch \/ (packets' = packets /\ delayed' = delayed)
        /\ batch'.encoded = batch.encoded \/ batch' = NoBatch
    BY <2>1, BatchSends DEF TypedInv, Typed, Sending, packets, delayed
  <2>3. InPlay' \subseteq InPlay
    BY <1>3, <2>1, <2>2 DEF InPlay, Sent
  <2>4. BytesNamed'
    <3>1. NoBatch.encoded \in Seq(Serials)
      BY EmptySeq DEF NoBatch
    <3> QED
      BY <1>10, <2>2, <3>1, SendNamed DEF BytesNamed
  <2> QED
    BY <1>10, <2>1, <2>3, <2>4, SendNamed DEF Named
<1>11. CASE (\E t \in Templates : QueuePacket(t)) \/ SocketConnects
  <2>1. /\ UNCHANGED <<batch, metas, notified, m_sendBuffer>>
        /\ composed' = composed \/ composed' = <<>>
        /\ \E t \in Templates \union {ConnectPacket} : AddToQueue(t)
    BY <1>11 DEF QueuePacket, SocketConnects, bufferVars, callVars, streamVars, reportVars, metas
  <2> QED
    BY <1>2, <2>1, NamedQueue
<1> QED
  BY <1>4, <1>5, <1>6, <1>7, <1>8, <1>9, <1>10, <1>11 DEF Next, SendNextBatch, Environment

\* The counters start in their bounds.
LEMMA CountersInit == Init => Counters
<1> SUFFICES ASSUME Init PROVE Counters
  OBVIOUS
<1>1. MaxBatchRetries \in Nat \ {0} /\ MaxConnections \in Nat /\ MaxLocalRetries \in Nat
  BY SendQueueAssumption DEF SendQueueAssumption
<1>2. /\ connections = 0 /\ m_sendBatchRetryCount = 0 /\ m_currentLocalRetry = 0
      /\ m_startGracefulClear = FALSE /\ socket = "closed" /\ pc = "idle"
  BY DEF Init
<1>3. ~(m_sendBatchRetryCount >= MaxBatchRetries)
  BY <1>1, <1>2
<1>4. BatchRetriesBounded
  BY <1>3 DEF BatchRetriesBounded
<1>5. connections \in 0 .. MaxConnections /\ m_sendBatchRetryCount \in Nat
      /\ m_currentLocalRetry \in 0 .. MaxLocalRetries
  BY <1>1, <1>2
<1> QED
  BY <1>2, <1>4, <1>5 DEF Counters

\* Steps that fail no batch and end with no connection more.
LEMMA CountersQuiet ==
    ASSUME Counters, UNCHANGED <<connections, isRecoverable>>,
           m_sendBatchRetryCount' \in {m_sendBatchRetryCount, 0},
           m_currentLocalRetry' \in 0 .. MaxLocalRetries, m_startGracefulClear' \in BOOLEAN,
           \/ socket' = socket \/ socket' = "closed"
           \/ socket = "opening" /\ socket' = "established"
           \/ socket # "closed" /\ socket' = "lost",
           \/ pc' \in {"idle", "crashed"} \/ pc \notin {"idle", "crashed"}
           \/ pc = "idle" /\ isRecoverable /\ socket # "closed"
    PROVE  Counters'
<1>1. MaxBatchRetries \in Nat \ {0} /\ connections \in Nat /\ m_sendBatchRetryCount \in Nat
  BY SendQueueAssumption DEF SendQueueAssumption, Counters
<1>2. MayFail' => MayFail
  BY DEF MayFail, Counters
<1>3. BatchRetriesBounded'
  <2>1. CASE m_sendBatchRetryCount' = 0
    <3>1. ~(m_sendBatchRetryCount' >= MaxBatchRetries)
      BY <1>1, <2>1
    <3> QED
      BY <3>1 DEF BatchRetriesBounded
  <2>2. CASE m_sendBatchRetryCount' = m_sendBatchRetryCount
    BY <1>2, <2>2, Zenon DEF Counters, BatchRetriesBounded
  <2> QED
    BY <2>1, <2>2
<1>4. pc' \notin {"idle", "crashed"} => isRecoverable'
  BY DEF Counters
<1> QED
  BY <1>1, <1>3, <1>4 DEF Counters

\* Every step keeps the counters in their bounds.
LEMMA CountersNext ==
    TypedInv /\ StreamTyped /\ Untouched /\ Named /\ BytesNamed /\ Counters /\ [Next]_vars => Counters'
<1> SUFFICES ASSUME TypedInv, StreamTyped, Untouched, Named, BytesNamed, Counters, [Next]_vars
             PROVE  Counters'
  OBVIOUS
<1>1. /\ MaxBatchRetries \in Nat \ {0} /\ MaxLocalRetries \in Nat \ {0} /\ MaxConnections \in Nat
      /\ connections \in Nat /\ m_sendBatchRetryCount \in Nat
      /\ m_currentLocalRetry \in 0 .. MaxLocalRetries /\ m_startGracefulClear \in BOOLEAN
  BY SendQueueAssumption DEF SendQueueAssumption, Counters
<1>2. CASE UNCHANGED vars
  BY <1>2 DEF vars, retryVars, callVars, socketVars, Counters, BatchRetriesBounded, MayFail
<1>3. CASE BeginSendNextBatch
  <2>1. /\ UNCHANGED <<connections, isRecoverable, m_sendBatchRetryCount, m_startGracefulClear, socket>>
        /\ pc = "idle" /\ isRecoverable /\ socket # "closed" /\ m_currentLocalRetry' = 1
    BY <1>3 DEF BeginSendNextBatch, socketVars
  <2> QED
    BY <1>1, <2>1, CountersQuiet
<1>4. CASE NothingQueued \/ EndPartlySent
  <2>1. /\ UNCHANGED <<connections, isRecoverable, m_currentLocalRetry, m_startGracefulClear, socket>>
        /\ m_sendBatchRetryCount' = 0 /\ pc' = "idle"
    BY <1>4 DEF NothingQueued, EndPartlySent, ReturnSuccess, socketVars
  <2> QED
    BY <1>1, <2>1, CountersQuiet
<1>5. CASE GracefulClear
  <2>1. /\ UNCHANGED <<connections, isRecoverable, m_sendBatchRetryCount, m_currentLocalRetry, socket>>
        /\ m_startGracefulClear' = FALSE /\ pc' \in {"idle", "crashed"}
    BY <1>5 DEF GracefulClear, CancelAll, retryVars, socketVars
  <2> QED
    BY <1>1, <2>1, CountersQuiet
<1>6. CASE BeginCompose \/ DelayPacket \/ ComposePacket \/ EndCompose
  <2>1. /\ UNCHANGED <<connections, isRecoverable, m_sendBatchRetryCount, m_currentLocalRetry,
                       m_startGracefulClear, socket>>
        /\ pc \notin {"idle", "crashed"}
    BY <1>6 DEF BeginCompose, DelayPacket, ComposePacket, EndCompose, Composing, retryVars, socketVars
  <2> QED
    BY <1>1, <2>1, CountersQuiet
<1>7. CASE EncodeFails
  <2>1. /\ UNCHANGED <<connections, m_currentLocalRetry, m_startGracefulClear, socket>>
        /\ m_sendBatchRetryCount' = 0 /\ isRecoverable' = FALSE /\ pc' = "idle"
    BY <1>7 DEF EncodeFails, socketVars
  <2>2. BatchRetriesBounded'
    BY <1>1, <2>1 DEF BatchRetriesBounded
  <2> QED
    BY <1>1, <2>1, <2>2 DEF Counters
<1>8. CASE SocketTakes \/ SocketFails
  <2>1. /\ Sending /\ isRecoverable' = isRecoverable
        /\ socket' = socket \/ socket' = "closed"
    BY <1>8, SendChanges
  <2>2. connections' = connections /\ pc = "send"
    BY <1>8, <2>1 DEF SocketTakes, SocketFails, Sending
  <2>3. /\ m_startGracefulClear' \in BOOLEAN /\ m_currentLocalRetry' = m_currentLocalRetry
        /\ m_sendBatchRetryCount' \in {m_sendBatchRetryCount, 0}
    BY <1>1, <1>8, SendNamed
  <2> QED
    BY <1>1, <2>1, <2>2, <2>3, CountersQuiet
<1>9. CASE EndSendError
  <2>1. /\ UNCHANGED <<connections, socket>> /\ pc = "send"
        /\ \/ /\ m_startGracefulClear' = FALSE /\ pc' = "idle"
              /\ UNCHANGED <<m_sendBatchRetryCount, m_currentLocalRetry, isRecoverable>>
           \/ /\ m_currentLocalRetry < MaxLocalRetries
              /\ m_currentLocalRetry' = m_currentLocalRetry + 1 /\ pc' = "try"
              /\ UNCHANGED <<m_sendBatchRetryCount, m_startGracefulClear, isRecoverable>>
           \/ /\ m_sendBatchRetryCount' = m_sendBatchRetryCount + 1
              /\ isRecoverable' = (m_sendBatchRetryCount' < MaxBatchRetries)
              /\ pc' = "idle"
              /\ UNCHANGED <<m_currentLocalRetry, m_startGracefulClear>>
    BY <1>9 DEF EndSendError, LoopsDone, retryVars, socketVars
  <2>2. isRecoverable /\ connections > 0
    BY <1>1, <2>1 DEF Counters, Untouched
  <2>3. CASE m_startGracefulClear' = FALSE /\ pc' = "idle"
             /\ UNCHANGED <<m_sendBatchRetryCount, m_currentLocalRetry, isRecoverable>>
    BY <1>1, <2>1, <2>3, CountersQuiet
  <2>4. CASE /\ m_currentLocalRetry < MaxLocalRetries
             /\ m_currentLocalRetry' = m_currentLocalRetry + 1 /\ pc' = "try"
             /\ UNCHANGED <<m_sendBatchRetryCount, m_startGracefulClear, isRecoverable>>
    <3>1. m_currentLocalRetry' \in 0 .. MaxLocalRetries
      BY <1>1, <2>4
    <3> QED
      BY <1>1, <2>1, <2>4, <3>1, CountersQuiet
  <2>5. CASE /\ m_sendBatchRetryCount' = m_sendBatchRetryCount + 1
             /\ isRecoverable' = (m_sendBatchRetryCount' < MaxBatchRetries)
             /\ pc' = "idle"
             /\ UNCHANGED <<m_currentLocalRetry, m_startGracefulClear>>
    <3>1. MayFail
      BY <2>1, <2>2 DEF MayFail
    <3>2. m_sendBatchRetryCount >= MaxBatchRetries =>
              m_sendBatchRetryCount + 1 < MaxBatchRetries + connections
      BY <3>1 DEF Counters, BatchRetriesBounded
    <3>3. m_sendBatchRetryCount' < MaxBatchRetries + connections
      BY <1>1, <2>2, <2>5, <3>2
    <3>4. m_sendBatchRetryCount' >= MaxBatchRetries => ~(m_sendBatchRetryCount' < MaxBatchRetries)
      BY <1>1, <2>5
    <3>5. m_sendBatchRetryCount' >= MaxBatchRetries => ~MayFail'
      BY <2>5, <3>4 DEF MayFail
    <3>6. BatchRetriesBounded'
      BY <2>1, <3>3, <3>5 DEF BatchRetriesBounded
    <3>7. /\ m_sendBatchRetryCount' \in Nat /\ pc' = "idle"
          /\ UNCHANGED <<connections, socket, m_currentLocalRetry, m_startGracefulClear>>
      BY <1>1, <2>1, <2>5
    <3> QED
      BY <3>6, <3>7 DEF Counters
  <2> QED
    BY <2>1, <2>3, <2>4, <2>5
<1>10. CASE ClearQueue
  <2>1. /\ UNCHANGED <<connections, m_sendBatchRetryCount, m_currentLocalRetry, m_startGracefulClear>>
        /\ socket' = "closed" /\ pc' \in {"idle", "crashed"} /\ isRecoverable' = TRUE /\ pc = "idle"
    BY <1>10 DEF ClearQueue, CancelAll, retryVars
  <2>2. ~MayFail'
    BY <2>1 DEF MayFail
  <2>3. BatchRetriesBounded'
    BY <2>1, <2>2 DEF Counters, BatchRetriesBounded
  <2> QED
    BY <1>1, <2>1, <2>3 DEF Counters
<1>11. CASE SocketConnects
  <2>1. /\ UNCHANGED <<m_sendBatchRetryCount, m_currentLocalRetry, m_startGracefulClear, pc, isRecoverable>>
        /\ pc = "idle" /\ socket' = "opening"
        /\ connections < MaxConnections /\ connections' = connections + 1
    BY <1>11 DEF SocketConnects, retryVars, callVars
  <2>2. connections' \in 0 .. MaxConnections
    BY <1>1, <2>1
  <2>3. BatchRetriesBounded'
    BY <1>1, <2>1, <2>2 DEF Counters, BatchRetriesBounded
  <2> QED
    BY <1>1, <2>1, <2>2, <2>3 DEF Counters
<1>12. CASE SocketLost
  <2>1. /\ UNCHANGED <<connections, isRecoverable, m_sendBatchRetryCount, m_currentLocalRetry,
                       m_startGracefulClear, pc>> /\ socket # "closed" /\ socket' = "lost"
    BY <1>12 DEF SocketLost, retryVars, callVars
  <2> QED
    BY <1>1, <2>1, CountersQuiet
<1>13. CASE (\E t \in Templates : QueuePacket(t)) \/ ConnAck \/ Acknowledge
  <2>1. /\ UNCHANGED <<connections, isRecoverable, m_sendBatchRetryCount, m_currentLocalRetry,
                       m_startGracefulClear, pc>>
        /\ pc = "idle" /\ (socket' = socket \/ (socket = "opening" /\ socket' = "established"))
    BY <1>13 DEF QueuePacket, ConnAck, Acknowledge, retryVars, callVars, socketVars
  <2> QED
    BY <1>1, <2>1, CountersQuiet
<1> QED
  BY <1>2, <1>3, <1>4, <1>5, <1>6, <1>7, <1>8, <1>9, <1>10, <1>11, <1>12, <1>13
     DEF Next, SendNextBatch, Environment

\* What the failed batches can come to.
LEMMA BatchRetryLimit ==
    ASSUME NEW a \in Nat \ {0}, NEW b \in Nat, NEW c \in Nat, c < a + b \/ c < a
    PROVE  c \in 0 .. a * (b + 1)
<1>1. a * (b + 1) \in Nat /\ (a - 1) * b \in Nat
  OBVIOUS
<1>2. a * (b + 1) = (a - 1) * b + a + b
  BY <1>1
<1> QED
  BY <1>1, <1>2

\* The invariants imply the type invariant.
LEMMA TypesImply ==
    ASSUME TypedInv, StreamTyped, QuotaInv, Named, BytesNamed, Counters
    PROVE  TypeOK
<1>1. ToSet(queue) \subseteq PacketType \union {Null}
  BY DEF Named, InPlay
<1>2. ToSet(m_sendBuffer) \subseteq Serials
  BY LenProperties, ElementOfSeq DEF BytesNamed, ToSet
<1>3. \A m \in ToSet(metas) : m.endByte \in Nat /\ m.packet \in PacketType
  BY MetasTyped DEF Named, ToSet
<1>4. m_sendBatchRetryCount \in 0 .. MaxBatchRetries * (MaxConnections + 1)
  <2>1. /\ MaxBatchRetries \in Nat \ {0} /\ MaxConnections \in Nat /\ m_sendBatchRetryCount \in Nat
        /\ connections \in 0 .. MaxConnections
    BY SendQueueAssumption DEF SendQueueAssumption, Counters
  <2>2. m_sendBatchRetryCount < MaxBatchRetries + MaxConnections \/ m_sendBatchRetryCount < MaxBatchRetries
    BY <2>1 DEF Counters, BatchRetriesBounded
  <2> QED
    BY <2>1, <2>2, BatchRetryLimit
<1>5. tracker # Null =>
        /\ tracker.m_sendAllowance + Cardinality(tracker.m_sentPublishIDs) = ReceiveMaximum
        /\ tracker.m_receiveAllowance + Cardinality(tracker.m_receivedPublishIDs) = ReceiveMaximum
  <2>1. SUFFICES ASSUME Balanced(tracker)
                 PROVE  /\ tracker.m_sendAllowance + Cardinality(tracker.m_sentPublishIDs) = ReceiveMaximum
                        /\ tracker.m_receiveAllowance + Cardinality(tracker.m_receivedPublishIDs) = ReceiveMaximum
    BY DEF QuotaInv, TrackerBalanced
  <2>2. Cardinality({}) = 0
    BY FS_EmptySet
  <2> QED
    BY <2>1, <2>2, SendQueueAssumption DEF Balanced, SendQueueAssumption
<1>6. batch.loops \in 0 .. SendAttempts
  BY BatchTyped DEF TypedInv, Typed
<1> QED
  BY <1>1, <1>2, <1>3, <1>4, <1>5, <1>6 DEF TypeOK, TypedInv, Typed, Named, Counters, queue, metas

\* The initial queue, records and buffer are empty.
LEMMA NamedInit == Init => Named /\ BytesNamed
<1> SUFFICES ASSUME Init PROVE Named /\ BytesNamed
  OBVIOUS
<1>1. /\ queue = <<>> /\ composed = <<>> /\ packets = <<>> /\ delayed = <<>> /\ metas = <<>>
      /\ m_sendBuffer = <<>> /\ batch.encoded = <<>> /\ added = 0
      /\ notified = [n \in Serials |-> 0]
  BY DEF Init, queue, packets, delayed, metas, NoBatch
<1>2. InPlay = {}
  BY <1>1, ElementsEmpty DEF InPlay, Sent
<1>3. added \in 0 .. MaxPackets
  BY <1>1, SendQueueAssumption DEF SendQueueAssumption
<1> QED
  BY <1>1, <1>2, <1>3, EmptySeq DEF Named, BytesNamed

\* Every variable keeps its type: the queue, the records and the buffer hold
\* packets that were queued, the failed batches are counted no further than the
\* connections allow, and the tracker's allowances and identifiers balance.
THEOREM TypeCorrect == Spec => []TypeOK
<1>1. Init => TypedInv /\ StreamTyped /\ Untouched /\ QuotaInv /\ Named /\ BytesNamed /\ Counters
  BY EmptySeq, TypedInit, UntouchedInit, QuotaInit, NamedInit, CountersInit DEF Init, StreamTyped
<1>2. TypedInv /\ StreamTyped /\ QuotaInv /\ Named /\ BytesNamed /\ Counters => TypeOK
  BY TypesImply
<1> QED
  BY <1>1, <1>2, TypedNext, StreamTypedNext, UntouchedNext, QuotaNext, NamedNext, CountersNext, PTL
     DEF Spec

-----------------------------------------------------------------------------
(* Each tracked packet is reported once.                                    *)

\* No send takes a part of the buffer, and no error is taken for one.
WholeSends == PartialSends = FALSE /\ \A e \in SendErrors : e <= 0

Reported == {n \in Serials : notified[n] > 0}
Recorded == {metas[i].packet.n : i \in DOMAIN metas}
PingKept == {n \in {batch.ping} : pc \in {"compose", "send"} /\ n # 0}
Mentioned == Recorded \union PingKept \union Reported \union InBatch \union InComposed

\* A packet that waits is not mentioned yet, unless the batch with it has just
\* failed and the queue is about to be cleared; a packet is recorded once, and
\* no longer when it is reported.
ReportedOnce ==
    /\ metas \in Seq(Meta) /\ notified \in [Serials -> 0 .. 1]
    /\ \A i, j \in DOMAIN metas : metas[i].packet.n = metas[j].packet.n => i = j
    /\ Recorded \intersect PingKept = {}
    /\ (Recorded \union PingKept) \intersect Reported = {}
    /\ Mentioned \subseteq 0 .. added
    /\ Waiting \intersect Held = {}
    /\ isRecoverable => (Waiting \union Held) \intersect Mentioned = {}
    /\ pc \in {"try", "compose", "send"} => isRecoverable

\* The end of a packet is behind its first byte; a tracked packet composed is
\* recorded until it is reported, and as long as it is recorded its bytes wait.
ReportedInTime ==
    /\ \A i \in DOMAIN metas : metas[i].endByte > 0
    /\ PingKept # {} => batch.pingPacketLastByte > 0
    /\ \A i \in DOMAIN composed :
          /\ composed[i].type \in TrackedTypes => composed[i].n \in Recorded \union Reported
          /\ composed[i].n \in Recorded => composed[i].n \in ToSet(m_sendBuffer)
    /\ pc = "compose" =>
          \A i \in DOMAIN packets :
             /\ packets[i].type \in TrackedTypes => packets[i].n \in Recorded
             /\ packets[i].n \in ToSet(batch.encoded)

\* A value that a sequence holds once at most occurs once or not at all.
LEMMA OccurrencesOnce ==
    ASSUME NEW s, \A i, j \in DOMAIN s : s[i] = s[j] => i = j, NEW x
    PROVE  Occurrences(x, s) = IF \E i \in DOMAIN s : s[i] = x THEN 1 ELSE 0
<1> DEFINE I == {i \in DOMAIN s : s[i] = x}
           b == \E i \in DOMAIN s : s[i] = x
<1>1. /\ b \in BOOLEAN /\ (b => \E i \in I : TRUE) /\ (~b => I = {})
      /\ \A i, j \in I : i = j
  OBVIOUS
<1> HIDE DEF I, b
<1>2. Cardinality(I) = IF b THEN 1 ELSE 0
  BY ONLY <1>1, OnePlace
<1> QED
  BY <1>2 DEF Occurrences, I, b

\* Everything was taken: each recorded packet is reported, once.
LEMMA AllSentReports ==
    ASSUME TypedInv, ReportedOnce, pc = "send", AllSent
    PROVE  /\ metas' = <<>> /\ m_sendBuffer' = <<>>
           /\ notified' = [n \in Serials |->
                             notified[n] + IF n \in Recorded \union PingKept THEN 1 ELSE 0]
<1> DEFINE ping == IF batch.ping # 0 THEN <<batch.ping>> ELSE <<>>
           ns == [i \in DOMAIN metas |-> metas[i].packet.n]
           all == ping \o ns
           m == Len(metas)
           k == Len(ping)
<1>1. metas' = <<>> /\ m_sendBuffer' = <<>> /\ notified' = [n \in Serials |-> notified[n] + Occurrences(n, all)]
  BY DEF AllSent, NotifyPackets, Notify, metas
<1>2. DOMAIN metas = 1 .. m /\ m \in Nat /\ \A i \in 1 .. m : metas[i].packet.n \in Nat
  BY MetasTyped DEF ReportedOnce
<1>3. ns \in Seq(Nat) /\ Len(ns) = m /\ \A i \in 1 .. m : ns[i] = metas[i].packet.n
  BY <1>2
<1>4. /\ ping \in Seq(Nat) /\ k \in 0 .. 1 /\ (k = 1 <=> batch.ping # 0)
      /\ \A i \in 1 .. k : ping[i] = batch.ping
  BY BatchTyped, EmptySeq DEF TypedInv, Typed
<1> HIDE DEF ping, ns
<1>5. /\ all \in Seq(Nat) /\ Len(all) = k + m
      /\ \A i \in 1 .. k + m : all[i] = IF i <= k THEN ping[i] ELSE ns[i - k]
  <2>1. /\ ping \o ns \in Seq(Nat) /\ Len(ping \o ns) = Len(ping) + Len(ns)
        /\ \A i \in 1 .. Len(ping) + Len(ns) :
              (ping \o ns)[i] = IF i <= Len(ping) THEN ping[i] ELSE ns[i - Len(ping)]
    BY <1>3, <1>4, ConcatProperties
  <2> QED
    BY <1>3, <2>1
<1> HIDE DEF all, m, k
<1>6. DOMAIN all = 1 .. k + m
  BY <1>5, LenProperties
<1>7. \A i \in 1 .. k + m : /\ i <= k => i \in 1 .. k /\ k = 1 /\ i = 1
                            /\ ~(i <= k) => i - k \in 1 .. m
  BY <1>2, <1>4
<1>8. \A i \in 1 .. k + m : all[i] = IF i <= k THEN batch.ping ELSE metas[i - k].packet.n
  BY <1>3, <1>4, <1>5, <1>7
<1>9. /\ PingKept = IF k = 1 THEN {batch.ping} ELSE {}
      /\ Recorded = {metas[i].packet.n : i \in 1 .. m}
  BY <1>2, <1>4 DEF PingKept, Recorded
<1>10. \A i \in 1 .. m : metas[i].packet.n \in Recorded
  BY <1>9
<1>11. k = 1 => batch.ping \notin Recorded
  BY <1>9 DEF ReportedOnce
<1>12. ASSUME NEW i \in DOMAIN all, NEW j \in DOMAIN all, all[i] = all[j] PROVE i = j
  <2>1. i \in 1 .. k + m /\ j \in 1 .. k + m
    BY <1>6
  <2>2. CASE i <= k /\ j <= k
    BY <1>7, <2>1, <2>2
  <2>3. CASE i <= k /\ ~(j <= k)
    BY <1>7, <1>8, <1>10, <1>11, <1>12, <2>1, <2>3
  <2>4. CASE ~(i <= k) /\ j <= k
    BY <1>7, <1>8, <1>10, <1>11, <1>12, <2>1, <2>4
  <2>5. CASE ~(i <= k) /\ ~(j <= k)
    <3>1. i - k \in 1 .. m /\ j - k \in 1 .. m /\ metas[i - k].packet.n = metas[j - k].packet.n
      BY <1>7, <1>8, <1>12, <2>1, <2>5
    <3>2. i - k = j - k
      BY <1>2, <3>1 DEF ReportedOnce
    <3> QED
      BY <1>4, <2>1, <3>2
  <2> QED
    BY <2>2, <2>3, <2>4, <2>5
<1>13. ASSUME NEW n
       PROVE  (\E i \in DOMAIN all : all[i] = n) <=> n \in Recorded \union PingKept
  <2>1. ASSUME NEW i \in DOMAIN all, all[i] = n PROVE n \in Recorded \union PingKept
    BY <1>6, <1>7, <1>8, <1>9, <1>10, <2>1
  <2>2. ASSUME n \in Recorded PROVE \E i \in DOMAIN all : all[i] = n
    <3>1. PICK i \in 1 .. m : metas[i].packet.n = n
      BY <1>9, <2>2
    <3>2. i + k \in 1 .. k + m /\ ~(i + k <= k) /\ (i + k) - k = i
      BY <1>2, <1>4
    <3> QED
      BY <1>6, <1>8, <3>1, <3>2
  <2>3. ASSUME n \in PingKept PROVE \E i \in DOMAIN all : all[i] = n
    <3>1. k = 1 /\ n = batch.ping
      BY <1>9, <2>3
    <3>2. 1 \in 1 .. k + m /\ 1 <= k
      BY <1>2, <3>1
    <3> QED
      BY <1>6, <1>8, <3>1, <3>2
  <2> QED
    BY <2>1, <2>2, <2>3
<1>14. \A n \in Serials : Occurrences(n, all) = IF n \in Recorded \union PingKept THEN 1 ELSE 0
  BY <1>12, <1>13, OccurrencesOnce
<1> QED
  BY <1>1, <1>14

\* No byte was taken: nothing changes but the attempts.
LEMMA NoneSentReports ==
    ASSUME TypedInv, StreamTyped, ReportedOnce, ReportedInTime, pc = "send", PartSent(0)
    PROVE  UNCHANGED <<m_sendBuffer, metas, notified>>
<1> DEFINE W == MetadataWalk(metas, 0)
           ping == IF 0 >= batch.pingPacketLastByte THEN <<batch.ping>> ELSE <<>>
           ns == [i \in DOMAIN W.calls |-> W.calls[i].packet.n]
<1>1. /\ m_sendBuffer' = Remaining(0)
      /\ IF batch.ping # 0
         THEN /\ notified' = [n \in Serials |-> notified[n] + Occurrences(n, ping \o ns)]
              /\ metas' = SubSeq(W.slots, 1, W.size)
         ELSE UNCHANGED <<notified, metas>>
  BY DEF PartSent, NotifyPackets, Notify, metas
<1>2. Remaining(0) = m_sendBuffer
  BY SubSeqFull DEF Remaining, StreamTyped
<1>3. CASE batch.ping # 0
  <2>1. batch.pingPacketLastByte > 0
    BY <1>3 DEF PingKept, ReportedInTime
  <2>2. DOMAIN metas = 1 .. Len(metas) /\ Len(metas) \in Nat /\ \A i \in DOMAIN metas : metas[i].endByte \in Nat
    BY MetasTyped DEF ReportedOnce
  <2>3. \A i \in 1 .. Len(metas) : ~(0 >= metas[i].endByte)
    BY <2>2 DEF ReportedInTime
  <2>4. W = [slots |-> metas, size |-> Len(metas), calls |-> <<>>]
    BY <2>2, <2>3, WalkIdle
  <2>5. metas' = metas
    <3>1. SubSeq(metas, 1, Len(metas)) = metas
      BY SubSeqFull DEF ReportedOnce
    <3> QED
      BY <1>1, <1>3, <2>4, <3>1
  <2>6. ping \o ns = <<>>
    <3>1. ping = <<>> /\ W.calls = <<>>
      <4>1. batch.pingPacketLastByte \in Nat
        BY BatchTyped DEF TypedInv, Typed
      <4>2. ~(0 >= batch.pingPacketLastByte)
        BY <2>1, <4>1
      <4>3. ping = <<>>
        BY <4>2
      <4> HIDE DEF W
      <4>4. W.calls = <<>>
        BY <2>4
      <4> QED
        BY <4>3, <4>4
    <3>2. ns = <<>>
      <4>1. ns = [i \in 1 .. 0 |-> W.calls[i].packet.n]
        BY <3>1
      <4>2. ns \in Seq(Nat) /\ Len(ns) = 0
        BY <4>1
      <4> QED
        BY <4>2, EmptySeq
    <3>3. <<>> \o <<>> = <<>>
      OBVIOUS
    <3> HIDE DEF ping, ns
    <3> QED
      BY <3>1, <3>2, <3>3
  <2>7. \A n : Occurrences(n, <<>>) = 0
    BY OccurrencesOnce
  <2>8. notified' = [n \in Serials |-> notified[n]]
    <3>1. notified' = [n \in Serials |-> notified[n] + Occurrences(n, <<>>)]
      BY <1>1, <1>3, <2>6
    <3>2. \A n \in Serials : notified[n] + 0 = notified[n]
      BY DEF ReportedOnce
    <3> QED
      BY <2>7, <3>1, <3>2
  <2> QED
    BY <1>1, <1>2, <2>5, <2>8 DEF ReportedOnce
<1> QED
  BY <1>1, <1>2, <1>3

\* A send takes the whole buffer or leaves everything as it was.
LEMMA WholeSendReports ==
    ASSUME WholeSends, TypedInv, StreamTyped, ReportedOnce, ReportedInTime,
           SocketTakes \/ SocketFails
    PROVE  /\ pc = "send" /\ UNCHANGED <<queue, composed, added, isRecoverable>>
           /\ \/ AllSent /\ pc' = "idle"
              \/ /\ UNCHANGED <<m_sendBuffer, metas, notified>> /\ pc' = pc
                 /\ batch'.ping = batch.ping
                 /\ batch'.pingPacketLastByte = batch.pingPacketLastByte
<1>1. /\ pc = "send" /\ UNCHANGED <<queue, composed, added, isRecoverable>>
      /\ batch \in Batch /\ batch.loops < SendAttempts
  BY SendChanges DEF Sending, TypedInv, Typed
<1>2. Len(m_sendBuffer) \in Nat
  BY LenProperties DEF StreamTyped
<1>3. CASE SocketTakes
  <2>1. PICK k \in 0 .. Len(m_sendBuffer) :
           /\ m_sendBuffer = <<>> \/ k = Len(m_sendBuffer) \/ PartialSends
           /\ IF k = Len(m_sendBuffer) THEN AllSent ELSE PartSent(k)
    BY <1>3 DEF SocketTakes
  <2>2. m_sendBuffer = <<>> => k = Len(m_sendBuffer)
    BY <1>2, EmptySeq
  <2>3. AllSent
    BY <2>1, <2>2 DEF WholeSends
  <2> QED
    BY <1>1, <2>3, AllSentChanges
<1>4. CASE SocketFails
  <2>1. Len(m_sendBuffer) > 0
    <3>1. Len(m_sendBuffer) # 0
      BY <1>4, EmptySeq DEF SocketFails, StreamTyped
    <3> QED
      BY <1>2, <3>1
  <2>2. PICK e \in SendErrors :
          \/ /\ UNCHANGED <<bufferVars, notified, pc>>
             /\ batch' = [batch EXCEPT !.loops = @ + 1, !.sendResult = e]
          \/ e = Len(m_sendBuffer)
          \/ e \in 0 .. Len(m_sendBuffer) - 1 /\ PartSent(e)
          \/ e > Len(m_sendBuffer)
    BY <1>4 DEF SocketFails
  <2>3. e \in Int /\ e <= 0
    BY SendQueueAssumption DEF SendQueueAssumption, WholeSends
  <2>4. ~(e = Len(m_sendBuffer)) /\ ~(e > Len(m_sendBuffer))
    BY <1>2, <2>1, <2>3
  <2>5. CASE e \in 0 .. Len(m_sendBuffer) - 1 /\ PartSent(e)
    <3>1. e = 0
      BY <1>2, <2>3, <2>5
    <3>2. UNCHANGED <<m_sendBuffer, metas, notified>>
      BY <1>1, <2>5, <3>1, NoneSentReports
    <3>3. pc' = pc /\ batch' = [batch EXCEPT !.loops = @ + 1, !.sendResult = e]
      BY <2>5, PartSentChanges
    <3> QED
      BY <1>1, <2>3, <3>2, <3>3, BatchSends
  <2>6. CASE /\ UNCHANGED <<bufferVars, notified, pc>>
             /\ batch' = [batch EXCEPT !.loops = @ + 1, !.sendResult = e]
    BY <1>1, <2>3, <2>6, BatchSends DEF bufferVars, metas
  <2> QED
    BY <2>2, <2>4, <2>5, <2>6
<1> QED
  BY <1>3, <1>4

ReportedInv == ReportedOnce /\ ReportedInTime

\* The steps that record and report nothing.
LEMMA ReportedQuiet ==
    ASSUME TypedInv, ReportedInv,
           UNCHANGED <<metas, notified, m_sendBuffer>>,
           composed' = composed \/ composed' = <<>>,
           added' = added \/ added' = added + 1,
           isRecoverable' => /\ isRecoverable \/ Waiting' = {}
                             /\ Waiting' \subseteq Waiting \union {added + 1}
                             /\ added' = added => Waiting' \subseteq Waiting,
           Held' = {},
           pc' \in {"try", "compose", "send"} => isRecoverable',
           pc' \in {"compose", "send"} => batch'.ping = 0,
           pc' = "compose" => DOMAIN packets' = {}
    PROVE  ReportedInv'
<1>1. added \in Nat /\ 0 .. added \subseteq 0 .. added' /\ added + 1 \notin 0 .. added
  BY DEF TypedInv, Typed
<1>2. Recorded' = Recorded /\ Reported' = Reported /\ PingKept' = {}
  BY DEF Recorded, Reported, PingKept
<1>3. composed' = <<>> => DOMAIN composed' = {}
  BY EmptySeq
<1>4. InComposed' \subseteq InComposed
  BY <1>3 DEF InComposed, Numbers
<1> InBatch' = {}
  BY DEF InBatch, Numbers
<1>5. Mentioned' \subseteq Mentioned /\ Mentioned \subseteq 0 .. added
  BY <1>2, <1>4 DEF Mentioned, ReportedInv, ReportedOnce
<1>6. isRecoverable' => (Waiting' \union Held') \intersect Mentioned' = {}
  <2>1. SUFFICES ASSUME isRecoverable', NEW n \in Waiting' PROVE n \notin Mentioned
    BY <1>5
  <2>2. isRecoverable /\ (n \in Waiting \/ n = added + 1)
    BY <2>1
  <2> QED
    BY <1>1, <1>5, <2>2 DEF ReportedInv, ReportedOnce
<1>7. ReportedOnce'
  BY <1>1, <1>2, <1>5, <1>6 DEF ReportedInv, ReportedOnce
<1>8. ReportedInTime'
  <2>1. \A i \in DOMAIN composed' : i \in DOMAIN composed /\ composed'[i] = composed[i]
    BY <1>3
  <2> QED
    BY <1>2, <2>1 DEF ReportedInv, ReportedInTime, packets
<1> QED
  BY <1>7, <1>8 DEF ReportedInv

\* A publish held back.
LEMMA ReportedDelay ==
    ASSUME TypedInv, Order, ReportedInv, DelayPacket
    PROVE  ReportedInv'
<1>1. /\ UNCHANGED <<metas, notified, added, m_sendBuffer, pc, composed, isRecoverable>>
      /\ batch \in Batch /\ pc = "compose"
  BY DEF DelayPacket, Composing, bufferVars, reportVars, streamVars, metas, TypedInv, Typed
<1>2. /\ batch'.encoded = batch.encoded /\ batch'.ping = batch.ping
      /\ batch'.pingPacketLastByte = batch.pingPacketLastByte /\ packets' = packets
  BY <1>1 DEF DelayPacket, Batch, packets
<1>3. Waiting' \union Held' = Waiting \union Held /\ Waiting' \intersect Held' = {}
  BY PlacesDelay DEF ReportedInv, ReportedOnce
<1>4. Recorded' = Recorded /\ Reported' = Reported /\ PingKept' = PingKept /\ InComposed' = InComposed
  BY <1>1, <1>2 DEF Recorded, Reported, PingKept, InComposed, Numbers
<1> InBatch' = InBatch
  BY PlacesDelay
<1>5. ReportedOnce'
  BY <1>1, <1>3, <1>4 DEF Mentioned, ReportedInv, ReportedOnce
<1>6. ReportedInTime'
  BY <1>1, <1>2, <1>4 DEF ReportedInv, ReportedInTime
<1> QED
  BY <1>5, <1>6 DEF ReportedInv

\* The batch joins the packets composed, and its bytes the buffer.
LEMMA ReportedEnd ==
    ASSUME TypedInv, StreamTyped, ReportedInv, EndCompose
    PROVE  ReportedInv'
<1>1. /\ UNCHANGED <<metas, notified, added, batch, isRecoverable>> /\ pc = "compose" /\ pc' = "send"
      /\ m_sendBuffer' = m_sendBuffer \o batch.encoded /\ composed' = composed \o packets
  BY DEF EndCompose, BufferAfterCompose, reportVars, metas, packets
<1>2. /\ composed \in Seq(Packet) /\ packets \in Seq(Packet)
      /\ m_sendBuffer \in Seq(Nat) /\ batch.encoded \in Seq(Nat)
  BY BatchTyped DEF TypedInv, Typed, StreamTyped, packets
<1>3. ToSet(m_sendBuffer') = ToSet(m_sendBuffer) \union ToSet(batch.encoded)
  BY <1>1, <1>2, ElementsConcat
<1>4. Waiting' \union Held' = Waiting \union Held /\ Waiting' \intersect Held' = {}
  BY PlacesEnd
<1>5. Recorded' = Recorded /\ Reported' = Reported /\ PingKept' = PingKept
  BY <1>1 DEF Recorded, Reported, PingKept
<1>6. PICK both \in Seq(Packet) : both = composed \o packets
  BY <1>2, ConcatProperties
<1>7. \A i \in DOMAIN both : \/ \E j \in DOMAIN composed : both[i] = composed[j]
                             \/ \E j \in DOMAIN packets : both[i] = packets[j]
  <2>1. ToSet(both) = ToSet(composed) \union ToSet(packets)
    BY <1>2, <1>6, ElementsConcat
  <2> QED
    BY <2>1 DEF ToSet
<1>8. ReportedInTime'
  <2>1. ASSUME NEW i \in DOMAIN both
        PROVE  /\ both[i].type \in TrackedTypes => both[i].n \in Recorded \union Reported
               /\ both[i].n \in Recorded => both[i].n \in ToSet(m_sendBuffer')
    <3>1. CASE \E j \in DOMAIN composed : both[i] = composed[j]
      BY <1>3, <3>1 DEF ReportedInv, ReportedInTime
    <3>2. CASE \E j \in DOMAIN packets : both[i] = packets[j]
      BY <1>1, <1>3, <3>2 DEF ReportedInv, ReportedInTime
    <3> QED
      BY <1>7, <3>1, <3>2
  <2> QED
    BY <1>1, <1>5, <1>6, <2>1 DEF ReportedInv, ReportedInTime
<1>9. InBatch' = {} /\ InComposed' = InComposed \union InBatch
  BY PlacesEnd
<1>10. Mentioned' = Mentioned
  BY <1>5, <1>9 DEF Mentioned
<1>11. ReportedOnce'
  BY <1>1, <1>4, <1>5, <1>10 DEF ReportedInv, ReportedOnce
<1> QED
  BY <1>8, <1>11 DEF ReportedInv

\* A packet composed is recorded when it is tracked, kept as the batch's first
\* ping, or neither.
LEMMA ReportedCompose ==
    ASSUME TypedInv, StreamTyped, Order, ReportedInv, ComposePacket
    PROVE  ReportedInv'
<1> DEFINE p == NextComposer
           last == EndByte(p)
<1>1. /\ p \in Packet /\ p.n \in Nat /\ p.size \in Nat \ {0} /\ p.type \in STRING
      /\ pc = "compose" /\ pc' = pc /\ batch \in Batch
      /\ UNCHANGED <<m_sendBuffer, added, notified, composed, isRecoverable>>
  BY NextComposerTyped, PacketTyped
     DEF ComposePacket, Composing, reportVars, streamVars, TypedInv, Typed
<1>2. metas' = IF p.type \in TrackedTypes THEN Append(metas, [endByte |-> last, packet |-> p]) ELSE metas
  BY DEF ComposePacket, metas
<1>3. /\ batch'.encoded = batch.encoded \o Bytes(p) /\ packets' = Append(packets, p)
      /\ batch'.ping = IF p.type = "PINGREQ" /\ batch.ping = 0 THEN p.n ELSE batch.ping
      /\ batch'.pingPacketLastByte = IF p.type = "PINGREQ" /\ batch.ping = 0
                                     THEN last ELSE batch.pingPacketLastByte
  BY ComposePacketChanges
<1>4. /\ p.n \in Waiting /\ Waiting' = Waiting \ {p.n} /\ Held' = Held
      /\ InBatch' = InBatch \union {p.n} /\ InComposed' = InComposed
  BY <1>1, PlacesCompose DEF InComposed, Numbers
<1>5. last \in Nat /\ last > 0
  <2>1. Len(m_sendBuffer) \in Nat /\ Len(batch.encoded) \in Nat
    BY <1>1, BatchTyped, LenProperties DEF StreamTyped
  <2> QED
    BY <1>1, <2>1 DEF EndByte
<1>6. Bytes(p) \in Seq(Nat) /\ p.n \in ToSet(Bytes(p))
  <2>1. 1 \in DOMAIN Bytes(p) /\ Bytes(p)[1] = p.n
    BY <1>1 DEF Bytes
  <2> QED
    BY <1>1, <2>1, BytesTyped DEF ToSet
<1>7. isRecoverable /\ p.n \notin Mentioned /\ p.n \in 0 .. added
  BY <1>1, <1>4, WaitingNumbers DEF ReportedInv, ReportedOnce, TypedInv, Typed
<1> HIDE DEF p, last
<1>8. Reported' = Reported
  BY <1>1 DEF Reported
<1>9. /\ metas' \in Seq(Meta)
      /\ \A i \in DOMAIN metas' : metas'[i].endByte > 0
      /\ \A i, j \in DOMAIN metas' : metas'[i].packet.n = metas'[j].packet.n => i = j
      /\ Recorded' = IF p.type \in TrackedTypes THEN Recorded \union {p.n} ELSE Recorded
  <2>1. CASE p.type \notin TrackedTypes
    <3>1. metas' = metas
      BY <1>2, <2>1
    <3> QED
      BY <2>1, <3>1 DEF Recorded, ReportedInv, ReportedOnce, ReportedInTime
  <2>2. CASE p.type \in TrackedTypes
    <3> DEFINE meta == [endByte |-> last, packet |-> p]
               m == Len(metas)
    <3>1. meta \in Meta /\ meta.endByte = last /\ meta.packet = p /\ metas \in Seq(Meta)
      BY <1>1, <1>5 DEF Meta, ReportedInv, ReportedOnce
    <3> HIDE DEF meta
    <3>2. /\ metas' \in Seq(Meta) /\ DOMAIN metas = 1 .. m /\ m \in Nat
          /\ DOMAIN metas' = 1 .. m + 1
          /\ \A i \in 1 .. m : metas'[i] = metas[i]
          /\ metas'[m + 1] = meta
      BY <1>2, <2>2, <3>1, AppendProperties, LenProperties DEF meta
    <3> HIDE DEF m
    <3>3. \A i \in 1 .. m : metas[i].packet.n \in Recorded /\ metas[i].packet.n # p.n
      BY <1>7, <3>2 DEF Recorded, Mentioned
    <3>4. Recorded' = Recorded \union {p.n}
      <4>1. \A i \in DOMAIN metas' : (i \in DOMAIN metas /\ metas'[i] = metas[i]) \/ metas'[i] = meta
        BY <3>2
      <4>2. \A i \in DOMAIN metas : i \in DOMAIN metas' /\ metas'[i] = metas[i]
        BY <3>2
      <4>3. m + 1 \in DOMAIN metas'
        BY <3>2
      <4> QED
        BY <3>1, <3>2, <4>1, <4>2, <4>3 DEF Recorded
    <3>5. \A i \in DOMAIN metas' : metas'[i].endByte > 0
      <4>1. \A i \in 1 .. m : metas[i].endByte > 0
        BY <3>2 DEF ReportedInv, ReportedInTime
      <4> QED
        BY <1>5, <3>1, <3>2, <4>1
    <3>6. \A i, j \in DOMAIN metas' : metas'[i].packet.n = metas'[j].packet.n => i = j
      <4>1. \A i, j \in 1 .. m : metas[i].packet.n = metas[j].packet.n => i = j
        BY <3>2 DEF ReportedInv, ReportedOnce
      <4>2. \A i \in DOMAIN metas' : i \in 1 .. m \/ i = m + 1
        BY <3>2
      <4> QED
        BY <3>1, <3>2, <3>3, <4>1, <4>2
    <3> QED
      BY <2>2, <3>2, <3>4, <3>5, <3>6
  <2> QED
    BY <2>1, <2>2
<1>10. /\ PingKept' \subseteq PingKept \union {p.n}
       /\ p.type \in TrackedTypes => PingKept' = PingKept
       /\ PingKept' # {} => batch'.pingPacketLastByte > 0
  <2>1. CASE p.type = "PINGREQ" /\ batch.ping = 0
    <3>1. p.type \notin TrackedTypes
      BY <2>1 DEF TrackedTypes
    <3>2. batch'.ping = p.n /\ batch'.pingPacketLastByte = last
      BY <1>3, <2>1
    <3> QED
      BY <1>5, <3>1, <3>2 DEF PingKept
  <2>2. CASE ~(p.type = "PINGREQ" /\ batch.ping = 0)
    <3>1. batch'.ping = batch.ping /\ batch'.pingPacketLastByte = batch.pingPacketLastByte
      BY <1>3, <2>2
    <3>2. PingKept' = PingKept
      BY <1>1, <3>1 DEF PingKept
    <3> QED
      BY <3>1, <3>2 DEF ReportedInv, ReportedInTime
  <2> QED
    BY <2>1, <2>2
<1>11. ReportedOnce'
  <2>1. Mentioned' \subseteq Mentioned \union {p.n}
    BY <1>4, <1>8, <1>9, <1>10 DEF Mentioned
  <2>2. Recorded' \intersect PingKept' = {} /\ (Recorded' \union PingKept') \intersect Reported' = {}
    <3>1. p.n \notin Recorded /\ p.n \notin PingKept /\ p.n \notin Reported
      BY <1>7 DEF Mentioned
    <3>2. Recorded \intersect PingKept = {} /\ (Recorded \union PingKept) \intersect Reported = {}
      BY DEF ReportedInv, ReportedOnce
    <3> QED
      BY <1>8, <1>9, <1>10, <3>1, <3>2
  <2>3. Mentioned \subseteq 0 .. added /\ (Waiting \union Held) \intersect Mentioned = {} /\ Waiting \intersect Held = {}
    BY <1>7 DEF ReportedInv, ReportedOnce
  <2>4. Mentioned' \subseteq 0 .. added' /\ Waiting' \intersect Held' = {} /\ (Waiting' \union Held') \intersect Mentioned' = {}
    BY <1>1, <1>4, <1>7, <2>1, <2>3
  <2>5. notified' \in [Serials -> 0 .. 1]
    BY <1>1 DEF ReportedInv, ReportedOnce
  <2> QED
    BY <1>1, <1>7, <1>9, <2>2, <2>4, <2>5 DEF ReportedOnce
<1>12. ASSUME NEW i \in DOMAIN composed
       PROVE  /\ composed[i].type \in TrackedTypes => composed[i].n \in Recorded' \union Reported'
              /\ composed[i].n \in Recorded' => composed[i].n \in ToSet(m_sendBuffer)
  <2>1. composed[i].n # p.n
    BY <1>7 DEF Mentioned, InComposed, Numbers
  <2> QED
    BY <1>8, <1>9, <2>1 DEF ReportedInv, ReportedInTime
<1>13. /\ ToSet(batch'.encoded) = ToSet(batch.encoded) \union ToSet(Bytes(p))
       /\ ToSet(packets') = ToSet(packets) \union {p}
  <2>1. packets \in Seq(Packet) /\ batch.encoded \in Seq(Nat)
    BY <1>1, BatchTyped DEF packets
  <2> QED
    BY <1>1, <1>3, <1>6, <2>1, ElementsConcat, ElementsAppend
<1>14. ASSUME NEW i \in DOMAIN packets'
       PROVE  /\ packets'[i].type \in TrackedTypes => packets'[i].n \in Recorded'
              /\ packets'[i].n \in ToSet(batch'.encoded)
  <2>1. (\E j \in DOMAIN packets : packets'[i] = packets[j]) \/ packets'[i] = p
    BY <1>13 DEF ToSet
  <2>2. CASE packets'[i] = p
    BY <1>6, <1>9, <1>13, <2>2
  <2>3. CASE \E j \in DOMAIN packets : packets'[i] = packets[j]
    BY <1>1, <1>9, <1>13, <2>3 DEF ReportedInv, ReportedInTime
  <2> QED
    BY <2>1, <2>2, <2>3
<1>15. ReportedInTime'
  BY <1>1, <1>9, <1>10, <1>12, <1>14 DEF ReportedInTime
<1> QED
  BY <1>11, <1>15 DEF ReportedInv

\* The packets composed have serial numbers.
LEMMA ComposedSerials ==
    ASSUME Named, NEW i \in DOMAIN composed
    PROVE  composed[i].n \in Serials
<1>1. composed[i] \in PacketType
  BY DEF Named, InPlay, Sent, ToSet
<1>2. PICK t \in Templates \union {ConnectPacket}, n \in Serials : composed[i] = Numbered(t, n)
  BY <1>1 DEF PacketType
<1> QED
  BY <1>2 DEF Numbered

\* A send that takes everything reports all that is recorded; another changes nothing.
LEMMA ReportedSend ==
    ASSUME WholeSends, TypedInv, StreamTyped, Named, ReportedInv, SocketTakes \/ SocketFails
    PROVE  ReportedInv'
<1>1. /\ pc = "send" /\ UNCHANGED <<queue, composed, added, isRecoverable>>
      /\ \/ AllSent /\ pc' = "idle"
         \/ /\ UNCHANGED <<m_sendBuffer, metas, notified>> /\ pc' = pc
            /\ batch'.ping = batch.ping /\ batch'.pingPacketLastByte = batch.pingPacketLastByte
  BY WholeSendReports DEF ReportedInv
<1>2. /\ Waiting' = Waiting /\ Held' = {} /\ Held = {} /\ InBatch' = {} /\ InBatch = {}
      /\ InComposed' = InComposed
  BY <1>1, PlacesQuiet DEF InComposed, Numbers
<1>3. CASE AllSent /\ pc' = "idle"
  <2>1. /\ metas' = <<>> /\ m_sendBuffer' = <<>>
        /\ notified' = [n \in Serials |->
                          notified[n] + IF n \in Recorded \union PingKept THEN 1 ELSE 0]
    BY <1>1, <1>3, AllSentReports DEF ReportedInv
  <2>2. <<>> \in Seq(Meta) /\ DOMAIN metas' = {}
    BY <2>1, EmptySeq
  <2>3. Recorded' = {} /\ PingKept' = {}
    BY <1>3, <2>2 DEF Recorded, PingKept
  <2>4. \A n \in Serials : notified[n] \in 0 .. 1 /\ (n \in Reported <=> notified[n] = 1)
    BY DEF Reported, ReportedInv, ReportedOnce
  <2>5. \A n \in Serials : n \in Recorded \union PingKept => notified[n] = 0
    BY <2>4 DEF ReportedInv, ReportedOnce
  <2>6. \A n \in Serials : notified'[n] \in 0 .. 1
    BY <2>1, <2>4, <2>5
  <2>7. notified' \in [Serials -> 0 .. 1]
    BY <2>1, <2>6
  <2>8. \A n \in Serials : n \in Reported' <=> n \in Reported \union Recorded \union PingKept
    <3>1. \A n \in Serials : notified'[n] > 0 <=> n \in Reported \union Recorded \union PingKept
      BY <2>1, <2>4, <2>5
    <3> QED
      BY <3>1 DEF Reported
  <2>9. Mentioned' \subseteq Mentioned
    <3>1. Reported' \subseteq Serials
      BY DEF Reported
    <3> QED
      BY <1>2, <2>3, <2>8, <3>1 DEF Mentioned
  <2>10. ReportedOnce'
    BY <1>1, <1>2, <1>3, <2>1, <2>2, <2>3, <2>7, <2>9 DEF ReportedInv, ReportedOnce
  <2>11. ASSUME NEW i \in DOMAIN composed PROVE composed[i].n \in Serials
    BY ComposedSerials, <2>11
  <2>12. ReportedInTime'
    <3>1. \A i \in DOMAIN composed : composed[i].type \in TrackedTypes => composed[i].n \in Reported'
      BY <2>8, <2>11 DEF ReportedInv, ReportedInTime
    <3> QED
      BY <1>1, <1>3, <2>2, <2>3, <3>1 DEF ReportedInTime
  <2> QED
    BY <2>10, <2>12 DEF ReportedInv
<1>4. CASE /\ UNCHANGED <<m_sendBuffer, metas, notified>> /\ pc' = pc
           /\ batch'.ping = batch.ping /\ batch'.pingPacketLastByte = batch.pingPacketLastByte
  <2>1. Recorded' = Recorded /\ Reported' = Reported /\ PingKept' = PingKept
    BY <1>4 DEF Recorded, Reported, PingKept
  <2>2. Mentioned' = Mentioned
    BY <1>2, <2>1 DEF Mentioned
  <2>3. ReportedOnce'
    BY <1>1, <1>2, <1>4, <2>1, <2>2 DEF ReportedInv, ReportedOnce
  <2>4. ReportedInTime'
    BY <1>1, <1>4, <2>1 DEF ReportedInv, ReportedInTime
  <2> QED
    BY <2>3, <2>4 DEF ReportedInv
<1> QED
  BY <1>1, <1>3, <1>4

\* No packet is recorded, none has been reported.
LEMMA ReportedInit == Init => ReportedInv
<1> SUFFICES ASSUME Init PROVE ReportedInv
  OBVIOUS
<1>1. /\ metas = <<>> /\ DOMAIN metas = {} /\ <<>> \in Seq(Meta)
      /\ notified = [n \in Serials |-> 0] /\ pc = "idle" /\ added = 0
      /\ queue = <<>> /\ DOMAIN queue = {} /\ composed = <<>> /\ DOMAIN composed = {}
  BY EmptySeq DEF Init, metas, queue
<1>2. /\ Recorded = {} /\ Reported = {} /\ PingKept = {} /\ InBatch = {} /\ InComposed = {}
      /\ Waiting = {} /\ Held = {}
  BY <1>1 DEF Recorded, Reported, PingKept, InBatch, InComposed, Waiting, Held, Numbers
<1> QED
  BY <1>1, <1>2 DEF ReportedInv, ReportedOnce, ReportedInTime, Mentioned

\* Every step keeps the records apart from what was reported.
LEMMA ReportedNext ==
    ASSUME WholeSends
    PROVE  TypedInv /\ StreamTyped /\ Order /\ Named /\ ReportedInv /\ [Next]_vars => ReportedInv'
<1> SUFFICES ASSUME TypedInv, StreamTyped, Order, Named, ReportedInv, [Next]_vars PROVE ReportedInv'
  OBVIOUS
<1>0. pc \in {"try", "compose", "send"} => isRecoverable
  BY DEF ReportedInv, ReportedOnce
<1>1. CASE UNCHANGED vars \/ SocketLost
  <2>1. UNCHANGED <<metas, notified, composed, added, m_sendBuffer, batch, pc, queue, isRecoverable,
                    delayed, packets>>
    BY <1>1 DEF vars, SocketLost, bufferVars, callVars, reportVars, streamVars, metas, queue,
       delayed, packets
  <2>2. /\ Waiting' = Waiting /\ Held' = Held /\ Recorded' = Recorded /\ Reported' = Reported
        /\ PingKept' = PingKept /\ Mentioned' = Mentioned
    BY <2>1 DEF Waiting, Held, Rest, Numbers, Recorded, Reported, PingKept, InBatch, InComposed,
       Mentioned
  <2>3. ReportedOnce'
    BY <2>1, <2>2 DEF ReportedInv, ReportedOnce
  <2>4. ReportedInTime'
    BY <2>1, <2>2 DEF ReportedInv, ReportedInTime
  <2> QED
    BY <2>3, <2>4 DEF ReportedInv
<1>2. ASSUME NEW t \in Templates, QueuePacket(t) PROVE ReportedInv'
  <2>1. /\ t \in Template /\ AddToQueue(t) /\ pc = "idle" /\ pc' = pc
        /\ UNCHANGED <<metas, notified, m_sendBuffer, composed, isRecoverable>>
    BY <1>2, TemplatesTyped DEF QueuePacket, bufferVars, callVars, reportVars, streamVars, metas
  <2>2. Waiting' = Waiting \union {added + 1} /\ Held' = {} /\ added' = added + 1
    BY <2>1, NumbersAddToQueue DEF Held, AddToQueue
  <2> QED
    BY <2>1, <2>2, ReportedQuiet DEF TypedInv, Typed
<1>3. CASE SocketConnects
  <2>1. /\ ConnectPacket \in Template /\ AddToQueue(ConnectPacket) /\ pc = "idle" /\ pc' = pc
        /\ composed' = <<>> /\ UNCHANGED <<metas, notified, m_sendBuffer, isRecoverable>>
    BY <1>3, TemplatesTyped DEF SocketConnects, bufferVars, callVars, reportVars, metas
  <2>2. Waiting' = Waiting \union {added + 1} /\ Held' = {} /\ added' = added + 1
    BY <2>1, NumbersAddToQueue DEF Held, AddToQueue
  <2> QED
    BY <2>1, <2>2, ReportedQuiet DEF TypedInv, Typed
<1>4. CASE ClearQueue \/ GracefulClear
  <2>1. /\ CancelAll /\ pc # "compose" /\ pc' \in {"idle", "crashed"}
        /\ UNCHANGED <<metas, notified, composed, added, m_sendBuffer>>
    BY <1>4 DEF ClearQueue, GracefulClear, CancelAll, bufferVars, reportVars, streamVars, metas
  <2>2. Waiting' = {} /\ Held' = {}
    BY <2>1, NumbersCancel DEF Held
  <2> QED
    BY <2>1, <2>2, ReportedQuiet
<1>5. CASE ConnAck \/ Acknowledge \/ NothingQueued \/ EndPartlySent
  <2>1. /\ UNCHANGED <<queue, metas, notified, composed, added, m_sendBuffer, isRecoverable>>
        /\ pc # "compose" /\ pc' = "idle"
    BY <1>5 DEF ConnAck, Acknowledge, NothingQueued, EndPartlySent, LoopsDone,
       ReturnSuccess, bufferVars, callVars, reportVars, streamVars, metas, queue
  <2> QED
    BY <2>1, PlacesQuiet, ReportedQuiet
<1>6. CASE BeginSendNextBatch
  <2>1. /\ UNCHANGED <<queue, metas, notified, composed, added, m_sendBuffer, isRecoverable>>
        /\ pc # "compose" /\ pc' = "try" /\ isRecoverable
    BY <1>6 DEF BeginSendNextBatch, bufferVars, reportVars, streamVars, metas, queue
  <2> QED
    BY <2>1, PlacesQuiet, ReportedQuiet
<1>7. CASE EndSendError
  <2>1. /\ UNCHANGED <<queue, metas, notified, composed, added, m_sendBuffer>> /\ isRecoverable
        /\ pc # "compose" /\ (pc' = "idle" \/ (pc' = "try" /\ isRecoverable' = isRecoverable))
    BY <1>0, <1>7 DEF EndSendError, LoopsDone, bufferVars, reportVars, streamVars, metas, queue
  <2> QED
    BY <2>1, PlacesQuiet, ReportedQuiet
<1>8. CASE BeginCompose
  <2>1. /\ UNCHANGED <<metas, notified, composed, added, m_sendBuffer, isRecoverable>>
        /\ pc = "try" /\ pc' = "compose" /\ batch' = NoBatch
    BY <1>8 DEF BeginCompose, bufferVars, reportVars, streamVars, metas
  <2>2. batch'.ping = 0 /\ DOMAIN packets' = {}
    BY <2>1 DEF NoBatch, packets
  <2> QED
    BY <1>0, <1>8, <2>1, <2>2, PlacesBegin, ReportedQuiet
<1>9. CASE EncodeFails
  <2>1. /\ UNCHANGED <<metas, notified, composed, added, m_sendBuffer>>
        /\ isRecoverable' = FALSE /\ pc' = "idle"
    BY <1>9 DEF EncodeFails, bufferVars, reportVars, streamVars, metas
  <2>2. Held' = {}
    BY <2>1 DEF Held
  <2> QED
    BY <2>1, <2>2, ReportedQuiet
<1> QED
  BY <1>1, <1>2, <1>3, <1>4, <1>5, <1>6, <1>7, <1>8, <1>9, ReportedDelay, ReportedCompose,
     ReportedEnd, ReportedSend DEF Next, SendNextBatch, Environment

\* In any state of the invariant the properties hold.
LEMMA ReportedImplies ==
    ASSUME Named, ReportedInv
    PROVE  NotifiedAtMostOnce /\ NotifiedWhenSent
<1>1. \A i \in DOMAIN composed : notified[composed[i].n] \in 0 .. 1
  BY ComposedSerials DEF ReportedInv, ReportedOnce
<1>2. NotifiedAtMostOnce
  BY <1>1 DEF NotifiedAtMostOnce, ToSet
<1>3. ASSUME m_sendBuffer = <<>>, NEW i \in DOMAIN composed, composed[i].type \in TrackedTypes
      PROVE  notified[composed[i].n] = 1
  <2>1. composed[i].n \notin Recorded
    <3>1. ToSet(m_sendBuffer) = {}
      BY <1>3, ElementsEmpty
    <3> QED
      BY <3>1 DEF ReportedInv, ReportedInTime
  <2>2. composed[i].n \in Reported
    BY <1>3, <2>1 DEF ReportedInv, ReportedInTime
  <2>3. notified[composed[i].n] > 0 /\ notified[composed[i].n] \in 0 .. 1
    BY <1>1, <2>2 DEF Reported
  <2> QED
    BY <2>3
<1>4. NotifiedWhenSent
  BY <1>3 DEF NotifiedWhenSent, ToSet
<1> QED
  BY <1>2, <1>4

\* The invariant holds in every reachable state.
LEMMA ReportedAlways == ASSUME WholeSends PROVE Spec => [](Named /\ ReportedInv)
<1>1. Init => TypedInv /\ StreamTyped /\ Order /\ Named /\ BytesNamed /\ ReportedInv
  BY EmptySeq, TypedInit, OrderInit, NamedInit, ReportedInit DEF Init, StreamTyped
<1>2. TypedInv /\ StreamTyped /\ Order /\ Named /\ ReportedInv /\ [Next]_vars => ReportedInv'
  BY ReportedNext
<1> QED
  BY <1>1, <1>2, TypedNext, StreamTypedNext, OrderNext, NamedNext, PTL DEF Spec

\* When the socket takes the whole buffer or none of it and getLastError reports
\* no positive code, no tracked packet is reported sent twice, whatever batches
\* fail to encode or to be sent and however often the connection is made again:
\* the metadata of a batch is cleared with the buffer it describes.
THEOREM ReportedAtMostOnce == ASSUME WholeSends PROVE Spec => []NotifiedAtMostOnce
<1>1. Named /\ ReportedInv => NotifiedAtMostOnce
  BY ReportedImplies
<1> QED
  BY <1>1, ReportedAlways, PTL

\* Under the same conditions every tracked packet is reported by the end of the
\* tick in which the last byte buffered is taken.
THEOREM ReportedWhenSent == ASSUME WholeSends PROVE Spec => []NotifiedWhenSent
<1>1. Named /\ ReportedInv => NotifiedWhenSent
  BY ReportedImplies
<1> QED
  BY <1>1, ReportedAlways, PTL
=============================================================================
