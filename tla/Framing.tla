------------------------------- MODULE Framing -------------------------------
(***************************************************************************)
(* From the bytes a socket delivers to the packets that are handled:       *)
(* handleSocketDataReceivedEvent and separateMqttPacketByteBuffers cut the *)
(* stream into packets, on the socket's thread, and the ReceiveQueue hands *)
(* them to a tick, batch by batch.                                         *)
(*                                                                         *)
(* A packet is its type byte, the length of its body as a variable byte    *)
(* integer, and the body.  A byte carries its packet and its place in it,  *)
(* which the code cannot see.  connect() is called between ticks (SYNC     *)
(* mode; Connection has its race with the tick thread).                    *)
(***************************************************************************)
EXTENDS Naturals, Sequences, SequencesExt

CONSTANTS
    Base,               \* 128 in the code: a length byte holds a digit to this base,
                        \* and has Base added when another follows
    Bodies,             \* the lengths of the bodies the broker sends
    Cuts,               \* how many bytes of a packet a chunk may end with (0: none)
    MaxPackets,         \* bound: packets of one connection
    MaxConnections      \* bound: connections

ASSUME FramingAssumption ==
    /\ Base \in Nat \ {0, 1} /\ Bodies \subseteq Nat /\ Cuts \subseteq Nat
    /\ {MaxPackets, MaxConnections} \subseteq Nat

VARIABLES
    m_leftOverBuffer,   \* the bytes kept from one chunk for the next
    m_inQueueData, m_inProgressData,
    batch,              \* receiveNextBatch: idle, next (the loop's test) or handled
                        \* (a packet was handled and is still at the front)
    connected,          \* the socket
    stream,             \* bytes of the broker that have not arrived
    connections

\* History, of the present connection: the packets sent, those handled, the
\* bytes that arrived; whether m_leftOverBuffer holds bytes of this connection
\* that are in no packet yet, and whether it always did when it was read.
VARIABLES sent, handled, arrived, fresh, intact

leftOverVars == <<m_leftOverBuffer, fresh, intact>>
queueVars == <<m_inQueueData, m_inProgressData, batch>>
brokerVars == <<stream, sent>>
vars == <<leftOverVars, queueVars, brokerVars, handled, arrived, connected, connections>>

Init ==
    /\ m_leftOverBuffer = <<>>
    /\ m_inQueueData = <<>> /\ m_inProgressData = <<>> /\ batch = "idle"
    /\ connected = FALSE /\ stream = <<>> /\ connections = 0
    /\ sent = <<>> /\ handled = <<>> /\ arrived = <<>>
    /\ fresh = FALSE /\ intact = TRUE

-----------------------------------------------------------------------------
(* Packets, and how a buffer is cut into them.                              *)

\* The type byte of a packet is never looked at, and a body may hold any byte.
TypeByte == Base
BodyByte == 1

\* A variable byte integer, its lowest digit first.
Digits[k \in Nat] == IF k < Base THEN <<k>> ELSE <<(k % Base) + Base>> \o Digits[k \div Base]

Packet(n, body) ==
    LET values == <<TypeByte>> \o Digits[body] \o [i \in 1 .. body |-> BodyByte]
    IN  [i \in DOMAIN values |-> [packet |-> n, at |-> i, value |-> values[i]]]

\* The variable byte integer that begins at position i.  One that is cut off by
\* the end of the buffer is read beyond it: whatever is there, it is longer than
\* what the buffer holds.  With nothing at all to read it is 0 and one byte long.
LastDigit(buffer, i) == {j \in i .. Len(buffer) : buffer[j].value < Base
                                               /\ \A k \in i .. j - 1 : buffer[k].value >= Base}

\* The number with these digits, the lowest first; value[k] is that of the last k.
FromDigits(digits) ==
    LET value[k \in 0 .. Len(digits)] ==
            IF k = 0 THEN 0
            ELSE (digits[Len(digits) + 1 - k] % Base) + Base * value[k - 1]
    IN  value[Len(digits)]

RemainingLength(buffer, i) ==
    IF i > Len(buffer) THEN [value |-> 0, size |-> 1]
    ELSE IF LastDigit(buffer, i) = {} THEN [value |-> 0, size |-> Len(buffer) - i + 2]
    ELSE LET last == CHOOSE j \in LastDigit(buffer, i) : TRUE
             digits == [k \in 1 .. last - i + 1 |-> buffer[i + k - 1].value]
         IN  [value |-> FromDigits(digits), size |-> Len(digits)]

\* Mutant: the type byte is not counted.
PacketSizeShort(length) == length.value + length.size

PacketSize(length) == length.value + 1 + length.size

\* The packets of a buffer and how many bytes at its end are left over.  The test
\* for two more bytes is made from the read cursor, which the previous round left
\* behind the length of the previous packet: it gives up with no bytes left over.
Separate(buffer) ==
    LET Rest[at \in [start : 1 .. Len(buffer) + 1, cursor : 0 .. Len(buffer)]] ==
            LET length == RemainingLength(buffer, at.start + 1)
                after == at.start + PacketSize(length)
            IN  IF at.start > Len(buffer) \/ Len(buffer) < at.cursor + 2
                THEN [packets |-> <<>>, leftOver |-> 0]
                ELSE IF after > Len(buffer) + 1
                THEN [packets |-> <<>>, leftOver |-> Len(buffer) + 1 - at.start]
                ELSE LET rest == Rest[[start |-> after, cursor |-> at.start + length.size]]
                     IN  [rest EXCEPT !.packets = <<SubSeq(buffer, at.start, after - 1)>> \o @]
    IN  Rest[[start |-> 1, cursor |-> 0]]

-----------------------------------------------------------------------------
(* The broker and the socket's thread.                                      *)

BrokerSends(body) ==
    /\ connected /\ Len(sent) < MaxPackets
    /\ LET p == Packet(Len(sent) + 1, body)
       IN  sent' = Append(sent, p) /\ stream' = stream \o p
    /\ UNCHANGED <<leftOverVars, queueVars, handled, arrived, connected, connections>>

\* The chunks a socket may deliver: they end with a packet, or after some of its
\* first bytes.
Chunks ==
    {k \in DOMAIN stream : stream[k].at % Len(sent[stream[k].packet]) \in Cuts}

\* Mutant: the bytes left over are dropped.
LeftOverDropped(full, leftOver) == <<>>

\* Mutant: the whole buffer is kept.
LeftOverWhole(full, leftOver) == IF leftOver > 0 THEN full ELSE m_leftOverBuffer

\* The buffer is replaced when bytes are left over, and never emptied.
LeftOver(full, leftOver) ==
    IF leftOver > 0 THEN SubSeq(full, Len(full) - leftOver + 1, Len(full)) ELSE m_leftOverBuffer

AddToQueue(packets) == m_inQueueData' = m_inQueueData \o packets

SocketDataReceived ==
    /\ connected
    /\ \E k \in Chunks :
          LET chunk == SubSeq(stream, 1, k)
              full == m_leftOverBuffer \o chunk
              separated == Separate(full)
          IN  /\ AddToQueue(separated.packets)
              /\ m_leftOverBuffer' = LeftOver(full, separated.leftOver)
              /\ fresh' = (separated.leftOver > 0)
              /\ arrived' = arrived \o chunk
              /\ stream' = SubSeq(stream, k + 1, Len(stream))
    /\ intact' = (intact /\ (fresh \/ m_leftOverBuffer = <<>>))
    /\ UNCHANGED <<m_inProgressData, batch, sent, handled, connected, connections>>

SocketCloses ==
    /\ connected /\ connected' = FALSE
    /\ stream' = <<>>
    /\ UNCHANGED <<leftOverVars, queueVars, sent, handled, arrived, connections>>

-----------------------------------------------------------------------------
(* A tick.                                                                  *)

Swap == m_inProgressData' = m_inQueueData /\ m_inQueueData' = m_inProgressData

BeginBatch ==
    /\ connected /\ batch = "idle" /\ m_inQueueData # <<>>
    /\ Swap
    /\ batch' = "next"
    /\ UNCHANGED <<leftOverVars, brokerVars, handled, arrived, connected, connections>>

Handling == batch = "next" /\ m_inProgressData # <<>>

HandlePacket ==
    /\ Handling
    /\ handled' = Append(handled, Head(m_inProgressData))
    /\ batch' = "handled"
    /\ UNCHANGED <<leftOverVars, m_inQueueData, m_inProgressData, brokerVars, arrived,
                   connected, connections>>

\* Mutant: the packets that wait are kept.
ClearQueuesForgotten == UNCHANGED <<m_inQueueData, m_inProgressData>>

\* clear() empties both queues, and leaves m_leftOverBuffer as it is.
ClearQueues == m_inQueueData' = <<>> /\ m_inProgressData' = <<>>

NewConnection ==
    /\ connections < MaxConnections /\ connections' = connections + 1
    /\ ClearQueues
    /\ connected' = TRUE /\ stream' = <<>>
    /\ sent' = <<>> /\ handled' = <<>> /\ arrived' = <<>>
    /\ fresh' = FALSE
    /\ UNCHANGED <<m_leftOverBuffer, intact>>

\* A DISCONNECT or a CONNACK that redirects the client: its handler clears the
\* queue the packet is at the front of.
HandleRedirection ==
    /\ Handling
    /\ NewConnection
    /\ batch' = "handled"

PopPacket ==
    /\ batch = "handled"
    /\ m_inProgressData' = IF m_inProgressData = <<>> THEN <<>> ELSE Tail(m_inProgressData)
    /\ batch' = "next"
    /\ UNCHANGED <<leftOverVars, m_inQueueData, brokerVars, handled, arrived, connected,
                   connections>>

\* Bytes that are not a packet of the broker may fail to decode; the connection
\* is closed and the rest of the batch dropped.
DecodeFails ==
    /\ Handling /\ Head(m_inProgressData) \notin ToSet(sent)
    /\ m_inProgressData' = <<>> /\ batch' = "idle"
    /\ connected' = FALSE /\ stream' = <<>>
    /\ UNCHANGED <<leftOverVars, m_inQueueData, sent, handled, arrived, connections>>

EndBatch ==
    /\ batch = "next" /\ m_inProgressData = <<>>
    /\ batch' = "idle"
    /\ UNCHANGED <<leftOverVars, m_inQueueData, m_inProgressData, brokerVars, handled,
                   arrived, connected, connections>>

ReceiveNextBatch == BeginBatch \/ HandlePacket \/ PopPacket \/ EndBatch

-----------------------------------------------------------------------------

Connect ==
    /\ ~connected /\ batch = "idle"
    /\ NewConnection
    /\ UNCHANGED batch

Next ==
    \/ \E body \in Bodies : BrokerSends(body)
    \/ SocketDataReceived \/ SocketCloses
    \/ ReceiveNextBatch \/ HandleRedirection \/ DecodeFails
    \/ Connect

Spec == Init /\ [][Next]_vars

\* The socket delivers what it has, and ticks go on.
Fairness == WF_vars(SocketDataReceived) /\ WF_vars(ReceiveNextBatch)

FairSpec == Spec /\ Fairness

-----------------------------------------------------------------------------

\* The types.  A packet handed on has the length its header states, and what is
\* left over is never a whole packet.
TypeOK ==
    /\ batch \in {"idle", "next", "handled"}
    /\ {connected, fresh, intact} \subseteq BOOLEAN
    /\ connections \in 0 .. MaxConnections
    /\ \A p \in ToSet(m_inQueueData \o m_inProgressData \o handled) :
          Len(p) = PacketSize(RemainingLength(p, 2))
    /\ m_leftOverBuffer # <<>> =>
          Len(m_leftOverBuffer) < PacketSize(RemainingLength(m_leftOverBuffer, 2))

\* The packets in the queues, and the one that is being handled once.
Waiting == (IF batch = "handled" /\ m_inProgressData # <<>> THEN Tail(m_inProgressData)
                                                          ELSE m_inProgressData) \o m_inQueueData

Unframed == IF fresh THEN m_leftOverBuffer ELSE <<>>

\* However the stream of a connection is cut into chunks, the packets handled,
\* those in the two queues and the bytes left over are what has arrived.
BytesKept == FlattenSeq(handled \o Waiting) \o Unframed = arrived

\* The same, until bytes that are in a packet already, or are of an earlier
\* connection, are read from m_leftOverBuffer.
BytesKeptWhileIntact == intact => BytesKept

\* What is handled are the packets the broker sent on this connection, in order,
\* each of them once.
PacketsInOrder == intact => IsPrefix(handled, sent)

Handled(n) == n \in DOMAIN sent \intersect DOMAIN handled /\ handled[n] = sent[n]

\* Every packet is handled, unless its connection is lost first.
EveryPacketHandled ==
    \A n \in 1 .. MaxPackets :
        connections = MaxConnections /\ Len(sent) >= n ~> Handled(n) \/ ~connected \/ ~intact
=============================================================================
