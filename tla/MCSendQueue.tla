----------------------------- MODULE MCSendQueue -----------------------------
(* Instances of SendQueue for TLC: the packets each run queues. *)
EXTENDS SendQueue

MCConnectPacket == [type |-> "CONNECT", qos |-> 0, id |-> 0, size |-> 1]

Publish0 == [type |-> "PUBLISH", qos |-> 0, id |-> 0, size |-> 1]
Publish1(id) == [type |-> "PUBLISH", qos |-> 1, id |-> id, size |-> 2]
PubRec == [type |-> "PUBREC", qos |-> 0, id |-> 3, size |-> 1]
Ping == [type |-> "PINGREQ", qos |-> 0, id |-> 0, size |-> 1]
Disconnect == [type |-> "DISCONNECT", qos |-> 0, id |-> 0, size |-> 1]

\* Publishes that compete for the quota, with a retry of the first one, and a
\* publish that needs none.
QuotaTemplates == {Publish0, Publish1(1), Publish1(2), Publish1(3)}

\* A ping, tracked packets and a publish: what the send loop tells apart.
StreamTemplates == {Ping, PubRec, Publish1(1), Disconnect}

\* What getLastError returns after a failed send: DefaultWebsocket keeps -1
\* after a refused send and 0 when it was never told of an error.
WebsocketErrors == {-1, 0}
\* WSAGetLastError is a positive code; 1 and 9 stand for a code below and
\* above the number of bytes buffered.
WinsockErrors == {1, 9}
NegativeErrors == {-1}
\* Those that are not taken for a part of the buffer sent.
UnmistakenErrors == {-1, 0, 9}

\* All of these but the third publish.
MixedTemplates == {Ping, PubRec, Publish1(1), Publish1(2), Disconnect}
NotifyTemplates == {Ping, PubRec}
DisconnectTemplates == {Publish0, Disconnect}
=============================================================================
