---------------------------- MODULE SessionProofs ----------------------------
(***************************************************************************)
(* Theorems about the session and the publish handshakes, for every number *)
(* of publishes, connections and losses, every Receive Maximum and every   *)
(* set of identifiers.  Most are about clean sessions in which answers     *)
(* come in time, where the heart of the matter is that every handshake has *)
(* exactly one packet, in the client's queue or on its way; the last one   *)
(* is about sessions that are resumed.                                     *)
(***************************************************************************)
EXTENDS Session, SequenceLemmas

\* No session is resumed, no answer is later than the retry interval, and the broker's
\* identifiers are none the client may use.
CleanSessions ==
    /\ Resume \subseteq {FALSE}
    /\ ~Slow /\ RetryInterval > 0
    /\ BrokerIds \intersect (1 .. MaxPublishes) = {}

\* What the steps of one connection need of that.
ApartIds == RetryInterval > 0 /\ BrokerIds \intersect (1 .. MaxPublishes) = {}

Outbound == [id : Nat \ {0}, n : Nat, qos : 0 .. 2, released : BOOLEAN]
Pool == {p \in [m_nextId : Nat \ {0}, m_availableIds : Seq(Nat)] :
            /\ ToSet(p.m_availableIds) \subseteq 1 .. p.m_nextId - 1
            /\ IsInjective(p.m_availableIds)}
Tracker == [m_receiveAllowance    : Nat,
            m_sendAllowance       : Nat,
            m_maxReceiveAllowance : Nat,
            m_maxSendAllowance    : Nat,
            m_receivedPublishIDs  : SUBSET Nat,
            m_sentPublishIDs      : SUBSET Nat]

\* A QoS 2 publish of the broker has an identifier.
FromBroker == {p \in Packets : p.type = "PUBLISH" /\ p.qos = 2 => p.id # 0}

\* The types, until a session is resumed.
Typed ==
    /\ m_packetIdPool \in Pool
    /\ m_messages \in Seq(Messages)
    /\ m_sendQueue \in Seq(Packets) /\ delayed \in Seq(Packets)
    /\ toBroker \in Seq(Packets) /\ toClient \in Seq(FromBroker)
    /\ m_receiveMaximumTracker \in Tracker
    /\ connected \in BOOLEAN /\ cutOff \in BOOLEAN
    /\ tick \in {"idle", "send", "receive", "retry", "crashed"}
    /\ broker \in [received : SUBSET Nat, outbound : SUBSET Outbound]
    /\ published \in Seq(0 .. 2) /\ ids \in Seq(Nat)
    /\ Len(ids) = Len(published) /\ Len(published) <= MaxPublishes
    /\ delivered \in [0 .. MaxPublishes -> Nat]
    /\ completed \subseteq DOMAIN published /\ refused \subseteq DOMAIN published
    /\ sent \in Seq(0 .. 2) /\ Len(sent) <= MaxIncoming
    /\ received \in [1 .. MaxIncoming -> Nat]
    /\ settled \subseteq Nat /\ losses \in Nat

\* The packets of the client that wait to be sent, those on their way, and those of
\* the broker; the messages of the session, the client's own and the broker's, and
\* those the broker has not finished.
Waiting == ToSet(m_sendQueue) \union ToSet(delayed)
Leaving == ToSet(toBroker)
Arriving == ToSet(toClient)
KeptOf(ms) == {[id |-> ms[i].id, n |-> ms[i].n] : i \in DOMAIN ms}
Kept == KeptOf(m_messages)
Own == {m \in Kept : m.n # 0}
Foreign == {m \in Kept : m.n = 0}
Promised == {[id |-> o.id, n |-> o.n] : o \in broker.outbound}
Held == m_receiveMaximumTracker.m_receivedPublishIDs

\* Two packets of one handshake, or twice the same publish without one.
Clash(p, q) == p.id = q.id /\ (p.id = 0 => p.n = q.n)

Alone(s) == \A i, j \in DOMAIN s : Clash(s[i], s[j]) => i = j

OnePacketEach ==
    /\ Alone(m_sendQueue) /\ Alone(delayed) /\ Alone(toBroker) /\ Alone(toClient)
    /\ \A p \in ToSet(m_sendQueue), q \in ToSet(delayed) : ~Clash(p, q)
    /\ \A p \in Waiting, q \in Leaving : ~Clash(p, q)
    /\ \A p \in Waiting \union Leaving, q \in Arriving : p.id = q.id => p.id = 0

\* The identifiers given and not given yet, and the publishes made.
Pooled ==
    /\ m_packetIdPool.m_nextId <= Len(published) + 1
    /\ \A n \in DOMAIN ids : ids[n] = 0 <=> published[n] = 0
    /\ \A n \in completed \union refused : published[n] # 0
    /\ \A n \in 1 .. MaxPublishes : n > Len(published) => delivered[n] = 0
    /\ \A n \in 1 .. MaxIncoming : n > Len(sent) => received[n] = 0
    /\ settled \subseteq DOMAIN sent

\* A list the map knows all of, each message under an identifier of its own, with none
\* to be retried.
Tidy(ms) ==
    /\ \A i, j \in DOMAIN ms : ms[i].id = ms[j].id => i = j
    /\ \A i \in DOMAIN ms : ms[i].mapped /\ ms[i].retryIn > 0

\* The messages of the session and the publishes of the broker.
Listed ==
    /\ Tidy(m_messages)
    /\ \A o \in Promised :
          /\ o.id \in BrokerIds /\ o.n \in DOMAIN sent /\ sent[o.n] # 0 /\ o.n \notin settled
    /\ \A o1, o2 \in Promised : o1.id = o2.id \/ o1.n = o2.n => o1 = o2
    /\ \A o1, o2 \in broker.outbound : o1.id = o2.id => o1 = o2

Owned ==
    \A m \in Own :
       /\ m.n \in DOMAIN published /\ published[m.n] # 0 /\ m.id = ids[m.n]
       /\ m.id \in UsedIds(m_packetIdPool)
       /\ m.n \notin completed \union refused
       /\ \A k \in DOMAIN ids : k > m.n => ids[k] # m.id

Matched ==
    /\ \A m \in Foreign : \E o \in Promised : o.id = m.id
    /\ \A m \in Kept : \E p \in Waiting \union Leaving \union Arriving : p.id = m.id
    /\ broker.received \subseteq {m.id : m \in Own}

\* The Receive Maximum of the client: what it holds of the broker's publishes.
Balanced ==
    /\ IsFiniteSet(broker.outbound) /\ Cardinality(broker.outbound) <= ReceiveMaximum
    /\ IsFiniteSet(Held) /\ Held \subseteq {o.id : o \in Promised}
    /\ m_receiveMaximumTracker.m_receiveAllowance + Cardinality(Held) = ReceiveMaximum
    /\ m_receiveMaximumTracker.m_maxReceiveAllowance = ReceiveMaximum

\* What a packet of the client says of the session and of the broker.
ToBrokerFits(p) ==
    /\ p.type = "PUBLISH" =>
          /\ p.n \in DOMAIN published /\ p.qos = published[p.n] /\ p.id = ids[p.n]
          /\ delivered[p.n] = 0
          /\ p.qos > 0 => p.id \notin broker.received /\ \E m \in Own : m.n = p.n
    /\ p.type = "PUBREL" => \E m \in Own : m.id = p.id /\ delivered[m.n] > 0
    /\ p.type \in {"PUBACK", "PUBREC", "PUBCOMP"} =>
          \E o \in Promised : o.id = p.id /\ received[o.n] > 0
    /\ p.type = "PUBREC" => \E m \in Foreign : m.id = p.id
    /\ p.type = "PUBACK" => \A m \in Kept : m.id # p.id

\* What a packet of the broker says.
ToClientFits(p) ==
    /\ p.type = "PUBLISH" =>
          /\ p.n \in DOMAIN sent /\ p.qos = sent[p.n] /\ received[p.n] = 0
          /\ p.qos = 0 => p.id = 0
          /\ p.qos > 0 => /\ p.id \notin Held
                          /\ \A m \in Kept : m.id # p.id
                          /\ \E o \in Promised : o.id = p.id /\ o.n = p.n
    /\ p.type = "PUBREL" =>
          /\ \E m \in Foreign : m.id = p.id
          /\ \E o \in Promised : o.id = p.id /\ received[o.n] > 0
    /\ p.type \in {"PUBACK", "PUBREC", "PUBCOMP"} =>
          /\ p.n \in {0, 1}
          /\ \E m \in Own : m.id = p.id /\ (delivered[m.n] > 0 <=> p.n = 0)
    /\ p.type \in {"PUBACK", "PUBCOMP"} \/ (p.type = "PUBREC" /\ p.n = 1)
          => p.id \notin broker.received

Fits ==
    /\ \A p \in Waiting \union Leaving : ToBrokerFits(p)
    /\ \A p \in Leaving : p.type \in {"PUBACK", "PUBCOMP"} =>
          p.id \notin Held /\ \A m \in Kept : m.id # p.id
    /\ \A p \in Arriving : ToClientFits(p)

\* Where the packets may be.
Places ==
    /\ tick # "crashed" /\ ~cutOff
    /\ tick # "send" => delayed = <<>>
    /\ ~connected => m_sendQueue = <<>> /\ delayed = <<>> /\ toBroker = <<>> /\ toClient = <<>>
                     /\ tick = "idle"
    /\ losses = 0 => connected /\ UsedIds(m_packetIdPool) \subseteq {m.id : m \in Own}

Live == Owned /\ Matched /\ Balanced /\ Fits

SessionInv == Typed /\ OnePacketEach /\ Pooled /\ Listed /\ Places /\ (connected => Live)

-----------------------------------------------------------------------------
(* Queues of packets and the list of messages, as sets.                     *)

\* A packet behind others it does not clash with.
LEMMA AloneAppend ==
    ASSUME NEW s \in Seq(Packets), NEW p \in Packets, Alone(s),
           \A q \in ToSet(s) : ~Clash(p, q)
    PROVE  Alone(Append(s, p))
<1>1. /\ DOMAIN s = 1 .. Len(s) /\ Len(s) \in Nat /\ DOMAIN Append(s, p) = 1 .. Len(s) + 1
      /\ \A i \in 1 .. Len(s) : Append(s, p)[i] = s[i]
      /\ Append(s, p)[Len(s) + 1] = p
  BY AppendProperties, LenProperties
<1>2. \A i \in DOMAIN s : ~Clash(p, s[i]) /\ ~Clash(s[i], p)
  BY DEF ToSet, Clash
<1>3. PICK t : t = Append(s, p)
  OBVIOUS
<1>4. \A i, j \in 1 .. Len(s) + 1 : Clash(t[i], t[j]) => i = j
  <2> TAKE i, j \in 1 .. Len(s) + 1
  <2>1. CASE i \in 1 .. Len(s) /\ j \in 1 .. Len(s)
    BY <1>1, <1>3, <2>1 DEF Alone
  <2>2. CASE i \in 1 .. Len(s) /\ j = Len(s) + 1
    BY <1>1, <1>2, <1>3, <2>2
  <2>3. CASE i = Len(s) + 1 /\ j \in 1 .. Len(s)
    BY <1>1, <1>2, <1>3, <2>3
  <2> QED
    BY <1>1, <2>1, <2>2, <2>3
<1> QED
  BY <1>1, <1>3, <1>4 DEF Alone

\* What is behind the first packet.
LEMMA AloneTail ==
    ASSUME NEW s \in Seq(Packets), Alone(s), s # <<>>
    PROVE  /\ Alone(Tail(s)) /\ Tail(s) \in Seq(Packets)
           /\ Head(s) \in Packets /\ Head(s) \in ToSet(s)
           /\ ToSet(Tail(s)) = ToSet(s) \ {Head(s)}
           /\ \A q \in ToSet(Tail(s)) : ~Clash(Head(s), q)
<1>1. /\ Head(s) \in Packets /\ Head(s) = s[1] /\ Tail(s) \in Seq(Packets)
      /\ Len(Tail(s)) = Len(s) - 1 /\ Len(s) \in Nat /\ Len(s) >= 1
      /\ \A i \in 1 .. Len(s) - 1 : Tail(s)[i] = s[i + 1]
      /\ DOMAIN s = 1 .. Len(s) /\ DOMAIN Tail(s) = 1 .. Len(s) - 1
  BY HeadTailProperties, LenProperties, EmptySeq
<1>2. PICK t, h : t = Tail(s) /\ h = Head(s)
  OBVIOUS
<1>3. \A i \in 1 .. Len(s) - 1 : t[i] = s[i + 1] /\ i + 1 \in DOMAIN s /\ i + 1 # 1
  BY <1>1, <1>2
<1>4. Alone(t)
  BY <1>1, <1>2, <1>3 DEF Alone
<1>5. \A q \in ToSet(t) : ~Clash(h, q)
  <2> SUFFICES ASSUME NEW i \in DOMAIN t PROVE ~Clash(h, t[i])
    BY DEF ToSet
  <2> QED
    BY <1>1, <1>2, <1>3 DEF Alone
<1>6. Clash(h, h)
  BY DEF Clash
<1>7. h \in ToSet(s) /\ ToSet(t) \subseteq ToSet(s)
  BY <1>1, <1>2, <1>3 DEF ToSet
<1>8. \A q \in ToSet(s) : q = h \/ q \in ToSet(t)
  <2> SUFFICES ASSUME NEW i \in DOMAIN s, i # 1 PROVE s[i] \in ToSet(t)
    BY <1>1, <1>2 DEF ToSet
  <2>1. i - 1 \in 1 .. Len(s) - 1 /\ i - 1 + 1 = i
    BY <1>1
  <2>2. i - 1 \in DOMAIN t /\ t[i - 1] = s[i]
    BY <1>1, <1>2, <1>3, <2>1
  <2> QED
    BY <2>2 DEF ToSet
<1>9. ToSet(t) = ToSet(s) \ {h}
  BY <1>5, <1>6, <1>7, <1>8
<1> QED
  BY <1>1, <1>2, <1>4, <1>5, <1>7, <1>9

\* The least of a set of numbers is one of them, and the least.
LEMMA MinIsElement ==
    ASSUME NEW S \in SUBSET Nat, S # {}
    PROVE  Min(S) \in S /\ \A y \in S : Min(S) =< y
<1> DEFINE R == {ss \in Nat \X Nat : ss[1] < ss[2]}
<1>1. IsWellFoundedOn(R, Nat)
  BY NatLessThanWellFounded DEF OpToRel
<1> HIDE DEF R
<1>2. PICK x \in S : \A y \in S : ~ (<<y, x>> \in R)
  BY <1>1, WFMin
<1>3. \A y \in S : x =< y
  <2> TAKE y \in S
  <2>1. x \in Nat /\ y \in Nat
    OBVIOUS
  <2>2. <<y, x>> \in Nat \X Nat /\ ~(<<y, x>> \in R)
    BY <1>2, <2>1
  <2>3. ~(y < x)
    BY <2>2 DEF R
  <2> QED
    BY <2>1, <2>3
<1> QED
  BY <1>3 DEF Min

\* Erasing takes one element out, if the identifier is known.
LEMMA EraseShape ==
    ASSUME NEW ms \in Seq(Messages), NEW id
    PROVE  LET t == EraseMessage(ms, id) IN
           \/ t = ms /\ ~InSession(ms, id)
           \/ \E k \in DOMAIN ms :
                 /\ IsMessage(ms[k], id) /\ t \in Seq(Messages) /\ Len(t) = Len(ms) - 1
                 /\ \A i \in 1 .. Len(ms) - 1 : t[i] = IF i < k THEN ms[i] ELSE ms[i + 1]
<1>1. DOMAIN ms = 1 .. Len(ms) /\ Len(ms) \in Nat
  BY LenProperties
<1> DEFINE I == {i \in 1 .. Len(ms) : IsMessage(ms[i], id)}
<1>2. CASE I = {}
  BY <1>1, <1>2 DEF EraseMessage, RemoveFirstMatch, InSession
<1>3. CASE I # {}
  <2> DEFINE k == Min(I)
  <2>1. EraseMessage(ms, id) = RemoveAt(ms, k)
    BY <1>3 DEF EraseMessage, RemoveFirstMatch, SelectInSeq
  <2>2. k \in I
    <3>1. I \in SUBSET Nat
      BY <1>1
    <3> HIDE DEF I
    <3> QED
      BY <1>3, <3>1, MinIsElement
  <2>3. k \in 1 .. Len(ms) /\ IsMessage(ms[k], id)
    BY <2>2
  <2> HIDE DEF k
  <2> DEFINE front == SubSeq(ms, 1, k - 1)
             back == SubSeq(ms, k + 1, Len(ms))
  <2>4. /\ front \in Seq(Messages) /\ Len(front) = k - 1
        /\ \A i \in 1 .. k - 1 : front[i] = ms[i]
    <3>1. k \in Int /\ k - 1 \in Int /\ 1 \in Int /\ (1 <= k - 1 \/ k - 1 = 0)
      BY <1>1, <2>3
    <3>2. \A i \in 1 .. k - 1 : ms[i] \in Messages
      BY <1>1, <2>3, ElementOfSeq
    <3>3. /\ front \in Seq(Messages)
          /\ Len(front) = IF 1 <= k - 1 THEN k - 1 - 1 + 1 ELSE 0
          /\ \A i \in 1 .. k - 1 - 1 + 1 : front[i] = ms[1 + i - 1]
      BY <3>1, <3>2, SubSeqProperties
    <3> HIDE DEF front
    <3> QED
      BY <3>1, <3>3
  <2>5. /\ back \in Seq(Messages) /\ Len(back) = Len(ms) - k
        /\ \A i \in 1 .. Len(ms) - k : back[i] = ms[i + k]
    <3>1. k \in Int /\ k + 1 \in Int /\ Len(ms) \in Int /\ k <= Len(ms)
      BY <1>1, <2>3
    <3>2. \A i \in k + 1 .. Len(ms) : ms[i] \in Messages
      BY <1>1, <2>3, ElementOfSeq
    <3>3. /\ back \in Seq(Messages)
          /\ Len(back) = IF k + 1 <= Len(ms) THEN Len(ms) - (k + 1) + 1 ELSE 0
          /\ \A i \in 1 .. Len(ms) - (k + 1) + 1 : back[i] = ms[(k + 1) + i - 1]
      BY <3>1, <3>2, SubSeqProperties
    <3> HIDE DEF back
    <3>4. \A i \in 1 .. Len(ms) - k : (k + 1) + i - 1 = i + k
      BY <3>1
    <3> QED
      BY <3>1, <3>3, <3>4
  <2>6. RemoveAt(ms, k) = front \o back
    BY DEF RemoveAt
  <2> HIDE DEF front, back
  <2>7. /\ front \o back \in Seq(Messages) /\ Len(front \o back) = Len(front) + Len(back)
        /\ \A i \in 1 .. Len(front) + Len(back) :
               (front \o back)[i] = IF i <= Len(front) THEN front[i] ELSE back[i - Len(front)]
    BY <2>4, <2>5, ConcatProperties
  <2>8. PICK t : t = front \o back
    OBVIOUS
  <2>9. Len(t) = Len(ms) - 1
    <3>1. Len(t) = Len(front) + Len(back)
      BY <2>7, <2>8, Zenon
    <3> QED
      BY <1>1, <2>3, <2>4, <2>5, <3>1
  <2>10. ASSUME NEW i \in 1 .. Len(ms) - 1
         PROVE  t[i] = IF i < k THEN ms[i] ELSE ms[i + 1]
    <3>1. i \in 1 .. Len(front) + Len(back)
      BY <1>1, <2>3, <2>4, <2>5
    <3>2. t[i] = IF i <= Len(front) THEN front[i] ELSE back[i - Len(front)]
      BY <2>7, <2>8, <3>1, Zenon
    <3>3. CASE i < k
      <4>1. i <= Len(front) /\ i \in 1 .. k - 1
        BY <1>1, <2>3, <2>4, <3>3
      <4> QED
        BY <2>4, <3>2, <3>3, <4>1
    <3>4. CASE ~(i < k)
      <4>1. ~(i <= Len(front)) /\ i - Len(front) \in 1 .. Len(ms) - k
            /\ (i - Len(front)) + k = i + 1
        BY <1>1, <2>3, <2>4, <3>4
      <4>2. back[i - Len(front)] = ms[(i - Len(front)) + k]
        BY <2>5, <4>1
      <4> QED
        BY <3>2, <3>4, <4>1, <4>2
    <3> QED
      BY <3>3, <3>4
  <2> QED
    BY <1>1, <2>1, <2>3, <2>6, <2>7, <2>8, <2>9, <2>10
<1> QED
  BY <1>2, <1>3
\* Erasing, in a tidy list, leaves the messages with other identifiers.
LEMMA EraseKept ==
    ASSUME NEW ms \in Seq(Messages), NEW id, Tidy(ms)
    PROVE  /\ EraseMessage(ms, id) \in Seq(Messages) /\ Tidy(EraseMessage(ms, id))
           /\ KeptOf(EraseMessage(ms, id)) = {m \in KeptOf(ms) : m.id # id}
<1>1. DOMAIN ms = 1 .. Len(ms) /\ Len(ms) \in Nat
  BY LenProperties
<1>2. PICK t : t = EraseMessage(ms, id)
  OBVIOUS
<1>3. ASSUME t = ms, ~InSession(ms, id)
      PROVE  Tidy(t) /\ KeptOf(t) = {m \in KeptOf(ms) : m.id # id}
  <2>1. \A i \in DOMAIN ms : ms[i].id # id
    BY <1>3 DEF InSession, IsMessage, Tidy
  <2> QED
    BY <1>3, <2>1 DEF KeptOf
<1>4. ASSUME NEW k \in DOMAIN ms, IsMessage(ms[k], id), t \in Seq(Messages),
             Len(t) = Len(ms) - 1,
             \A i \in 1 .. Len(ms) - 1 : t[i] = IF i < k THEN ms[i] ELSE ms[i + 1]
      PROVE  Tidy(t) /\ KeptOf(t) = {m \in KeptOf(ms) : m.id # id}
  <2>1. DOMAIN t = 1 .. Len(ms) - 1
    BY <1>4, LenProperties
  <2> DEFINE at(i) == IF i < k THEN i ELSE i + 1
             back(i) == IF i < k THEN i ELSE i - 1
  <2>2. \A i \in DOMAIN t : at(i) \in DOMAIN ms /\ at(i) # k /\ t[i] = ms[at(i)]
    BY <1>1, <1>4, <2>1
  <2>3. \A i, j \in DOMAIN t : at(i) = at(j) => i = j
    BY <1>1, <2>1
  <2>4. \A j \in DOMAIN ms : j # k => back(j) \in DOMAIN t /\ at(back(j)) = j
    BY <1>1, <2>1
  <2>5. ms[k].id = id
    BY <1>4 DEF IsMessage
  <2> HIDE DEF at, back
  <2>6. Tidy(t)
    BY <2>2, <2>3 DEF Tidy
  <2>7. \A j \in DOMAIN ms : ms[j].id # id => \E i \in DOMAIN t : t[i] = ms[j]
    <3> TAKE j \in DOMAIN ms
    <3> HAVE ms[j].id # id
    <3>1. j # k
      BY <2>5
    <3> QED
      BY <2>2, <2>4, <3>1
  <2>8. \A i \in DOMAIN t : \E j \in DOMAIN ms : t[i] = ms[j] /\ ms[j].id # id
    BY <2>2, <2>5 DEF Tidy
  <2>9. KeptOf(t) = {m \in KeptOf(ms) : m.id # id}
    BY <2>7, <2>8 DEF KeptOf
  <2> QED
    BY <2>6, <2>9
<1>5. \/ t = ms /\ ~InSession(ms, id)
      \/ \E k \in DOMAIN ms :
            /\ IsMessage(ms[k], id) /\ t \in Seq(Messages) /\ Len(t) = Len(ms) - 1
            /\ \A i \in 1 .. Len(ms) - 1 : t[i] = IF i < k THEN ms[i] ELSE ms[i + 1]
  BY <1>2, EraseShape
<1>6. t \in Seq(Messages) /\ Tidy(t) /\ KeptOf(t) = {m \in KeptOf(ms) : m.id # id}
  BY <1>3, <1>4, <1>5
<1> QED
  BY <1>2, <1>6

\* A message behind others: the same list, and a new one if the identifier is new.
LEMMA PushTyped ==
    ASSUME NEW ms \in Seq(Messages), NEW m \in Messages
    PROVE  PushMessage(ms, m) \in Seq(Messages)
<1>1. PICK n \in Nat : ms \in [1 .. n -> Messages]
  BY LenProperties
<1> DEFINE u == [i \in DOMAIN ms |-> IF IsMessage(ms[i], m.id) THEN [ms[i] EXCEPT !.mapped = FALSE]
                                                               ELSE ms[i]]
<1>2. \A x \in Messages : [x EXCEPT !.mapped = FALSE] \in Messages
  BY DEF Messages
<1>3. u \in [1 .. n -> Messages]
  BY <1>1, <1>2
<1> HIDE DEF u
<1>4. u \in Seq(Messages)
  BY <1>3, SeqDef
<1> QED
  BY <1>4, AppendProperties DEF PushMessage, u

\* Such a list stays tidy.
LEMMA PushKept ==
    ASSUME NEW ms \in Seq(Messages), NEW m \in Messages, Tidy(ms), m.mapped, m.retryIn > 0,
           \A k \in KeptOf(ms) : k.id # m.id
    PROVE  /\ PushMessage(ms, m) \in Seq(Messages) /\ Tidy(PushMessage(ms, m))
           /\ KeptOf(PushMessage(ms, m)) = KeptOf(ms) \union {[id |-> m.id, n |-> m.n]}
<1>1. DOMAIN ms = 1 .. Len(ms) /\ Len(ms) \in Nat /\ ms = [i \in DOMAIN ms |-> ms[i]]
  BY LenProperties
<1>2. \A i \in DOMAIN ms : ms[i].id # m.id
  <2> TAKE i \in DOMAIN ms
  <2> DEFINE k == [id |-> ms[i].id, n |-> ms[i].n]
  <2>1. k \in KeptOf(ms) /\ k.id = ms[i].id
    BY DEF KeptOf
  <2> QED
    BY <2>1
<1>3. \A i \in DOMAIN ms : ~IsMessage(ms[i], m.id)
  BY <1>2 DEF IsMessage
<1> DEFINE u == [i \in DOMAIN ms |-> IF IsMessage(ms[i], m.id) THEN [ms[i] EXCEPT !.mapped = FALSE]
                                                               ELSE ms[i]]
<1>4. u = [i \in DOMAIN ms |-> ms[i]]
  BY <1>3
<1>5. PushMessage(ms, m) = Append(u, m)
  BY DEF PushMessage
<1> HIDE DEF u
<1>6. PICK t : t = PushMessage(ms, m)
  OBVIOUS
<1>7. /\ t \in Seq(Messages) /\ Len(t) = Len(ms) + 1 /\ DOMAIN t = 1 .. Len(ms) + 1
      /\ \A i \in 1 .. Len(ms) : t[i] = ms[i]
      /\ t[Len(ms) + 1] = m
  <2>1. t = Append(ms, m)
    BY <1>1, <1>4, <1>5, <1>6
  <2> QED
    BY <2>1, AppendProperties, LenProperties
<1>8. \A i \in DOMAIN t : (i \in DOMAIN ms /\ t[i] = ms[i]) \/ (i = Len(ms) + 1 /\ t[i] = m)
  BY <1>1, <1>7
<1>9. \A i \in DOMAIN ms : i \in DOMAIN t /\ t[i] = ms[i]
  BY <1>1, <1>7
<1>10. Len(ms) + 1 \in DOMAIN t
  BY <1>1, <1>7
<1>11. Tidy(t)
  BY <1>2, <1>8 DEF Tidy
<1>12. KeptOf(t) = KeptOf(ms) \union {[id |-> m.id, n |-> m.n]}
  BY <1>7, <1>8, <1>9, <1>10 DEF KeptOf
<1> QED
  BY <1>6, <1>7, <1>11, <1>12

Statuses == {"WaitingForAck", "WaitingForPubRec", "WaitingForPubComp", "WaitingForPubRel",
             "NeedToSendPubComp"}

\* An update changes a message and not which message it is.
LEMMA UpdateTyped ==
    ASSUME m_messages \in Seq(Messages), NEW id, NEW status \in Statuses,
           UpdateMessage(id, status)
    PROVE  /\ m_messages' \in Seq(Messages) /\ tick' \in {tick, "crashed"}
           /\ KeptOf(m_messages') = KeptOf(m_messages)
           /\ RetryInterval > 0 /\ Tidy(m_messages) => Tidy(m_messages')
           /\ InSession(m_messages, id) => UNCHANGED tick
<1>1. RetryInterval \in Nat
  BY SessionAssumption
<1>2. CASE ~InSession(m_messages, id)
  BY <1>2 DEF UpdateMessage
<1>3. CASE InSession(m_messages, id)
  <2>1. PICK n \in Nat : m_messages \in [1 .. n -> Messages]
    BY LenProperties
  <2> DEFINE new(x) == [x EXCEPT !.status = status, !.retryIn = RetryInterval]
  <2>2. \A x \in Messages : /\ new(x) \in Messages /\ new(x).id = x.id /\ new(x).n = x.n
                            /\ new(x).mapped = x.mapped /\ new(x).retryIn = RetryInterval
    <3> TAKE x \in Messages
    <3>1. x.id \in Nat \ {0} /\ x.n \in 0 .. MaxPublishes /\ x.qos \in 0 .. 2 /\ x.mapped \in BOOLEAN
      BY DEF Messages
    <3>2. RetryInterval \in 0 .. RetryInterval
      BY <1>1
    <3>3. new(x) \in Messages
      BY <3>2 DEF Messages, Statuses
    <3> QED
      BY <3>3 DEF Messages
  <2>3. m_messages' = [i \in DOMAIN m_messages |->
                IF IsMessage(m_messages[i], id) THEN new(m_messages[i]) ELSE m_messages[i]]
    BY <1>3 DEF UpdateMessage
  <2> HIDE DEF new
  <2>4. m_messages' \in [1 .. n -> Messages]
    BY <2>1, <2>2, <2>3
  <2>5. m_messages' \in Seq(Messages)
    BY <2>4, SeqDef
  <2>6. \A i \in DOMAIN m_messages :
            /\ m_messages'[i].id = m_messages[i].id /\ m_messages'[i].n = m_messages[i].n
            /\ m_messages'[i].mapped = m_messages[i].mapped
            /\ m_messages'[i].retryIn \in {m_messages[i].retryIn, RetryInterval}
    BY <2>1, <2>2, <2>3
  <2>7. DOMAIN m_messages' = DOMAIN m_messages
    BY <2>1, <2>4
  <2>8. KeptOf(m_messages') = KeptOf(m_messages)
    BY <2>6, <2>7 DEF KeptOf
  <2>9. RetryInterval > 0 /\ Tidy(m_messages) => Tidy(m_messages')
    BY <2>6, <2>7 DEF Tidy
  <2> QED
    BY <1>3, <2>5, <2>8, <2>9 DEF UpdateMessage
<1> QED
  BY <1>2, <1>3
-----------------------------------------------------------------------------
(* The identifiers.                                                         *)

\* One more in front.
LEMMA StackPush ==
    ASSUME NEW s \in Seq(Nat), NEW id \in Nat, id \notin ToSet(s), IsInjective(s)
    PROVE  /\ <<id>> \o s \in Seq(Nat) /\ IsInjective(<<id>> \o s)
           /\ ToSet(<<id>> \o s) = ToSet(s) \union {id}
<1>1. <<id>> \in Seq(Nat) /\ Len(<<id>>) = 1 /\ <<id>>[1] = id /\ ToSet(<<id>>) = {id}
  BY DEF ToSet
<1>2. PICK t : t = <<id>> \o s
  OBVIOUS
<1>3. /\ t \in Seq(Nat) /\ Len(t) = 1 + Len(s) /\ Len(s) \in Nat
      /\ \A i \in 1 .. 1 + Len(s) : t[i] = IF i <= 1 THEN id ELSE s[i - 1]
      /\ DOMAIN s = 1 .. Len(s)
  <2>1. PICK u \in Seq(Nat) : u = <<id>> /\ Len(u) = 1 /\ u[1] = id
    BY <1>1
  <2>2. /\ u \o s \in Seq(Nat) /\ Len(u \o s) = Len(u) + Len(s)
        /\ \A i \in 1 .. Len(u) + Len(s) : (u \o s)[i] = IF i <= Len(u) THEN u[i] ELSE s[i - Len(u)]
    BY ConcatProperties
  <2>3. t = u \o s
    BY <1>2, <2>1
  <2>4. Len(s) \in Nat /\ DOMAIN s = 1 .. Len(s)
    BY LenProperties
  <2>5. t \in Seq(Nat) /\ Len(t) = 1 + Len(s)
    BY <2>1, <2>2, <2>3
  <2>6. \A i \in 1 .. 1 + Len(s) : t[i] = IF i <= 1 THEN u[i] ELSE s[i - 1]
    BY <2>1, <2>2, <2>3
  <2> QED
    BY <2>1, <2>4, <2>5, <2>6
<1>4. DOMAIN t = 1 .. 1 + Len(s)
  BY <1>3, LenProperties
<1>5. \A i \in DOMAIN s : s[i] # id
  BY DEF ToSet
<1>6. \A i \in DOMAIN t : (i = 1 /\ t[i] = id) \/ (i # 1 /\ i - 1 \in DOMAIN s /\ t[i] = s[i - 1])
  BY <1>3, <1>4
<1>7. IsInjective(t)
  <2> SUFFICES ASSUME NEW i \in DOMAIN t, NEW j \in DOMAIN t, t[i] = t[j] PROVE i = j
    BY DEF IsInjective
  <2>1. CASE i = 1 \/ j = 1
    BY <1>5, <1>6, <2>1
  <2>2. CASE i # 1 /\ j # 1
    <3>1. i - 1 = j - 1
      BY <1>6, <2>2 DEF IsInjective
    <3> QED
      BY <1>3, <1>4, <3>1
  <2> QED
    BY <2>1, <2>2
<1>8. ToSet(t) = ToSet(s) \union {id}
  <2>1. PICK u \in Seq(Nat) : u = <<id>>
    BY <1>1
  <2>2. ToSet(u \o s) = ToSet(u) \union ToSet(s)
    BY ElementsConcat
  <2> QED
    BY <1>1, <1>2, <2>1, <2>2
<1> QED
  BY <1>2, <1>3, <1>7, <1>8

\* One less.
LEMMA StackPop ==
    ASSUME NEW s \in Seq(Nat), s # <<>>, IsInjective(s)
    PROVE  /\ Tail(s) \in Seq(Nat) /\ IsInjective(Tail(s))
           /\ Head(s) \in ToSet(s) /\ ToSet(Tail(s)) = ToSet(s) \ {Head(s)}
<1>1. PICK t, h : t = Tail(s) /\ h = Head(s)
  OBVIOUS
<1>2. /\ h = s[1] /\ t \in Seq(Nat)
      /\ Len(t) = Len(s) - 1 /\ Len(s) \in Nat /\ Len(s) >= 1
      /\ \A i \in 1 .. Len(s) - 1 : t[i] = s[i + 1]
      /\ DOMAIN s = 1 .. Len(s) /\ DOMAIN t = 1 .. Len(s) - 1
  BY <1>1, HeadTailProperties, LenProperties, EmptySeq
<1>3. \A i \in DOMAIN t : t[i] = s[i + 1] /\ i + 1 \in DOMAIN s /\ i + 1 # 1
  BY <1>2
<1>4. IsInjective(t)
  <2> SUFFICES ASSUME NEW i \in DOMAIN t, NEW j \in DOMAIN t, t[i] = t[j] PROVE i = j
    BY DEF IsInjective
  <2>1. i + 1 = j + 1
    BY <1>3 DEF IsInjective
  <2> QED
    BY <1>2, <2>1
<1>9. 1 \in DOMAIN s
  BY <1>2
<1>5. \A i \in DOMAIN t : t[i] # h
  BY <1>2, <1>3, <1>9 DEF IsInjective
<1>6. \A i \in DOMAIN s : i # 1 => i - 1 \in DOMAIN t /\ t[i - 1] = s[i]
  <2> TAKE i \in DOMAIN s
  <2> HAVE i # 1
  <2>1. i - 1 \in 1 .. Len(s) - 1 /\ i - 1 + 1 = i
    BY <1>2
  <2> QED
    BY <1>2, <1>3, <2>1
<1>7. ToSet(t) = ToSet(s) \ {h}
  <2>1. \A x \in ToSet(t) : x \in ToSet(s) /\ x # h
    BY <1>3, <1>5 DEF ToSet
  <2>2. \A i \in DOMAIN s : s[i] = h \/ s[i] \in ToSet(t)
    BY <1>2, <1>6, Zenon DEF ToSet
  <2>3. \A x \in ToSet(s) : x = h \/ x \in ToSet(t)
    BY <2>2, Zenon DEF ToSet
  <2> QED
    BY <2>1, <2>3
<1>8. h \in ToSet(s)
  BY <1>2, <1>9 DEF ToSet
<1> QED
  BY <1>1, <1>2, <1>4, <1>7, <1>8

\* A released identifier is not in use, whether it was or not.
LEMMA PoolRelease ==
    ASSUME NEW pool \in Pool, NEW id \in Nat
    PROVE  /\ ReleaseId(pool, id) \in Pool
           /\ ReleaseId(pool, id).m_nextId = pool.m_nextId
           /\ UsedIds(ReleaseId(pool, id)) = UsedIds(pool) \ {id}
<1>1. CASE id \notin UsedIds(pool)
  BY <1>1 DEF ReleaseId
<1>2. CASE id \in UsedIds(pool)
  <2> DEFINE s == pool.m_availableIds
             new == [pool EXCEPT !.m_availableIds = <<id>> \o s]
  <2>1. s \in Seq(Nat) /\ pool.m_nextId \in Nat \ {0} /\ IsInjective(s)
        /\ ToSet(s) \subseteq 1 .. pool.m_nextId - 1
    BY DEF Pool
  <2>2. id \in 1 .. pool.m_nextId - 1 /\ id \notin ToSet(s)
    BY <1>2 DEF UsedIds
  <2>3. /\ <<id>> \o s \in Seq(Nat) /\ IsInjective(<<id>> \o s)
        /\ ToSet(<<id>> \o s) = ToSet(s) \union {id}
    BY <2>1, <2>2, StackPush
  <2>4. new = [m_nextId |-> pool.m_nextId, m_availableIds |-> <<id>> \o s]
    <3>1. pool = [m_nextId |-> pool.m_nextId, m_availableIds |-> s]
      BY DEF Pool
    <3>2. \A v : [pool EXCEPT !.m_availableIds = v] = [m_nextId |-> pool.m_nextId, m_availableIds |-> v]
      BY <3>1
    <3> QED
      BY <3>2
  <2>5. ReleaseId(pool, id) = new
    BY <1>2 DEF ReleaseId
  <2>6. new.m_nextId = pool.m_nextId /\ new.m_availableIds = <<id>> \o s
    BY <2>4
  <2>7. new \in [m_nextId : Nat \ {0}, m_availableIds : Seq(Nat)]
    BY <2>1, <2>3, <2>4
  <2> HIDE DEF new, s
  <2>8. new \in Pool
    BY <2>1, <2>2, <2>3, <2>6, <2>7 DEF Pool
  <2>9. UsedIds(new) = UsedIds(pool) \ {id}
    BY <2>3, <2>6 DEF UsedIds, s
  <2> QED
    BY <2>5, <2>6, <2>8, <2>9
<1> QED
  BY <1>1, <1>2

\* An identifier that is handed out was not in use.
LEMMA PoolGet ==
    ASSUME NEW pool \in Pool
    PROVE  /\ AfterGetId(pool) \in Pool
           /\ AfterGetId(pool).m_nextId \in {pool.m_nextId, pool.m_nextId + 1}
           /\ NextId(pool) \in 1 .. pool.m_nextId
           /\ NextId(pool) \notin UsedIds(pool)
           /\ UsedIds(AfterGetId(pool)) = UsedIds(pool) \union {NextId(pool)}
<1> DEFINE s == pool.m_availableIds
           n == pool.m_nextId
           new == AfterGetId(pool)
<1>1. s \in Seq(Nat) /\ n \in Nat \ {0} /\ IsInjective(s) /\ ToSet(s) \subseteq 1 .. n - 1
      /\ pool = [m_nextId |-> n, m_availableIds |-> s]
  BY DEF Pool
<1>2. CASE s # <<>>
  <2>1. /\ Tail(s) \in Seq(Nat) /\ IsInjective(Tail(s))
        /\ Head(s) \in ToSet(s) /\ ToSet(Tail(s)) = ToSet(s) \ {Head(s)}
    BY <1>1, <1>2, StackPop
  <2>2. new = [m_nextId |-> n, m_availableIds |-> Tail(s)] /\ NextId(pool) = Head(s)
    BY <1>1, <1>2 DEF AfterGetId, NextId
  <2>3. new.m_nextId = n /\ new.m_availableIds = Tail(s)
        /\ new \in [m_nextId : Nat \ {0}, m_availableIds : Seq(Nat)]
    BY <1>1, <2>1, <2>2
  <2> HIDE DEF new, s, n
  <2>4. new \in Pool
    BY <1>1, <2>1, <2>3 DEF Pool
  <2>5. Head(s) \in 1 .. n - 1
    BY <1>1, <2>1
  <2>6. UsedIds(pool) = (1 .. n - 1) \ ToSet(s)
    BY DEF UsedIds, n, s
  <2>7. UsedIds(new) = (1 .. n - 1) \ ToSet(Tail(s))
    BY <2>3 DEF UsedIds
  <2>8. NextId(pool) \in 1 .. n /\ NextId(pool) \notin UsedIds(pool)
    BY <1>1, <2>1, <2>2, <2>5, <2>6
  <2>9. UsedIds(new) = UsedIds(pool) \union {NextId(pool)}
    BY <2>1, <2>2, <2>5, <2>6, <2>7
  <2> QED
    BY <2>3, <2>4, <2>8, <2>9 DEF new, n
<1>3. CASE s = <<>>
  <2>1. new = [m_nextId |-> n + 1, m_availableIds |-> s] /\ NextId(pool) = n
    BY <1>1, <1>3 DEF AfterGetId, NextId
  <2>2. new.m_nextId = n + 1 /\ new.m_availableIds = s
        /\ new \in [m_nextId : Nat \ {0}, m_availableIds : Seq(Nat)]
    BY <1>1, <2>1
  <2>3. ToSet(s) = {}
    BY <1>3, ElementsEmpty
  <2> HIDE DEF new, s, n
  <2>4. new \in Pool
    BY <1>1, <2>2, <2>3 DEF Pool
  <2>5. UsedIds(pool) = 1 .. n - 1
    BY <2>3 DEF UsedIds, n, s
  <2>6. UsedIds(new) = 1 .. n
    <3>1. ToSet(new.m_availableIds) = {} /\ new.m_nextId - 1 = n
      BY <1>1, <2>2, <2>3
    <3> QED
      BY <3>1 DEF UsedIds
  <2>7. NextId(pool) \in 1 .. n /\ NextId(pool) \notin UsedIds(pool)
    BY <1>1, <2>1, <2>5
  <2>8. UsedIds(new) = UsedIds(pool) \union {NextId(pool)}
    BY <1>1, <2>1, <2>5, <2>6
  <2> QED
    BY <2>2, <2>4, <2>7, <2>8 DEF new, n
<1> QED
  BY <1>2, <1>3
\* Cancelling a queue keeps the pool in order.
LEMMA PoolCancel ==
    ASSUME NEW pool, pool \in Pool, NEW queue, queue \in Seq(Packets)
    PROVE  /\ AfterCancel(pool, queue) \in Pool
           /\ AfterCancel(pool, queue).m_nextId = pool.m_nextId
<1> DEFINE n == Len(queue)
           S == {p \in Pool : p.m_nextId = pool.m_nextId}
           F == [i \in Nat |-> [p \in S |->
                    IF i \in 1 .. n
                    THEN IF queue[i].type = "PUBLISH" THEN ReleaseId(p, queue[i].id) ELSE p
                    ELSE p]]
           Is(f) == f = [i \in 0 .. n |->
                            IF i = 0 THEN pool
                            ELSE IF queue[i].type = "PUBLISH" THEN ReleaseId(f[i - 1], queue[i].id)
                                                              ELSE f[i - 1]]
           g == CHOOSE f : Is(f)
<1>1. n \in Nat /\ pool \in S
  BY LenProperties
<1>2. AfterCancel(pool, queue) = g[n]
  BY DEF AfterCancel
<1>3. \A i \in 1 .. n : queue[i].id \in Nat
  <2> TAKE i \in 1 .. n
  <2>1. queue[i] \in Packets
    BY ElementOfSeq
  <2> QED
    BY <2>1 DEF Packets
<1>4. \A i \in Nat : \A p \in S :
         F[i][p] = IF i \in 1 .. n
                   THEN IF queue[i].type = "PUBLISH" THEN ReleaseId(p, queue[i].id) ELSE p
                   ELSE p
  BY Zenon
<1>5. \A i \in 1 .. n : \A p \in S : ReleaseId(p, queue[i].id) \in S
  BY <1>3, PoolRelease
<1> HIDE DEF S
<1>6. F \in [Nat -> [S -> S]]
  BY <1>5
<1> HIDE DEF F
<1>7. \A i \in 1 .. n : i \in Nat /\ i # 0 /\ i - 1 \in 0 .. n
  BY <1>1
<1>8. \E f : Is(f)
  <2>1. PICK f \in [0 .. n -> S] : f[0] = pool /\ \A i \in 1 .. n : f[i] = F[i][f[i - 1]]
    <3> HIDE DEF n
    <3> QED
      BY ONLY <1>1, <1>6, FunctionByRecursion
  <2>2. \A i \in 1 .. n : f[i] = IF queue[i].type = "PUBLISH" THEN ReleaseId(f[i - 1], queue[i].id)
                                                              ELSE f[i - 1]
    BY <1>4, <1>7, <2>1
  <2>3. Is(f)
    BY <2>1, <2>2
  <2> QED
    BY <2>3
<1>9. Is(g)
  BY <1>8
<1> HIDE DEF g
<1>10. \A i \in 0 .. n : g[i] = IF i = 0 THEN pool
                               ELSE IF queue[i].type = "PUBLISH"
                                    THEN ReleaseId(g[i - 1], queue[i].id) ELSE g[i - 1]
  <2> DEFINE h == [i \in 0 .. n |->
                            IF i = 0 THEN pool
                            ELSE IF queue[i].type = "PUBLISH" THEN ReleaseId(g[i - 1], queue[i].id)
                                                              ELSE g[i - 1]]
  <2>1. \A i \in 0 .. n : h[i] = IF i = 0 THEN pool
                               ELSE IF queue[i].type = "PUBLISH"
                                    THEN ReleaseId(g[i - 1], queue[i].id) ELSE g[i - 1]
    OBVIOUS
  <2>2. g = h
    BY <1>9
  <2> HIDE DEF h
  <2> QED
    BY <2>1, <2>2
<1> DEFINE T == {i \in Nat : i \in 0 .. n => g[i] \in S}
<1>11. T = Nat
  <2>1. 0 \in T
    BY <1>1, <1>10
  <2>2. ASSUME NEW i \in T PROVE i + 1 \in T
    <3>1. SUFFICES ASSUME i + 1 \in 0 .. n PROVE g[i + 1] \in S
      OBVIOUS
    <3>2. i + 1 \in 1 .. n /\ i + 1 # 0 /\ i + 1 - 1 = i /\ i \in 0 .. n
      BY <3>1
    <3>3. g[i + 1] = IF queue[i + 1].type = "PUBLISH" THEN ReleaseId(g[i], queue[i + 1].id)
                                                      ELSE g[i]
      BY <1>10, <3>1, <3>2
    <3>4. g[i] \in S
      BY <3>2
    <3> QED
      BY <1>5, <3>2, <3>3, <3>4
  <2> HIDE DEF T
  <2>3. T \in SUBSET Nat
    BY DEF T
  <2> QED
    BY <2>1, <2>2, <2>3, Induction
<1>12. n \in T
  BY <1>1, <1>11
<1>13. g[n] \in S
  BY <1>1, <1>12
<1> QED
  BY <1>2, <1>13 DEF S
-----------------------------------------------------------------------------
(* The types.                                                               *)

\* Another allowance and other identifiers for one direction of the tracker.
LEMMA TrackerExcept ==
    ASSUME NEW t \in Tracker, NEW a \in Nat, NEW I \in SUBSET Nat
    PROVE  /\ [t EXCEPT !.m_sendAllowance = a, !.m_sentPublishIDs = I] \in Tracker
           /\ [t EXCEPT !.m_receiveAllowance = a, !.m_receivedPublishIDs = I] \in Tracker
BY DEF Tracker

\* What the operators of the tracker return.
LEMMA TrackerTyped ==
    ASSUME NEW t \in Tracker, NEW id \in Nat
    PROVE  /\ IncrementReceiveAllowance(t, id) \in Tracker
           /\ DecrementReceiveAllowance(t, id) \in Tracker
           /\ IncrementSendAllowance(t, id) \in Tracker
           /\ DecrementSendAllowance(t, id) \in Tracker
<1>1. /\ t.m_sendAllowance \in Nat /\ t.m_receiveAllowance \in Nat
      /\ t.m_sentPublishIDs \in SUBSET Nat /\ t.m_receivedPublishIDs \in SUBSET Nat
  BY DEF Tracker
<1>2. /\ t.m_sendAllowance + 1 \in Nat /\ t.m_receiveAllowance + 1 \in Nat
      /\ t.m_sendAllowance > 0 => t.m_sendAllowance - 1 \in Nat
      /\ t.m_receiveAllowance # 0 => t.m_receiveAllowance - 1 \in Nat
  BY <1>1
<1>3. /\ t.m_sentPublishIDs \ {id} \in SUBSET Nat /\ t.m_receivedPublishIDs \ {id} \in SUBSET Nat
      /\ t.m_sentPublishIDs \union {id} \in SUBSET Nat
      /\ t.m_receivedPublishIDs \union {id} \in SUBSET Nat
  BY <1>1
<1>4. IncrementReceiveAllowance(t, id) \in Tracker
  BY <1>2, <1>3, TrackerExcept DEF IncrementReceiveAllowance
<1>5. DecrementReceiveAllowance(t, id) \in Tracker
  BY <1>2, <1>3, TrackerExcept DEF DecrementReceiveAllowance, MayReceive
<1>6. IncrementSendAllowance(t, id) \in Tracker
  BY <1>2, <1>3, TrackerExcept DEF IncrementSendAllowance
<1>7. DecrementSendAllowance(t, id) \in Tracker
  BY <1>2, <1>3, TrackerExcept DEF DecrementSendAllowance, HasSendAllowance
<1> QED
  BY <1>4, <1>5, <1>6, <1>7

LEMMA NewTrackerTyped == NewTracker(ReceiveMaximum, ReceiveMaximum) \in Tracker
BY SessionAssumption DEF NewTracker, Tracker

\* The first packet of a queue and the others.
LEMMA HeadTyped ==
    ASSUME NEW S, NEW s \in Seq(S), s # <<>>
    PROVE  Head(s) \in S /\ Tail(s) \in Seq(S) /\ Head(s) \in ToSet(s)
<1>1. Head(s) \in S /\ Tail(s) \in Seq(S) /\ Head(s) = s[1]
  BY HeadTailProperties
<1>2. 1 \in DOMAIN s
  BY LenProperties, EmptySeq
<1> QED
  BY <1>1, <1>2 DEF ToSet

LEMMA AnswerTyped ==
    ASSUME NEW type \in {"PUBACK", "PUBREC", "PUBREL", "PUBCOMP"}, NEW id \in Nat
    PROVE  /\ Answer(type, id) \in FromBroker /\ Answer(type, id) \in Packets
           /\ Failed(type, id) \in FromBroker
           /\ Answer(type, id).id = id /\ Answer(type, id).type = type /\ Answer(type, id).n = 0
           /\ Failed(type, id).id = id /\ Failed(type, id).type = type /\ Failed(type, id).n = 1
BY DEF Answer, Failed, Packet, FromBroker, Packets

\* The constants of the publishes.
LEMMA ConstantTypes ==
    PublishQos \subseteq 0 .. 2 /\ IncomingQos \subseteq 0 .. 2 /\ BrokerIds \subseteq Nat \ {0}
<1>1. PublishQos \union IncomingQos \subseteq 0 .. 2 /\ BrokerIds \subseteq Nat \ {0}
  BY SessionAssumption
<1> QED
  BY <1>1, Zenon

LEMMA SentTyped ==
    ASSUME Typed
    PROVE  /\ sent \in Seq(0 .. 2) /\ Len(sent) \in Nat /\ DOMAIN sent = 1 .. Len(sent)
           /\ MaxIncoming \in Nat /\ DOMAIN sent \subseteq 1 .. MaxIncoming
<1>1. sent \in Seq(0 .. 2) /\ Len(sent) <= MaxIncoming
  BY DEF Typed
<1>2. Len(sent) \in Nat /\ DOMAIN sent = 1 .. Len(sent)
  BY <1>1, LenProperties
<1>3. MaxIncoming \in Nat
  BY SessionAssumption
<1> QED
  BY <1>1, <1>2, <1>3

LEMMA TypedInit == Init => Typed
<1> SUFFICES ASSUME Init PROVE Typed
  OBVIOUS
<1>1. MaxPublishes \in Nat /\ MaxIncoming \in Nat
  BY SessionAssumption
<1>2. m_packetIdPool \in Pool
  <2>1. ToSet(<<>>) = {} /\ IsInjective(<<>>)
    BY ElementsEmpty DEF IsInjective
  <2> QED
    BY <2>1 DEF Init, Pool
<1>3. m_receiveMaximumTracker \in Tracker
  BY NewTrackerTyped DEF Init
<1>4. delivered \in [0 .. MaxPublishes -> Nat] /\ received \in [1 .. MaxIncoming -> Nat]
  BY DEF Init
<1>5. broker \in [received : SUBSET Nat, outbound : SUBSET Outbound]
  BY DEF Init, NewBroker
<1>6. /\ Len(published) = 0 /\ Len(ids) = 0 /\ Len(sent) = 0
      /\ published \in Seq(0 .. 2) /\ ids \in Seq(Nat) /\ sent \in Seq(0 .. 2)
      /\ m_messages \in Seq(Messages) /\ m_sendQueue \in Seq(Packets) /\ delayed \in Seq(Packets)
      /\ toBroker \in Seq(Packets) /\ toClient \in Seq(FromBroker)
  BY EmptySeq DEF Init
<1>7. /\ connected \in BOOLEAN /\ cutOff \in BOOLEAN
      /\ tick \in {"idle", "send", "receive", "retry", "crashed"}
      /\ completed = {} /\ refused = {} /\ settled = {} /\ losses = 0
  BY DEF Init
<1>8. Len(published) <= MaxPublishes /\ Len(sent) <= MaxIncoming /\ Len(ids) = Len(published)
  BY <1>1, <1>6
<1> QED
  BY <1>2, <1>3, <1>4, <1>5, <1>6, <1>7, <1>8 DEF Typed

\* The retries are what each message asks for: the messages due are at the front of the
\* list.
LEMMA RetriesFlat ==
    ASSUME m_messages \in Seq(Messages), NEW S,
           \A i \in DOMAIN m_messages : Retry(m_messages[i]) \in Seq(S)
    PROVE  FlattenSeq([i \in Due |-> Retry(m_messages[i])]) \in Seq(S)
<1>1. DOMAIN m_messages = 1 .. Len(m_messages) /\ Len(m_messages) \in Nat
  BY LenProperties
<1>2. \A i \in Due : i \in 1 .. Len(m_messages) /\ \A j \in 1 .. i : j \in Due
  BY <1>1 DEF Due
<1>3. PICK k \in Nat : Due = 1 .. k
  <2> DEFINE Rest == (1 .. Len(m_messages)) \ Due
  <2>1. CASE Rest = {}
    BY <1>1, <1>2, <2>1
  <2>2. CASE Rest # {}
    <3>1. Rest \in SUBSET Nat
      BY <1>1
    <3>2. PICK k \in Rest : \A y \in Rest : k =< y
      BY <2>2, <3>1, MinIsElement
    <3>3. k \in Nat /\ k >= 1 /\ k \notin Due /\ k \in 1 .. Len(m_messages)
      BY <1>1, <3>2
    <3>4. \A i \in 1 .. k - 1 : i \in Due
      BY <1>1, <3>2, <3>3
    <3>5. \A i \in Due : i \in 1 .. k - 1
      BY <1>1, <1>2, <3>3
    <3>6. Due = 1 .. k - 1
      BY <3>4, <3>5
    <3>7. k - 1 \in Nat
      BY <3>3
    <3> QED
      BY <3>6, <3>7
  <2> QED
    BY <2>1, <2>2
<1>4. \A i \in 1 .. k : Retry(m_messages[i]) \in Seq(S)
  BY <1>1, <1>2, <1>3
<1>5. [i \in Due |-> Retry(m_messages[i])] \in [1 .. k -> Seq(S)]
  BY <1>3, <1>4
<1>6. PICK seqs : seqs = [i \in Due |-> Retry(m_messages[i])]
  OBVIOUS
<1>7. seqs \in Seq(Seq(S)) /\ <<>> \in Seq(S)
  BY <1>5, <1>6, SeqDef, EmptySeq
<1>8. FlattenSeq(seqs) \in Seq(S)
  BY <1>7, FlattenSeqAppend
<1> QED
  BY <1>6, <1>8

LEMMA RetriesTyped ==
    ASSUME m_messages \in Seq(Messages), MaxPublishes \in Nat
    PROVE  FlattenSeq([i \in Due |-> Retry(m_messages[i])]) \in Seq(Packets)
<1>1. \A m \in Messages : Retry(m) \in Seq(Packets)
  <2> TAKE m \in Messages
  <2>1. m.id \in Nat /\ m.n \in Nat /\ m.qos \in 0 .. 2
    BY DEF Messages
  <2>2. /\ Packet("PUBLISH", m.id, m.n, m.qos) \in Packets
        /\ Answer("PUBREC", m.id) \in Packets /\ Answer("PUBREL", m.id) \in Packets
    BY <2>1, AnswerTyped DEF Packet, Packets
  <2>3. \A p \in Packets : <<p>> \in Seq(Packets)
    OBVIOUS
  <2>4. <<>> \in Seq(Packets)
    BY EmptySeq
  <2>5. Retry(m) \in {<<Packet("PUBLISH", m.id, m.n, m.qos)>>, <<Answer("PUBREC", m.id)>>,
                      <<Answer("PUBREL", m.id)>>, <<>>}
    BY Zenon DEF Retry
  <2> QED
    BY <2>2, <2>3, <2>4, <2>5
<1>2. \A i \in DOMAIN m_messages : m_messages[i] \in Messages
  BY ElementOfSeq, LenProperties
<1> QED
  BY <1>1, <1>2, RetriesFlat

\* The first packets of the queues, and what sending and receiving do to the types.
LEMMA HeadsTyped ==
    ASSUME Typed
    PROVE  /\ m_sendQueue # <<>> => Head(m_sendQueue) \in Packets /\ Tail(m_sendQueue) \in Seq(Packets)
           /\ toBroker # <<>> => Head(toBroker) \in Packets /\ Tail(toBroker) \in Seq(Packets)
           /\ toClient # <<>> => Head(toClient) \in FromBroker /\ Tail(toClient) \in Seq(FromBroker)
BY HeadTyped DEF Typed

LEMMA QueueTyped ==
    ASSUME Typed, NEW p \in Packets
    PROVE  /\ Append(m_sendQueue, p) \in Seq(Packets) /\ Append(delayed, p) \in Seq(Packets)
           /\ Append(toBroker, p) \in Seq(Packets)
           /\ p \in FromBroker => Append(toClient, p) \in Seq(FromBroker)
BY AppendProperties DEF Typed

LEMMA RemoveMessageTyped ==
    ASSUME Typed, NEW id \in Nat, RemoveMessage(id)
    PROVE  m_messages' \in Seq(Messages) /\ m_packetIdPool' \in Pool
<1>1. m_packetIdPool' \in Pool
  BY PoolRelease DEF RemoveMessage, Typed
<1>2. m_messages' = EraseMessage(m_messages, id) /\ m_messages \in Seq(Messages)
  BY DEF RemoveMessage, Typed
<1>3. PICK t : t = EraseMessage(m_messages, id)
  OBVIOUS
<1>4. t \in Seq(Messages)
  BY <1>2, <1>3, EraseShape
<1> QED
  BY <1>1, <1>2, <1>3, <1>4

\* A lost connection gives identifiers back and forgets packets.
LEMMA LoseTyped ==
    ASSUME Typed, LoseConnection
    PROVE  /\ m_packetIdPool' \in Pool /\ m_sendQueue' \in Seq(Packets)
           /\ toBroker' \in Seq(Packets) /\ toClient' \in Seq(FromBroker)
           /\ connected' \in BOOLEAN /\ tick' = "idle" /\ losses' \in Nat
<1>1. m_packetIdPool' \in Pool
  BY PoolCancel DEF LoseConnection, Typed
<1>2. m_sendQueue' \in Seq(Packets) /\ toBroker' \in Seq(Packets) /\ toClient' \in Seq(FromBroker)
  BY EmptySeq DEF LoseConnection
<1>3. connected' = FALSE /\ tick' = "idle" /\ losses' = losses + 1
  BY DEF LoseConnection
<1>4. losses' \in Nat
  BY <1>3 DEF Typed
<1>5. connected' \in BOOLEAN
  BY <1>3, Zenon
<1> QED
  BY <1>1, <1>2, <1>3, <1>4, <1>5, Zenon

\* The first packet to the client ends a publish.
LEMMA EndPublishTyped ==
    ASSUME Typed, NEW p \in Packets, EndPublish(p)
    PROVE  /\ m_messages' \in Seq(Messages) /\ m_packetIdPool' \in Pool
           /\ m_receiveMaximumTracker' \in Tracker /\ m_sendQueue' \in Seq(Packets)
           /\ completed' \subseteq DOMAIN published /\ refused' \subseteq DOMAIN published
<1>1. p.id \in Nat
  BY DEF Packets
<1>2. m_messages' \in Seq(Messages) /\ m_packetIdPool' \in Pool
  BY <1>1, RemoveMessageTyped DEF EndPublish
<1>3. m_receiveMaximumTracker' \in Tracker /\ m_sendQueue' \in Seq(Packets)
  BY <1>1, TrackerTyped DEF EndPublish, Typed
<1>4. Known(p.id) \subseteq DOMAIN published
  BY LenProperties DEF Known, Typed
<1>5. completed' \subseteq DOMAIN published /\ refused' \subseteq DOMAIN published
  BY <1>4 DEF EndPublish, Report, Typed
<1> QED
  BY <1>2, <1>3, <1>5

\* The application's part of the types.
LEMMA TypedPublish ==
    ASSUME Typed, NEW qos \in PublishQos, Publish(qos)
    PROVE  Typed'
<1> DEFINE n == Len(published) + 1
           id == IF qos = 0 THEN 0 ELSE NextId(m_packetIdPool)
<1>1. /\ qos \in 0 .. 2 /\ RetryInterval \in Nat /\ MaxPublishes \in Nat
      /\ Len(published) \in Nat /\ n \in 1 .. MaxPublishes
  BY SessionAssumption, LenProperties DEF Typed, Publish
<1>2. NextId(m_packetIdPool) \in Nat \ {0} /\ AfterGetId(m_packetIdPool) \in Pool
  <2>1. m_packetIdPool \in Pool
    BY DEF Typed
  <2>2. m_packetIdPool.m_nextId \in Nat
    BY <2>1 DEF Pool
  <2> QED
    BY <2>1, <2>2, PoolGet
<1>3. Packet("PUBLISH", id, n, qos) \in Packets
  BY <1>1, <1>2 DEF Packet, Packets
<1>4. m_sendQueue' \in Seq(Packets)
  BY <1>3, QueueTyped DEF Publish, AddToQueue
<1>5. m_packetIdPool' \in Pool
  BY <1>2 DEF Publish, TakeId, Typed
<1>6. m_messages' \in Seq(Messages)
  <2>1. CASE qos = 0
    BY <2>1 DEF Publish, Typed
  <2>2. CASE qos # 0
    <3>1. RetryInterval \in 0 .. RetryInterval /\ n \in 0 .. MaxPublishes /\ id \in Nat \ {0}
      BY <1>1, <1>2, <2>2
    <3>2. NewMessage(id, n, qos, RetryInterval) \in Messages
      BY <1>1, <3>1 DEF NewMessage, Messages
    <3>3. m_messages' = PushMessage(m_messages, NewMessage(id, n, qos, RetryInterval))
      BY <2>2 DEF Publish
    <3> QED
      BY <3>2, <3>3, PushTyped DEF Typed
  <2> QED
    BY <2>1, <2>2
<1>7. /\ published' = Append(published, qos) /\ ids' = Append(ids, id)
      /\ published \in Seq(0 .. 2) /\ ids \in Seq(Nat) /\ id \in Nat
  BY <1>2 DEF Publish, Typed
<1>8. /\ published' \in Seq(0 .. 2) /\ Len(published') = Len(published) + 1
      /\ ids' \in Seq(Nat) /\ Len(ids') = Len(ids) + 1
  BY <1>1, <1>7, AppendProperties
<1>9. Len(published') <= MaxPublishes /\ Len(ids') = Len(published')
  BY <1>1, <1>8 DEF Typed
<1>10. DOMAIN published \subseteq DOMAIN published'
  BY <1>1, <1>7, <1>8, LenProperties
<1>11. completed' \subseteq DOMAIN published' /\ refused' \subseteq DOMAIN published'
  BY <1>10 DEF Publish, Typed
<1>12. UNCHANGED <<m_receiveMaximumTracker, connected, delayed, tick, wireVars, broker,
                   delivered, incomingVars, lossVars>>
  BY DEF Publish
<1> HIDE DEF n, id
<1> QED
  BY <1>4, <1>5, <1>6, <1>8, <1>9, <1>11, <1>12 DEF Typed, wireVars, incomingVars, lossVars

\* The client's tick and the types: sending.
LEMMA TypedSend ==
    ASSUME Typed, BeginTick \/ DelayPacket \/ SendPacket \/ EndSend
    PROVE  Typed'
<1>1. CASE BeginTick
  <2>1. tick' = "send"
    BY <1>1 DEF BeginTick
  <2>2. UNCHANGED <<clientVars, queueVars, wireVars, broker, outgoingVars, incomingVars, lossVars>>
    BY <1>1 DEF BeginTick
  <2> QED
    BY <2>1, <2>2
    DEF Typed, clientVars, queueVars, wireVars, outgoingVars, incomingVars, lossVars
<1>2. CASE DelayPacket
  <2>1. m_sendQueue' \in Seq(Packets) /\ delayed' \in Seq(Packets)
    BY <1>2, HeadsTyped, QueueTyped DEF DelayPacket
  <2>2. UNCHANGED <<clientVars, tick, wireVars, broker, outgoingVars, incomingVars, lossVars>>
    BY <1>2 DEF DelayPacket
  <2> QED
    BY <2>1, <2>2 DEF Typed, clientVars, wireVars, outgoingVars, incomingVars, lossVars
<1>3. CASE SendPacket
  <2> DEFINE p == Head(m_sendQueue)
  <2>1. p \in Packets /\ Tail(m_sendQueue) \in Seq(Packets)
    BY <1>3, HeadsTyped DEF SendPacket
  <2>2. p.id \in Nat
    BY <2>1 DEF Packets
  <2>3. /\ m_receiveMaximumTracker' = TrackerAfterSend(p) /\ AfterSent(p)
        /\ toBroker' = Append(toBroker, p) /\ m_sendQueue' = Tail(m_sendQueue)
        /\ UNCHANGED <<connected, delayed, toClient, broker, outgoingVars, incomingVars, lossVars>>
    BY <1>3 DEF SendPacket
  <2> HIDE DEF p
  <2>4. m_receiveMaximumTracker' \in Tracker
    <3>1. TrackerAfterSend(p) \in {IncrementReceiveAllowance(m_receiveMaximumTracker, p.id),
                                   DecrementSendAllowance(m_receiveMaximumTracker, p.id),
                                   m_receiveMaximumTracker}
      BY Zenon DEF TrackerAfterSend
    <3>2. m_receiveMaximumTracker \in Tracker
      BY DEF Typed
    <3> QED
      BY <2>2, <2>3, <3>1, <3>2, TrackerTyped
  <2>5. toBroker' \in Seq(Packets) /\ m_sendQueue' \in Seq(Packets)
    BY <2>1, <2>3, QueueTyped
  <2>6. /\ m_messages' \in Seq(Messages) /\ m_packetIdPool' \in Pool
        /\ tick' \in {"idle", "send", "receive", "retry", "crashed"}
    <3>0. m_messages \in Seq(Messages) /\ m_packetIdPool \in Pool
          /\ tick \in {"idle", "send", "receive", "retry", "crashed"}
      BY DEF Typed
    <3>1. CASE p.type = "PUBREC"
      <4>1. UpdateMessage(p.id, "WaitingForPubRel") /\ UNCHANGED m_packetIdPool
        BY <2>3, <3>1 DEF AfterSent
      <4> QED
        BY <3>0, <4>1, UpdateTyped DEF Statuses
    <3>2. CASE p.type = "PUBREL"
      <4>1. UpdateMessage(p.id, "WaitingForPubComp") /\ UNCHANGED m_packetIdPool
        BY <2>3, <3>2 DEF AfterSent
      <4> QED
        BY <3>0, <4>1, UpdateTyped DEF Statuses
    <3>3. CASE p.type = "PUBCOMP"
      <4>1. RemoveMessage(p.id) /\ UNCHANGED tick
        BY <2>3, <3>3 DEF AfterSent
      <4> QED
        BY <2>2, <3>0, <4>1, RemoveMessageTyped
    <3>4. CASE p.type \notin {"PUBREC", "PUBREL", "PUBCOMP"}
      <4>1. UNCHANGED <<m_messages, m_packetIdPool, tick>>
        BY <2>3, <3>4 DEF AfterSent
      <4> QED
        BY <3>0, <4>1
    <3> QED
      BY <3>1, <3>2, <3>3, <3>4
  <2> QED
    BY <2>3, <2>4, <2>5, <2>6 DEF Typed, outgoingVars, incomingVars, lossVars
<1>4. CASE EndSend
  <2>1. m_sendQueue' = delayed /\ delayed' = <<>> /\ tick' = "receive"
    BY <1>4 DEF EndSend
  <2>2. m_sendQueue' \in Seq(Packets) /\ delayed' \in Seq(Packets)
    BY <2>1, EmptySeq DEF Typed
  <2>3. UNCHANGED <<clientVars, wireVars, broker, outgoingVars, incomingVars, lossVars>>
    BY <1>4 DEF EndSend
  <2> QED
    BY <2>1, <2>2, <2>3 DEF Typed, clientVars, wireVars, outgoingVars, incomingVars, lossVars
<1> QED
  BY <1>1, <1>2, <1>3, <1>4

\* One delivery more.
LEMMA CountTyped ==
    ASSUME NEW S, NEW f \in [S -> Nat], NEW n
    PROVE  [f EXCEPT ![n] = @ + 1] \in [S -> Nat]
<1>1. CASE n \in S
  <2>1. f[n] + 1 \in Nat
    BY <1>1
  <2> QED
    BY <2>1
<1>2. CASE n \notin S
  BY <1>2
<1> QED
  BY <1>1, <1>2

\* The types and what the client does when a publish of the broker arrives.
LEMMA TypedReceivePublish ==
    ASSUME Typed, ReceivePublish
    PROVE  Typed'
<1> DEFINE p == Head(toClient)
<1>1. /\ toClient # <<>> /\ p.type = "PUBLISH"
      /\ UNCHANGED <<broker, outgoingVars, sent, settled>>
  BY DEF ReceivePublish, Receives
<1>2. p \in FromBroker /\ Tail(toClient) \in Seq(FromBroker)
  BY <1>1, HeadsTyped
<1>3. p.id \in Nat /\ p.qos \in 0 .. 2 /\ (p.qos = 2 => p.id \in Nat \ {0})
  BY <1>1, <1>2 DEF FromBroker, Packets
<1>4. CASE p.qos > 0 /\ ~MayReceive(m_receiveMaximumTracker, p.id)
  <2>1. ReceiveMaximumExceeded
    BY <1>4 DEF ReceivePublish
  <2>2. /\ LoseConnection /\ cutOff' = TRUE
        /\ UNCHANGED <<m_messages, m_receiveMaximumTracker, received, delayed>>
    BY <2>1 DEF ReceiveMaximumExceeded, LoseConnection
  <2>3. cutOff' \in BOOLEAN
    BY <2>2, Zenon
  <2>4. /\ m_packetIdPool' \in Pool /\ m_sendQueue' \in Seq(Packets)
        /\ toBroker' \in Seq(Packets) /\ toClient' \in Seq(FromBroker)
        /\ connected' \in BOOLEAN /\ tick' = "idle" /\ losses' \in Nat
    BY <2>2, LoseTyped
  <2> QED
    BY <1>1, <2>2, <2>3, <2>4 DEF Typed, outgoingVars
<1>5. CASE ~(p.qos > 0 /\ ~MayReceive(m_receiveMaximumTracker, p.id))
  <2>1. /\ m_receiveMaximumTracker' =
               IF p.qos > 0 THEN DecrementReceiveAllowance(m_receiveMaximumTracker, p.id)
                            ELSE m_receiveMaximumTracker
        /\ FireEvent(p) /\ AcknowledgePublish(p) /\ TakePacket
        /\ UNCHANGED <<m_packetIdPool, connected, delayed, tick, lossVars>>
    BY <1>5 DEF ReceivePublish, FirePublishReceived
  <2> HIDE DEF p
  <2>2. m_receiveMaximumTracker' \in Tracker
    <3>1. m_receiveMaximumTracker \in Tracker
      BY DEF Typed
    <3> QED
      BY <1>3, <2>1, <3>1, TrackerTyped
  <2>3. received' \in [1 .. MaxIncoming -> Nat]
    <3>1. received \in [1 .. MaxIncoming -> Nat] /\ received' = [received EXCEPT ![p.n] = @ + 1]
      BY <2>1 DEF FireEvent, Typed
    <3> QED
      BY <3>1, CountTyped
  <2>4. toClient' \in Seq(FromBroker) /\ UNCHANGED toBroker
    BY <1>2, <2>1 DEF TakePacket, p
  <2>5. m_sendQueue' \in Seq(Packets) /\ m_messages' \in Seq(Messages)
    <3>1. CASE p.qos = 0
      <4>1. UNCHANGED <<m_sendQueue, m_messages>>
        BY <2>1, <3>1 DEF AcknowledgePublish
      <4> QED
        BY <4>1 DEF Typed
    <3>2. CASE p.qos = 1
      <4>1. AddToQueue(Answer("PUBACK", p.id)) /\ UNCHANGED m_messages
        BY <2>1, <3>2 DEF AcknowledgePublish
      <4>2. Answer("PUBACK", p.id) \in Packets
        BY <1>3, AnswerTyped
      <4> QED
        BY <4>1, <4>2, QueueTyped DEF AddToQueue, Typed
    <3>3. CASE p.qos = 2
      <4>1. /\ AddToQueue(Answer("PUBREC", p.id))
            /\ m_messages' = PushMessage(m_messages, NewMessage(p.id, 0, 0, RetryInterval))
        BY <2>1, <3>3 DEF AcknowledgePublish
      <4>2. Answer("PUBREC", p.id) \in Packets
        BY <1>3, AnswerTyped
      <4>3. NewMessage(p.id, 0, 0, RetryInterval) \in Messages
        <5>1. /\ RetryInterval \in 0 .. RetryInterval /\ 0 \in 0 .. MaxPublishes
              /\ p.id \in Nat \ {0} /\ 0 \in 0 .. 2
          BY <1>3, <3>3, SessionAssumption
        <5> QED
          BY <5>1 DEF NewMessage, Messages
      <4>4. m_messages' \in Seq(Messages)
        BY <4>1, <4>3, PushTyped DEF Typed
      <4> QED
        BY <4>1, <4>2, <4>4, QueueTyped DEF AddToQueue
    <3> QED
      BY <1>3, <3>1, <3>2, <3>3
  <2> QED
    BY <1>1, <2>1, <2>2, <2>3, <2>4, <2>5 DEF Typed, outgoingVars, lossVars
<1> QED
  BY <1>4, <1>5

\* The types and the answers of the broker to the client's publishes.
LEMMA TypedReceiveAnswer ==
    ASSUME Typed, ReceivePubAck \/ ReceivePubComp \/ ReceivePubRec \/ ReceivePubRel
    PROVE  Typed'
<1> DEFINE p == Head(toClient)
<1>1. /\ toClient # <<>> /\ TakePacket
      /\ UNCHANGED <<connected, delayed, broker, published, ids, delivered,
                     incomingVars, lossVars>>
  BY DEF ReceivePubAck, ReceivePubComp, ReceivePubRec, ReceivePubRel, Receives, outgoingVars
<1>2. p \in FromBroker /\ Tail(toClient) \in Seq(FromBroker)
  BY <1>1, HeadsTyped
<1>3. p \in Packets /\ p.id \in Nat
  BY <1>2 DEF FromBroker, Packets
<1>4. toClient' \in Seq(FromBroker) /\ UNCHANGED toBroker
  BY <1>1, <1>2 DEF TakePacket
<1>5. CASE EndPublish(p) /\ UNCHANGED tick
  <2>1. /\ m_messages' \in Seq(Messages) /\ m_packetIdPool' \in Pool
        /\ m_receiveMaximumTracker' \in Tracker /\ m_sendQueue' \in Seq(Packets)
        /\ completed' \subseteq DOMAIN published /\ refused' \subseteq DOMAIN published
    BY <1>3, <1>5, EndPublishTyped
  <2> HIDE DEF p
  <2> QED
    BY <1>1, <1>4, <1>5, <2>1 DEF Typed, incomingVars, lossVars
<1>6. CASE /\ AddToQueue(Answer("PUBREL", p.id))
           /\ UNCHANGED <<m_packetIdPool, m_messages, m_receiveMaximumTracker, completed, refused, tick>>
  <2>1. Answer("PUBREL", p.id) \in Packets
    BY <1>3, AnswerTyped
  <2> HIDE DEF p
  <2>2. m_sendQueue' \in Seq(Packets)
    BY <1>6, <2>1, QueueTyped DEF AddToQueue
  <2> QED
    BY <1>1, <1>4, <1>6, <2>2 DEF Typed, incomingVars, lossVars
<1>7. CASE /\ UpdateMessage(p.id, "NeedToSendPubComp") /\ AddToQueue(Answer("PUBCOMP", p.id))
           /\ UNCHANGED <<m_packetIdPool, m_receiveMaximumTracker, outgoingVars>>
  <2>1. Answer("PUBCOMP", p.id) \in Packets
    BY <1>3, AnswerTyped
  <2> HIDE DEF p
  <2>2. m_sendQueue' \in Seq(Packets)
    BY <1>7, <2>1, QueueTyped DEF AddToQueue
  <2>3. m_messages' \in Seq(Messages) /\ tick' \in {tick, "crashed"}
    BY <1>7, UpdateTyped DEF Statuses, Typed
  <2> QED
    BY <1>1, <1>4, <1>7, <2>2, <2>3 DEF Typed, outgoingVars, incomingVars, lossVars
<1>8. \/ EndPublish(p) /\ UNCHANGED tick
      \/ /\ AddToQueue(Answer("PUBREL", p.id))
         /\ UNCHANGED <<m_packetIdPool, m_messages, m_receiveMaximumTracker, completed, refused, tick>>
      \/ /\ UpdateMessage(p.id, "NeedToSendPubComp") /\ AddToQueue(Answer("PUBCOMP", p.id))
         /\ UNCHANGED <<m_packetIdPool, m_receiveMaximumTracker, outgoingVars>>
  BY DEF ReceivePubAck, ReceivePubComp, ReceivePubRec, ReceivePubRel
<1> QED
  BY <1>5, <1>6, <1>7, <1>8

\* The types and the rest of the client's steps.
LEMMA TypedOthers ==
    ASSUME Typed, EndReceive \/ PendingPublishMessageRetries \/ TimePasses \/ ConnectionLost
    PROVE  Typed'
<1>1. CASE EndReceive
  <2>1. tick' = "retry"
    BY <1>1 DEF EndReceive
  <2>2. UNCHANGED <<clientVars, queueVars, wireVars, broker, outgoingVars, incomingVars, lossVars>>
    BY <1>1 DEF EndReceive
  <2> QED
    BY <2>1, <2>2
    DEF Typed, clientVars, queueVars, wireVars, outgoingVars, incomingVars, lossVars
<1>2. CASE PendingPublishMessageRetries
  <2>1. m_sendQueue' = m_sendQueue \o FlattenSeq([i \in Due |-> Retry(m_messages[i])])
        /\ tick' = "idle"
        /\ UNCHANGED <<clientVars, delayed, wireVars, broker, outgoingVars, incomingVars, lossVars>>
    BY <1>2 DEF PendingPublishMessageRetries, RetryMessages
  <2>2. PICK new : new = FlattenSeq([i \in Due |-> Retry(m_messages[i])])
    OBVIOUS
  <2>3. new \in Seq(Packets)
    BY <2>2, RetriesTyped, SessionAssumption DEF Typed
  <2>4. m_sendQueue' \in Seq(Packets)
    BY <2>1, <2>2, <2>3, ConcatProperties DEF Typed
  <2> QED
    BY <2>1, <2>4 DEF Typed, clientVars, wireVars, outgoingVars, incomingVars, lossVars
<1>3. CASE TimePasses
  <2>1. PICK n \in Nat : m_messages \in [1 .. n -> Messages]
    BY LenProperties DEF Typed
  <2> DEFINE later(m) == [m EXCEPT !.retryIn = IF @ > 0 THEN @ - 1 ELSE 0]
  <2>2. \A m \in Messages : later(m) \in Messages
    <3> TAKE m \in Messages
    <3>1. m.retryIn \in 0 .. RetryInterval /\ RetryInterval \in Nat
      BY SessionAssumption DEF Messages
    <3>2. (IF m.retryIn > 0 THEN m.retryIn - 1 ELSE 0) \in 0 .. RetryInterval
      BY <3>1
    <3> QED
      BY <3>2 DEF Messages
  <2>3. m_messages' = [i \in DOMAIN m_messages |-> later(m_messages[i])]
    BY <1>3 DEF TimePasses
  <2> HIDE DEF later
  <2>4. m_messages' \in [1 .. n -> Messages]
    BY <2>1, <2>2, <2>3
  <2>5. m_messages' \in Seq(Messages)
    BY <2>4, SeqDef
  <2>6. UNCHANGED <<m_packetIdPool, m_receiveMaximumTracker, connected, queueVars, tick,
                    wireVars, broker, outgoingVars, incomingVars, lossVars>>
    BY <1>3 DEF TimePasses
  <2> QED
    BY <2>5, <2>6 DEF Typed, queueVars, wireVars, outgoingVars, incomingVars, lossVars
<1>4. CASE ConnectionLost
  <2>1. LoseConnection
        /\ UNCHANGED <<m_messages, m_receiveMaximumTracker, broker, outgoingVars,
                       incomingVars, cutOff, delayed>>
    BY <1>4 DEF ConnectionLost, LoseConnection
  <2>2. /\ m_packetIdPool' \in Pool /\ m_sendQueue' \in Seq(Packets)
        /\ toBroker' \in Seq(Packets) /\ toClient' \in Seq(FromBroker)
        /\ connected' \in BOOLEAN /\ tick' = "idle" /\ losses' \in Nat
    BY <2>1, LoseTyped
  <2> QED
    BY <2>1, <2>2 DEF Typed, outgoingVars, incomingVars
<1> QED
  BY <1>1, <1>2, <1>3, <1>4

\* The types and a new connection, to a broker without the session.
LEMMA TypedConnected ==
    ASSUME Typed, Connected(FALSE)
    PROVE  Typed'
<1>1. /\ tick' = "receive" /\ m_messages' = <<>> /\ toClient' = <<>>
      /\ m_receiveMaximumTracker' = NewTracker(ReceiveMaximum, ReceiveMaximum)
      /\ broker' = NewBroker
      /\ UNCHANGED <<m_packetIdPool, queueVars, toBroker, outgoingVars, incomingVars, lossVars>>
  BY DEF Connected, MessagesAfterConnect
<1>2. connected' \in BOOLEAN
  BY Zenon DEF Connected
<1>3. /\ m_messages' \in Seq(Messages) /\ toClient' \in Seq(FromBroker)
      /\ m_receiveMaximumTracker' \in Tracker
  BY <1>1, EmptySeq, NewTrackerTyped
<1>4. broker' \in [received : SUBSET Nat, outbound : SUBSET Outbound]
  BY <1>1 DEF NewBroker
<1> QED
  BY <1>1, <1>2, <1>3, <1>4 DEF Typed, queueVars, outgoingVars, incomingVars, lossVars

\* The types and the broker.
LEMMA BrokerTyped ==
    ASSUME NEW b \in [received : SUBSET Nat, outbound : SUBSET Outbound],
           NEW R \in SUBSET Nat, NEW O \in SUBSET Outbound
    PROVE  /\ [b EXCEPT !.received = R] = [received |-> R, outbound |-> b.outbound]
           /\ [b EXCEPT !.outbound = O] = [received |-> b.received, outbound |-> O]
           /\ [b EXCEPT !.received = R] \in [received : SUBSET Nat, outbound : SUBSET Outbound]
           /\ [b EXCEPT !.outbound = O] \in [received : SUBSET Nat, outbound : SUBSET Outbound]
           /\ b.received \in SUBSET Nat /\ b.outbound \in SUBSET Outbound
<1>1. b = [received |-> b.received, outbound |-> b.outbound]
      /\ b.received \in SUBSET Nat /\ b.outbound \in SUBSET Outbound
  OBVIOUS
<1>2. \A v : [b EXCEPT !.received = v] = [received |-> v, outbound |-> b.outbound]
  BY <1>1
<1>3. \A v : [b EXCEPT !.outbound = v] = [received |-> b.received, outbound |-> v]
  BY <1>1
<1> QED
  BY <1>1, <1>2, <1>3

LEMMA TypedBrokerReads ==
    ASSUME Typed, BrokerAccepts \/ BrokerRefuses \/ BrokerReleases \/ BrokerContinues
    PROVE  Typed'
<1> DEFINE p == Head(toBroker)
           Brokers == [received : SUBSET Nat, outbound : SUBSET Outbound]
<1>1. /\ toBroker # <<>> /\ toBroker' = Tail(toBroker)
      /\ UNCHANGED <<clientVars, queueVars, tick, published, ids, completed, refused,
                     incomingVars, lossVars>>
  BY DEF BrokerAccepts, BrokerRefuses, BrokerReleases, BrokerContinues, ReachesBroker,
         BrokerTakes, outgoingVars
<1>2. p \in Packets /\ toBroker' \in Seq(Packets) /\ p.id \in Nat /\ p.qos \in 0 .. 2
  <2>1. p \in Packets /\ toBroker' \in Seq(Packets)
    BY <1>1, HeadsTyped
  <2> QED
    BY <2>1 DEF Packets
<1>3. broker \in Brokers /\ broker.received \in SUBSET Nat /\ broker.outbound \in SUBSET Outbound
      /\ delivered \in [0 .. MaxPublishes -> Nat] /\ toClient \in Seq(FromBroker)
  BY BrokerTyped DEF Typed
<1>4. \A a \in FromBroker : Append(toClient, a) \in Seq(FromBroker)
  BY <1>3, AppendProperties
<1>5. ASSUME toClient' \in Seq(FromBroker), broker' \in Brokers,
             delivered' \in [0 .. MaxPublishes -> Nat]
      PROVE  Typed'
  BY <1>1, <1>2, <1>5 DEF Typed, clientVars, queueVars, incomingVars, lossVars
<1> HIDE DEF p
<1>6. CASE BrokerAccepts
  <2>1. delivered' \in [0 .. MaxPublishes -> Nat]
    <3>1. delivered' = delivered \/ BrokerDelivers(p.n)
      BY <1>6 DEF BrokerAccepts, p
    <3> QED
      BY <1>3, <3>1, CountTyped DEF BrokerDelivers
  <2>2. toClient' \in Seq(FromBroker)
    <3>1. /\ Answer("PUBACK", p.id) \in FromBroker /\ Answer("PUBREC", p.id) \in FromBroker
      BY <1>2, AnswerTyped
    <3>2. \/ UNCHANGED toClient
          \/ BrokerAnswers(Answer("PUBACK", p.id)) \/ BrokerAnswers(Answer("PUBREC", p.id))
      <4>1. CASE p.qos = 0
        BY <1>6, <4>1 DEF BrokerAccepts, p
      <4>2. CASE p.qos = 1
        BY <1>6, <4>2 DEF BrokerAccepts, p
      <4>3. CASE p.qos = 2
        BY <1>6, <4>3 DEF BrokerAccepts, p
      <4> QED
        BY <1>2, <4>1, <4>2, <4>3
    <3> QED
      BY <1>3, <1>4, <3>1, <3>2 DEF BrokerAnswers
  <2>3. broker' \in Brokers
    <3>1. broker' = broker \/ broker' = [broker EXCEPT !.received = broker.received \union {p.id}]
      BY <1>6 DEF BrokerAccepts, p
    <3>2. broker.received \union {p.id} \in SUBSET Nat
      BY <1>2, <1>3
    <3> QED
      BY <1>3, <3>1, <3>2, BrokerTyped
  <2> QED
    BY <1>5, <2>1, <2>2, <2>3
<1>7. CASE BrokerRefuses
  <2>1. BrokerAnswers(Failed(IF p.qos = 1 THEN "PUBACK" ELSE "PUBREC", p.id))
        /\ UNCHANGED <<broker, outgoingVars>>
    BY <1>7 DEF BrokerRefuses, p
  <2>2. Failed(IF p.qos = 1 THEN "PUBACK" ELSE "PUBREC", p.id) \in FromBroker
    BY <1>2, AnswerTyped
  <2>3. toClient' \in Seq(FromBroker)
    BY <1>4, <2>1, <2>2 DEF BrokerAnswers
  <2> QED
    BY <1>3, <1>5, <2>1, <2>3 DEF outgoingVars
<1>8. CASE BrokerReleases
  <2>1. /\ broker' = [broker EXCEPT !.received = broker.received \ {p.id}]
        /\ BrokerAnswers(Answer("PUBCOMP", p.id)) /\ UNCHANGED delivered
    BY <1>8 DEF BrokerReleases, outgoingVars, p
  <2>2. toClient' \in Seq(FromBroker)
    BY <1>2, <1>4, <2>1, AnswerTyped DEF BrokerAnswers
  <2>3. broker.received \ {p.id} \in SUBSET Nat
    BY <1>3
  <2>4. broker' \in Brokers
    BY <1>3, <2>1, <2>3, BrokerTyped
  <2> QED
    BY <1>3, <1>5, <2>1, <2>2, <2>4
<1>9. CASE BrokerContinues
  <2> DEFINE new == (broker.outbound \ Acknowledged)
                      \union {[o EXCEPT !.released = TRUE] : o \in Acknowledged}
  <2>1. /\ broker' = [broker EXCEPT !.outbound = new]
        /\ BrokerAnswers(Answer("PUBREL", p.id)) /\ UNCHANGED delivered
    BY <1>9 DEF BrokerContinues, outgoingVars, p
  <2>2. toClient' \in Seq(FromBroker)
    BY <1>2, <1>4, <2>1, AnswerTyped DEF BrokerAnswers
  <2>3. \A o \in Outbound : [o EXCEPT !.released = TRUE] \in Outbound
    BY DEF Outbound
  <2>4. new \in SUBSET Outbound
    BY <1>3, <2>3 DEF Acknowledged
  <2> HIDE DEF new
  <2>5. broker' \in Brokers
    BY <1>3, <2>1, <2>4, BrokerTyped
  <2> QED
    BY <1>3, <1>5, <2>1, <2>2, <2>5
<1> QED
  BY <1>6, <1>7, <1>8, <1>9

LEMMA TypedBrokerSettles ==
    ASSUME Typed, BrokerSettles
    PROVE  Typed'
<1>1. /\ toBroker # <<>> /\ toBroker' = Tail(toBroker)
      /\ broker' = [broker EXCEPT !.outbound = broker.outbound \ Acknowledged]
      /\ settled' = settled \union {o.n : o \in Acknowledged}
      /\ UNCHANGED <<clientVars, queueVars, tick, toClient, outgoingVars, sent, received, lossVars>>
  BY DEF BrokerSettles, ReachesBroker, BrokerTakes
<1>2. broker \in [received : SUBSET Nat, outbound : SUBSET Outbound]
      /\ broker.outbound \in SUBSET Outbound
  BY DEF Typed
<1>3. broker.outbound \ Acknowledged \in SUBSET Outbound
  BY <1>2
<1>4. broker' \in [received : SUBSET Nat, outbound : SUBSET Outbound]
  BY <1>1, <1>2, <1>3, BrokerTyped
<1>5. toBroker' \in Seq(Packets)
  BY <1>1, HeadsTyped
<1>6. settled' \subseteq Nat
  BY <1>1, <1>2 DEF Acknowledged, Outbound, Typed
<1> QED
  BY <1>1, <1>4, <1>5, <1>6 DEF Typed, clientVars, queueVars, outgoingVars, lossVars

LEMMA TypedBrokerPublishes ==
    ASSUME Typed, NEW qos \in IncomingQos, BrokerPublishes(qos)
    PROVE  Typed'
<1>1. PICK id \in IF qos = 0 THEN {0} ELSE BrokerIds \ {o.id : o \in broker.outbound} :
         /\ toClient' = Append(toClient, Packet("PUBLISH", id, Len(sent) + 1, qos))
         /\ broker' = IF qos = 0 THEN broker
                      ELSE [broker EXCEPT !.outbound = broker.outbound \union
                              {[id |-> id, n |-> Len(sent) + 1, qos |-> qos, released |-> FALSE]}]
  BY DEF BrokerPublishes, BrokerAnswers
<1>2. /\ sent' = Append(sent, qos) /\ Len(sent) < MaxIncoming
      /\ UNCHANGED <<clientVars, queueVars, tick, toBroker, outgoingVars, received, settled, lossVars>>
  BY DEF BrokerPublishes
<1>3. /\ qos \in 0 .. 2 /\ id \in Nat /\ (qos # 0 => id \in Nat \ {0})
      /\ sent \in Seq(0 .. 2) /\ Len(sent) \in Nat /\ MaxIncoming \in Nat
  <2>1. qos \in 0 .. 2 /\ BrokerIds \subseteq Nat \ {0}
    BY ConstantTypes
  <2>2. qos # 0 => id \in Nat \ {0}
    BY <1>1, <2>1, Zenon
  <2>3. id \in Nat
    BY <1>1, <2>1, <2>2
  <2> QED
    BY <2>1, <2>2, <2>3, SentTyped
<1>4. sent' \in Seq(0 .. 2) /\ Len(sent') = Len(sent) + 1
  BY <1>2, <1>3, AppendProperties
<1>5. Len(sent') <= MaxIncoming
  BY <1>2, <1>3, <1>4
<1>6. Packet("PUBLISH", id, Len(sent) + 1, qos) \in FromBroker
  BY <1>3 DEF Packet, FromBroker, Packets
<1>7. toClient' \in Seq(FromBroker)
  BY <1>1, <1>6, AppendProperties DEF Typed
<1>8. broker \in [received : SUBSET Nat, outbound : SUBSET Outbound]
      /\ broker.outbound \in SUBSET Outbound
  BY DEF Typed
<1>9. broker' \in [received : SUBSET Nat, outbound : SUBSET Outbound]
  <2>1. CASE qos = 0
    BY <1>1, <1>8, <2>1
  <2>2. CASE qos # 0
    <3>1. [id |-> id, n |-> Len(sent) + 1, qos |-> qos, released |-> FALSE] \in Outbound
      BY <1>3, <2>2 DEF Outbound
    <3> QED
      BY <1>1, <1>8, <2>2, <3>1, BrokerTyped
  <2> QED
    BY <2>1, <2>2
<1> QED
  BY <1>2, <1>4, <1>5, <1>7, <1>9 DEF Typed, clientVars, queueVars, outgoingVars, lossVars

\* The step of Typed.
LEMMA TypedNext ==
    ASSUME Resume \subseteq {FALSE}, Typed, Next
    PROVE  Typed'
<1>1. ASSUME NEW qos \in PublishQos, Publish(qos) PROVE Typed'
  BY <1>1, TypedPublish
<1>2. CASE Tick
  BY <1>2, TypedSend, TypedReceivePublish, TypedReceiveAnswer, TypedOthers DEF Tick, ReceivePacket
<1>3. CASE TimePasses \/ ConnectionLost
  BY <1>3, TypedOthers
<1>4. ASSUME NEW present \in Resume, Connected(present) PROVE Typed'
  BY <1>4, TypedConnected
<1>5. CASE BrokerReceives
  BY <1>5, TypedBrokerReads, TypedBrokerSettles DEF BrokerReceives
<1>6. ASSUME NEW qos \in IncomingQos, BrokerPublishes(qos) PROVE Typed'
  BY <1>6, TypedBrokerPublishes
<1> QED
  BY <1>1, <1>2, <1>3, <1>4, <1>5, <1>6 DEF Next

\* The types are an invariant of every session that is not resumed (TypeOK).
THEOREM TypeCorrect ==
    ASSUME Resume \subseteq {FALSE}
    PROVE  Spec => []TypeOK
<1>1. Init => Typed
  BY TypedInit
<1>2. Typed /\ [Next]_vars => Typed'
  <2> SUFFICES ASSUME Typed, [Next]_vars PROVE Typed'
    OBVIOUS
  <2>1. CASE Next
    BY <2>1, TypedNext
  <2>2. CASE UNCHANGED vars
    BY <2>2 DEF vars, clientVars, queueVars, wireVars, outgoingVars, incomingVars, lossVars, Typed
  <2> QED
    BY <2>1, <2>2
<1>3. Typed => TypeOK
  <2> SUFFICES ASSUME Typed PROVE TypeOK
    OBVIOUS
  <2>1. /\ m_packetIdPool.m_nextId \in Nat \ {0}
        /\ ToSet(m_packetIdPool.m_availableIds) \subseteq 1 .. m_packetIdPool.m_nextId - 1
    BY DEF Typed, Pool
  <2>2. toClient \in Seq(Packets)
    <3>1. PICK n \in Nat : toClient \in [1 .. n -> FromBroker]
      BY LenProperties DEF Typed
    <3>2. toClient \in [1 .. n -> Packets]
      BY <3>1 DEF FromBroker
    <3> QED
      BY <3>2, SeqDef
  <2>3. {connected, cutOff} \subseteq BOOLEAN
    BY Zenon DEF Typed
  <2> QED
    BY <2>1, <2>2, <2>3 DEF Typed, TypeOK
<1> QED
  BY <1>1, <1>2, <1>3, PTL DEF Spec

-----------------------------------------------------------------------------
(* How packets move.                                                        *)

\* The identifier of a handshake is on one packet.
LEMMA OnlyPacket ==
    ASSUME OnePacketEach
    PROVE  /\ \A p, q \in Waiting \union Leaving \union Arriving : p.id = q.id /\ p.id # 0 => p = q
           /\ \A p, q \in Waiting \union Leaving : Clash(p, q) => p = q
           /\ \A p, q \in Arriving : Clash(p, q) => p = q
           /\ \A p \in Waiting \union Leaving, q \in Arriving : p.id = q.id => p.id = 0
<1>1. \A s : Alone(s) => \A p, q \in ToSet(s) : Clash(p, q) => p = q
  BY DEF Alone, ToSet
<1>2. \A p, q : Clash(p, q) => Clash(q, p)
  BY DEF Clash
<1>3. \A p, q \in Waiting : Clash(p, q) => p = q
  BY <1>1, <1>2 DEF OnePacketEach, Waiting
<1>4. \A p, q \in Waiting \union Leaving : Clash(p, q) => p = q
  BY <1>1, <1>2, <1>3 DEF OnePacketEach, Leaving
<1>5. \A p, q \in Arriving : Clash(p, q) => p = q
  BY <1>1 DEF OnePacketEach, Arriving
<1>6. \A p, q : p.id = q.id /\ p.id # 0 => Clash(p, q)
  BY DEF Clash
<1>7. \A p \in Waiting \union Leaving, q \in Arriving : p.id = q.id => p.id = 0
  BY DEF OnePacketEach
<1> QED
  BY <1>4, <1>5, <1>6, <1>7

\* A packet is set aside.
LEMMA DelayMoves ==
    ASSUME Typed, OnePacketEach, DelayPacket
    PROVE  OnePacketEach' /\ Waiting' = Waiting /\ Leaving' = Leaving /\ Arriving' = Arriving
<1> DEFINE p == Head(m_sendQueue)
<1>1. /\ m_sendQueue \in Seq(Packets) /\ delayed \in Seq(Packets) /\ m_sendQueue # <<>>
      /\ delayed' = Append(delayed, p) /\ m_sendQueue' = Tail(m_sendQueue)
      /\ UNCHANGED <<toBroker, toClient>>
  BY DEF Typed, DelayPacket, wireVars
<1>2. /\ Alone(Tail(m_sendQueue)) /\ p \in Packets /\ p \in ToSet(m_sendQueue)
      /\ ToSet(Tail(m_sendQueue)) = ToSet(m_sendQueue) \ {p}
      /\ \A q \in ToSet(Tail(m_sendQueue)) : ~Clash(p, q)
  BY <1>1, AloneTail DEF OnePacketEach
<1>3. ToSet(delayed') = ToSet(delayed) \union {p} /\ ToSet(m_sendQueue') = ToSet(m_sendQueue) \ {p}
  BY <1>1, <1>2, ElementsAppend
<1> HIDE DEF p
<1>4. Waiting' = Waiting /\ Leaving' = Leaving /\ Arriving' = Arriving
  BY <1>1, <1>2, <1>3 DEF Waiting, Leaving, Arriving
<1>5. Alone(delayed')
  BY <1>1, <1>2, AloneAppend DEF OnePacketEach
<1>6. \A a, b : Clash(a, b) => Clash(b, a)
  BY DEF Clash
<1>7. \A a \in ToSet(m_sendQueue'), b \in ToSet(delayed') : ~Clash(a, b)
  BY <1>1, <1>2, <1>3, <1>6 DEF OnePacketEach
<1> QED
  BY <1>1, <1>2, <1>4, <1>5, <1>7 DEF OnePacketEach

\* A packet is sent.
LEMMA SendMoves ==
    ASSUME Typed, OnePacketEach, m_sendQueue # <<>>, NEW p, p = Head(m_sendQueue),
           toBroker' = Append(toBroker, p), m_sendQueue' = Tail(m_sendQueue),
           UNCHANGED <<delayed, toClient>>
    PROVE  /\ OnePacketEach' /\ p \in Waiting
           /\ Waiting' \subseteq Waiting /\ Leaving' = Leaving \union {p} /\ Arriving' = Arriving
           /\ Waiting' \union Leaving' = Waiting \union Leaving
<1>1. m_sendQueue \in Seq(Packets) /\ toBroker \in Seq(Packets)
  BY DEF Typed
<1>2. /\ Alone(Tail(m_sendQueue)) /\ p \in Packets /\ p \in ToSet(m_sendQueue)
      /\ ToSet(Tail(m_sendQueue)) = ToSet(m_sendQueue) \ {p}
      /\ \A q \in ToSet(Tail(m_sendQueue)) : ~Clash(p, q)
  BY <1>1, AloneTail DEF OnePacketEach
<1>3. ToSet(toBroker') = ToSet(toBroker) \union {p} /\ ToSet(m_sendQueue') = ToSet(m_sendQueue) \ {p}
  BY <1>1, <1>2, ElementsAppend
<1>4. /\ p \in Waiting
      /\ Waiting' \subseteq Waiting /\ Leaving' = Leaving \union {p} /\ Arriving' = Arriving
      /\ Waiting' \union Leaving' = Waiting \union Leaving
  BY <1>2, <1>3 DEF Waiting, Leaving, Arriving
<1>5. Alone(toBroker')
  BY <1>1, <1>2, <1>4, AloneAppend DEF OnePacketEach, Leaving
<1>6. \A a, b : Clash(a, b) => Clash(b, a)
  BY DEF Clash
<1>7. \A a \in ToSet(m_sendQueue'), b \in ToSet(delayed') : ~Clash(a, b)
  BY <1>3 DEF OnePacketEach
<1>8. \A a \in Waiting', b \in Leaving' : ~Clash(a, b)
  <2> SUFFICES ASSUME NEW a \in Waiting' PROVE ~Clash(a, p) /\ \A b \in Leaving : ~Clash(a, b)
    BY <1>4
  <2>1. CASE a \in ToSet(m_sendQueue')
    BY <1>2, <1>4, <1>6, <2>1 DEF OnePacketEach
  <2>2. CASE a \in ToSet(delayed)
    BY <1>2, <1>4, <1>6, <2>2 DEF OnePacketEach
  <2> QED
    BY <2>1, <2>2 DEF Waiting
<1>9. \A a \in Waiting' \union Leaving', b \in Arriving' : a.id = b.id => a.id = 0
  BY <1>4 DEF OnePacketEach
<1>10. Alone(m_sendQueue') /\ Alone(delayed') /\ Alone(toClient')
  BY <1>2 DEF OnePacketEach
<1> QED
  BY <1>4, <1>5, <1>7, <1>8, <1>9, <1>10 DEF OnePacketEach

\* Nothing waits, or what was set aside is what waits.
LEMMA NoneAlone == Alone(<<>>) /\ ToSet(<<>>) = {}
BY ElementsEmpty DEF Alone

LEMMA EndSendMoves ==
    ASSUME OnePacketEach, EndSend
    PROVE  OnePacketEach' /\ Waiting' = Waiting /\ Leaving' = Leaving /\ Arriving' = Arriving
<1>1. /\ m_sendQueue = <<>> /\ m_sendQueue' = delayed /\ delayed' = <<>>
      /\ UNCHANGED <<toBroker, toClient>>
  BY DEF EndSend, wireVars
<1>2. Waiting' = Waiting /\ Leaving' = Leaving /\ Arriving' = Arriving
  BY <1>1, NoneAlone DEF Waiting, Leaving, Arriving
<1> QED
  BY <1>1, <1>2, NoneAlone DEF OnePacketEach

LEMMA NothingMoves ==
    ASSUME OnePacketEach, UNCHANGED <<m_sendQueue, delayed, toBroker, toClient>>
    PROVE  OnePacketEach' /\ Waiting' = Waiting /\ Leaving' = Leaving /\ Arriving' = Arriving
<1>1. Waiting' = Waiting /\ Leaving' = Leaving /\ Arriving' = Arriving
  BY DEF Waiting, Leaving, Arriving
<1> QED
  BY <1>1 DEF OnePacketEach

LEMMA NothingOnTheWay ==
    ASSUME m_sendQueue' = <<>>, delayed' = <<>>, toBroker' = <<>>, toClient' = <<>>
    PROVE  OnePacketEach' /\ Waiting' = {} /\ Leaving' = {} /\ Arriving' = {}
<1>1. Waiting' = {} /\ Leaving' = {} /\ Arriving' = {}
  BY NoneAlone DEF Waiting, Leaving, Arriving
<1> QED
  BY <1>1, NoneAlone DEF OnePacketEach

\* A packet is queued.
LEMMA QueueMoves ==
    ASSUME Typed, OnePacketEach, NEW a \in Packets,
           \A q \in Waiting \union Leaving : ~Clash(a, q),
           \A q \in Arriving : a.id = q.id => a.id = 0,
           m_sendQueue' = Append(m_sendQueue, a), UNCHANGED <<delayed, toBroker, toClient>>
    PROVE  /\ OnePacketEach' /\ Waiting' = Waiting \union {a}
           /\ Leaving' = Leaving /\ Arriving' = Arriving
<1>1. m_sendQueue \in Seq(Packets)
  BY DEF Typed
<1>2. ToSet(m_sendQueue') = ToSet(m_sendQueue) \union {a}
  BY <1>1, ElementsAppend
<1>3. Waiting' = Waiting \union {a} /\ Leaving' = Leaving /\ Arriving' = Arriving
  BY <1>2 DEF Waiting, Leaving, Arriving
<1>4. Alone(m_sendQueue')
  BY <1>1, AloneAppend DEF OnePacketEach, Waiting
<1>5. \A p \in ToSet(m_sendQueue'), q \in ToSet(delayed') : ~Clash(p, q)
  BY <1>2 DEF OnePacketEach, Waiting
<1>6. \A p \in Waiting', q \in Leaving' : ~Clash(p, q)
  BY <1>3 DEF OnePacketEach
<1>7. \A p \in Waiting' \union Leaving', q \in Arriving' : p.id = q.id => p.id = 0
  BY <1>3 DEF OnePacketEach
<1>8. Alone(delayed') /\ Alone(toBroker') /\ Alone(toClient')
  BY DEF OnePacketEach
<1> QED
  BY <1>3, <1>4, <1>5, <1>6, <1>7, <1>8, Zenon DEF OnePacketEach

\* The first packet of the broker is handled, without an answer and with one.
LEMMA ReceiveMoves ==
    ASSUME Typed, OnePacketEach, toClient # <<>>, NEW p, p = Head(toClient),
           toClient' = Tail(toClient), UNCHANGED <<delayed, toBroker, m_sendQueue>>
    PROVE  /\ OnePacketEach' /\ p \in Arriving
           /\ Waiting' = Waiting /\ Leaving' = Leaving /\ Arriving' = Arriving \ {p}
<1>1. toClient \in Seq(Packets)
  <2>1. PICK n \in Nat : toClient \in [1 .. n -> FromBroker]
    BY LenProperties DEF Typed
  <2>2. toClient \in [1 .. n -> Packets]
    BY <2>1 DEF FromBroker
  <2> QED
    BY <2>2, SeqDef
<1>2. /\ Alone(Tail(toClient)) /\ p \in ToSet(toClient)
      /\ ToSet(Tail(toClient)) = ToSet(toClient) \ {p}
  BY <1>1, AloneTail DEF OnePacketEach
<1>3. /\ p \in Arriving
      /\ Waiting' = Waiting /\ Leaving' = Leaving /\ Arriving' = Arriving \ {p}
  BY <1>2 DEF Waiting, Leaving, Arriving
<1>4. \A a \in Waiting' \union Leaving', b \in Arriving' : a.id = b.id => a.id = 0
  BY <1>3 DEF OnePacketEach
<1> QED
  BY <1>2, <1>3, <1>4 DEF OnePacketEach

LEMMA ReplyMoves ==
    ASSUME Typed, OnePacketEach, toClient # <<>>, NEW p, p = Head(toClient),
           toClient' = Tail(toClient), UNCHANGED <<delayed, toBroker>>,
           NEW a \in Packets, a.id = p.id, a.id # 0, m_sendQueue' = Append(m_sendQueue, a)
    PROVE  /\ OnePacketEach' /\ p \in Arriving /\ Waiting' = Waiting \union {a}
           /\ Leaving' = Leaving /\ Arriving' = Arriving \ {p}
<1>1. toClient \in Seq(Packets) /\ m_sendQueue \in Seq(Packets)
  <2>1. PICK n \in Nat : toClient \in [1 .. n -> FromBroker]
    BY LenProperties DEF Typed
  <2>2. toClient \in [1 .. n -> Packets]
    BY <2>1 DEF FromBroker
  <2> QED
    BY <2>2, SeqDef DEF Typed
<1>2. /\ Alone(Tail(toClient)) /\ p \in ToSet(toClient)
      /\ ToSet(Tail(toClient)) = ToSet(toClient) \ {p}
      /\ \A q \in ToSet(Tail(toClient)) : ~Clash(p, q)
  BY <1>1, AloneTail DEF OnePacketEach
<1>3. ToSet(m_sendQueue') = ToSet(m_sendQueue) \union {a}
  BY <1>1, ElementsAppend
<1>4. /\ p \in Arriving /\ Waiting' = Waiting \union {a}
      /\ Leaving' = Leaving /\ Arriving' = Arriving \ {p}
  BY <1>2, <1>3 DEF Waiting, Leaving, Arriving
<1>5. \A q \in Waiting \union Leaving : q.id # a.id
  BY <1>4 DEF OnePacketEach
<1>6. \A q \in Waiting \union Leaving : ~Clash(a, q) /\ ~Clash(q, a)
  BY <1>5 DEF Clash
<1>7. Alone(m_sendQueue')
  BY <1>1, <1>6, AloneAppend DEF OnePacketEach, Waiting
<1>8. \A u \in ToSet(m_sendQueue'), v \in ToSet(delayed') : ~Clash(u, v)
  BY <1>3, <1>6 DEF OnePacketEach, Waiting
<1>9. \A u \in Waiting', v \in Leaving' : ~Clash(u, v)
  BY <1>4, <1>6 DEF OnePacketEach
<1>10. \A v \in Arriving' : v.id # a.id
  BY <1>2 DEF Clash, Arriving
<1>11. \A u \in Waiting' \union Leaving', v \in Arriving' : u.id = v.id => u.id = 0
  BY <1>4, <1>10 DEF OnePacketEach
<1>12. Alone(delayed') /\ Alone(toBroker') /\ Alone(toClient')
  BY <1>2 DEF OnePacketEach
<1> QED
  BY <1>4, <1>7, <1>8, <1>9, <1>11, <1>12 DEF OnePacketEach

\* The first packet of the client is handled by the broker, without an answer and with one.
LEMMA SettleMoves ==
    ASSUME Typed, OnePacketEach, toBroker # <<>>, NEW p, p = Head(toBroker),
           toBroker' = Tail(toBroker), UNCHANGED <<delayed, toClient, m_sendQueue>>
    PROVE  /\ OnePacketEach' /\ p \in Leaving
           /\ Waiting' = Waiting /\ Leaving' = Leaving \ {p} /\ Arriving' = Arriving
<1>1. toBroker \in Seq(Packets)
  BY DEF Typed
<1>2. /\ Alone(Tail(toBroker)) /\ p \in ToSet(toBroker)
      /\ ToSet(Tail(toBroker)) = ToSet(toBroker) \ {p}
  BY <1>1, AloneTail DEF OnePacketEach
<1>3. /\ p \in Leaving
      /\ Waiting' = Waiting /\ Leaving' = Leaving \ {p} /\ Arriving' = Arriving
  BY <1>2 DEF Waiting, Leaving, Arriving
<1>4. \A a \in Waiting', b \in Leaving' : ~Clash(a, b)
  BY <1>3 DEF OnePacketEach
<1>5. \A a \in Waiting' \union Leaving', b \in Arriving' : a.id = b.id => a.id = 0
  BY <1>3 DEF OnePacketEach
<1> QED
  BY <1>2, <1>3, <1>4, <1>5 DEF OnePacketEach

LEMMA AnswerMoves ==
    ASSUME Typed, OnePacketEach, toBroker # <<>>, NEW p, p = Head(toBroker),
           toBroker' = Tail(toBroker), UNCHANGED <<delayed, m_sendQueue>>,
           NEW a \in FromBroker, a.id = p.id, a.id # 0, toClient' = Append(toClient, a)
    PROVE  /\ OnePacketEach' /\ p \in Leaving /\ Waiting' = Waiting
           /\ Leaving' = Leaving \ {p} /\ Arriving' = Arriving \union {a}
<1>1. toClient \in Seq(Packets) /\ toBroker \in Seq(Packets) /\ a \in Packets
  <2>1. PICK n \in Nat : toClient \in [1 .. n -> FromBroker]
    BY LenProperties DEF Typed
  <2>2. toClient \in [1 .. n -> Packets]
    BY <2>1 DEF FromBroker
  <2> QED
    BY <2>2, SeqDef DEF Typed, FromBroker
<1>2. /\ Alone(Tail(toBroker)) /\ p \in ToSet(toBroker)
      /\ ToSet(Tail(toBroker)) = ToSet(toBroker) \ {p}
      /\ \A q \in ToSet(Tail(toBroker)) : ~Clash(p, q)
  BY <1>1, AloneTail DEF OnePacketEach
<1>3. ToSet(toClient') = ToSet(toClient) \union {a}
  BY <1>1, ElementsAppend
<1>4. /\ p \in Leaving /\ Waiting' = Waiting
      /\ Leaving' = Leaving \ {p} /\ Arriving' = Arriving \union {a}
  BY <1>2, <1>3 DEF Waiting, Leaving, Arriving
<1>5. \A q \in Arriving : q.id # a.id
  BY <1>4 DEF OnePacketEach
<1>6. \A q \in Arriving : ~Clash(a, q)
  BY <1>5 DEF Clash
<1>7. Alone(toClient')
  BY <1>1, <1>6, AloneAppend DEF OnePacketEach, Arriving
<1>8. \A q \in Leaving' : q.id # a.id
  BY <1>2 DEF Clash, Leaving
<1>9. \A q \in Waiting' : q.id # a.id
  BY <1>4 DEF OnePacketEach, Clash
<1>10. \A u \in Waiting', v \in Leaving' : ~Clash(u, v)
  BY <1>4 DEF OnePacketEach
<1>11. \A u \in Waiting' \union Leaving', v \in Arriving' : u.id = v.id => u.id = 0
  BY <1>4, <1>8, <1>9 DEF OnePacketEach
<1>12. /\ Alone(m_sendQueue') /\ Alone(delayed') /\ Alone(toBroker')
       /\ \A u \in ToSet(m_sendQueue'), v \in ToSet(delayed') : ~Clash(u, v)
  BY <1>2 DEF OnePacketEach
<1> QED
  BY <1>4, <1>7, <1>10, <1>11, <1>12, Zenon DEF OnePacketEach

\* The broker publishes.
LEMMA BrokerPublishMoves ==
    ASSUME Typed, OnePacketEach, NEW a \in FromBroker,
           \A q \in Arriving : ~Clash(a, q),
           \A q \in Waiting \union Leaving : q.id = a.id => q.id = 0,
           toClient' = Append(toClient, a), UNCHANGED <<delayed, toBroker, m_sendQueue>>
    PROVE  /\ OnePacketEach' /\ Waiting' = Waiting
           /\ Leaving' = Leaving /\ Arriving' = Arriving \union {a}
<1>1. toClient \in Seq(Packets) /\ a \in Packets
  <2>1. PICK n \in Nat : toClient \in [1 .. n -> FromBroker]
    BY LenProperties DEF Typed
  <2>2. toClient \in [1 .. n -> Packets]
    BY <2>1 DEF FromBroker
  <2> QED
    BY <2>2, SeqDef DEF FromBroker
<1>2. ToSet(toClient') = ToSet(toClient) \union {a}
  BY <1>1, ElementsAppend
<1>3. Waiting' = Waiting /\ Leaving' = Leaving /\ Arriving' = Arriving \union {a}
  BY <1>2 DEF Waiting, Leaving, Arriving
<1>4. Alone(toClient')
  BY <1>1, AloneAppend DEF OnePacketEach, Arriving
<1>5. \A u \in Waiting' \union Leaving', v \in Arriving' : u.id = v.id => u.id = 0
  BY <1>3 DEF OnePacketEach
<1>6. /\ Alone(m_sendQueue') /\ Alone(delayed') /\ Alone(toBroker')
      /\ \A u \in ToSet(m_sendQueue'), v \in ToSet(delayed') : ~Clash(u, v)
  BY DEF OnePacketEach
<1>7. \A u \in Waiting', v \in Leaving' : ~Clash(u, v)
  BY <1>3 DEF OnePacketEach
<1> QED
  BY <1>3, <1>4, <1>5, <1>6, <1>7, Zenon DEF OnePacketEach

-----------------------------------------------------------------------------
(* What the invariant says of identifiers.                                  *)

\* The messages of the session, each under an identifier of its own.
LEMMA KeptTyped ==
    ASSUME Typed, Tidy(m_messages)
    PROVE  /\ \A m \in Kept : m \in [id : Nat \ {0}, n : 0 .. MaxPublishes]
           /\ \A m1, m2 \in Kept : m1.id = m2.id => m1 = m2
           /\ \A id : (\E m \in Kept : m.id = id) => InSession(m_messages, id)
<1>1. \A i \in DOMAIN m_messages : m_messages[i] \in Messages
  BY ElementOfSeq, LenProperties DEF Typed
<1>2. \A i \in DOMAIN m_messages :
         /\ m_messages[i].id \in Nat \ {0} /\ m_messages[i].n \in 0 .. MaxPublishes
         /\ m_messages[i].mapped
  BY <1>1 DEF Messages, Tidy
<1>3. \A m \in Kept : \E i \in DOMAIN m_messages :
         m = [id |-> m_messages[i].id, n |-> m_messages[i].n]
  BY DEF Kept, KeptOf
<1>4. \A m \in Kept : m \in [id : Nat \ {0}, n : 0 .. MaxPublishes]
  BY <1>2, <1>3
<1>5. \A m \in Kept : \E i \in DOMAIN m_messages :
         m.id = m_messages[i].id /\ m.n = m_messages[i].n
  BY <1>3
<1>6. ASSUME NEW m1 \in Kept, NEW m2 \in Kept, m1.id = m2.id PROVE m1 = m2
  <2>1. PICK i \in DOMAIN m_messages : m1 = [id |-> m_messages[i].id, n |-> m_messages[i].n]
    BY <1>3
  <2>2. PICK j \in DOMAIN m_messages : m2 = [id |-> m_messages[j].id, n |-> m_messages[j].n]
    BY <1>3
  <2>3. i = j
    BY <1>6, <2>1, <2>2 DEF Tidy
  <2> QED
    BY <2>1, <2>2, <2>3
<1>7. \A id : (\E m \in Kept : m.id = id) => InSession(m_messages, id)
  BY <1>2, <1>5 DEF InSession, IsMessage
<1> QED
  BY <1>4, <1>6, <1>7

\* The broker's publishes that are not complete.
LEMMA PromisedTyped ==
    ASSUME Typed
    PROVE  /\ \A o \in Promised : o \in [id : Nat \ {0}, n : Nat]
           /\ \A o \in broker.outbound : [id |-> o.id, n |-> o.n] \in Promised
           /\ \A o \in Promised : \E b \in broker.outbound : b.id = o.id /\ b.n = o.n
<1>1. broker.outbound \subseteq Outbound
  BY DEF Typed
<1>2. \A o \in broker.outbound : o.id \in Nat \ {0} /\ o.n \in Nat
  BY <1>1 DEF Outbound
<1> QED
  BY <1>2 DEF Promised

\* The client's identifiers are none of the broker's.
LEMMA IdsApart ==
    ASSUME ApartIds, Typed, Pooled, Listed, Owned
    PROVE  /\ \A m \in Own : m.id # 0 /\ m.id \notin BrokerIds
           /\ \A m \in Own, o \in Promised : m.id # o.id
           /\ m_packetIdPool.m_nextId <= Len(published) + 1
           /\ UsedIds(m_packetIdPool) \intersect BrokerIds = {}
           /\ UsedIds(m_packetIdPool) \subseteq 1 .. MaxPublishes
<1>1. /\ Len(published) \in Nat /\ MaxPublishes \in Nat /\ Len(published) <= MaxPublishes
      /\ m_packetIdPool.m_nextId \in Nat
  BY SessionAssumption, LenProperties DEF Typed, Pool
<1>2. m_packetIdPool.m_nextId <= Len(published) + 1
  BY DEF Pooled
<1>3. 1 .. m_packetIdPool.m_nextId - 1 \subseteq 1 .. MaxPublishes
  BY <1>1, <1>2
<1>4. UsedIds(m_packetIdPool) \subseteq 1 .. MaxPublishes
  BY <1>3 DEF UsedIds
<1>5. UsedIds(m_packetIdPool) \intersect BrokerIds = {}
  BY <1>4 DEF ApartIds
<1>6. \A m \in Own : m.id \in UsedIds(m_packetIdPool)
  BY DEF Owned
<1>7. \A m \in Own : m.id # 0 /\ m.id \notin BrokerIds
  BY <1>1, <1>4, <1>5, <1>6
<1>8. \A o \in Promised : o.id \in BrokerIds
  BY DEF Listed
<1> QED
  BY <1>2, <1>4, <1>5, <1>7, <1>8

\* A message of the client is known by its number, and by its identifier.
LEMMA OwnUnique ==
    ASSUME Typed, Listed, Owned
    PROVE  /\ \A m1, m2 \in Own : m1.id = m2.id \/ m1.n = m2.n => m1 = m2
           /\ \A m \in Own : Known(m.id) = {m.n}
<1>1. \A m1, m2 \in Own : m1.id = m2.id => m1 = m2
  BY KeptTyped DEF Listed, Own
<1>2. \A m1, m2 \in Own : m1.n = m2.n => m1.id = m2.id
  BY DEF Owned
<1>3. ASSUME NEW m \in Own PROVE Known(m.id) = {m.n}
  <2>1. /\ m.n \in DOMAIN published /\ m.id = ids[m.n]
        /\ \A k \in DOMAIN ids : k > m.n => ids[k] # m.id
    BY DEF Owned
  <2>2. DOMAIN ids = 1 .. Len(ids) /\ DOMAIN published = 1 .. Len(ids) /\ Len(ids) \in Nat
    BY LenProperties DEF Typed
  <2>3. m.n \in DOMAIN ids /\ DOMAIN ids \subseteq Nat
    BY <2>1, <2>2
  <2>4. \A k \in DOMAIN ids : ids[k] = m.id => k <= m.n
    BY <2>1, <2>3
  <2>5. m.n \in Known(m.id)
    BY <2>1, <2>3, <2>4 DEF Known
  <2>6. \A k \in Known(m.id) : k <= m.n /\ m.n <= k /\ k \in Nat
    BY <2>1, <2>3, <2>4 DEF Known
  <2>7. \A k \in Known(m.id) : k = m.n
    BY <2>3, <2>6
  <2> QED
    BY <2>5, <2>7
<1> QED
  BY <1>1, <1>2, <1>3

\* Every packet of a handshake has the identifier of a message of the client or of a
\* publish of the broker; a packet without one is a publish.
LEMMA PacketIds ==
    ASSUME ApartIds, SessionInv, connected
    PROVE  /\ \A p \in Waiting \union Leaving \union Arriving :
                 \/ p.id = 0 /\ p.type = "PUBLISH"
                 \/ p.id # 0 /\ \E m \in Own : m.id = p.id
                 \/ p.id # 0 /\ \E o \in Promised : o.id = p.id
           /\ \A p \in Waiting \union Leaving : p.type \in {"PUBACK", "PUBREC", "PUBREL", "PUBCOMP"}
                                                  => p.id # 0
           /\ \A p \in Waiting \union Leaving :
                 p.type = "PUBLISH" =>
                    /\ p.n \in DOMAIN published /\ p.qos = published[p.n] /\ p.id = ids[p.n]
                    /\ p.qos = 0 <=> p.id = 0
           /\ \A p \in Arriving :
                 p.type = "PUBLISH" =>
                    /\ p.n \in DOMAIN sent /\ p.qos = sent[p.n] /\ p.n \in 1 .. MaxIncoming
                    /\ p.qos = 0 <=> p.id = 0
<1>1. /\ Typed /\ Pooled /\ Listed /\ Owned /\ Matched /\ Fits
  BY DEF SessionInv, Live
<1>2. \A m \in Own : m.id # 0
  BY <1>1, IdsApart
<1>3. \A o \in Promised : o.id # 0
  BY <1>1, PromisedTyped
<1>4. /\ DOMAIN ids = DOMAIN published /\ DOMAIN sent = 1 .. Len(sent)
      /\ Len(sent) \in Nat /\ Len(sent) <= MaxIncoming /\ MaxIncoming \in Nat
      /\ sent \in [1 .. Len(sent) -> 0 .. 2] /\ published \in [DOMAIN published -> 0 .. 2]
  <2>1. DOMAIN ids = 1 .. Len(ids) /\ DOMAIN published = 1 .. Len(published)
    BY <1>1, LenProperties DEF Typed
  <2> QED
    BY <1>1, <2>1, LenProperties, SessionAssumption DEF Typed
<1>5. \A p \in Waiting \union Leaving \union Arriving :
         p.type \in {"PUBLISH", "PUBACK", "PUBREC", "PUBREL", "PUBCOMP"}
  <2>1. \A s \in Seq(Packets) : ToSet(s) \subseteq Packets
    BY ElementOfSeq, LenProperties DEF ToSet
  <2>2. \A s \in Seq(FromBroker) : ToSet(s) \subseteq FromBroker
    BY ElementOfSeq, LenProperties DEF ToSet
  <2>3. Waiting \union Leaving \union Arriving \subseteq Packets
    BY <1>1, <2>1, <2>2 DEF Waiting, Leaving, Arriving, Typed, FromBroker
  <2> QED
    BY <2>3 DEF Packets
<1>6. ASSUME NEW p \in Waiting \union Leaving
      PROVE  /\ \/ p.id = 0 /\ p.type = "PUBLISH"
                \/ p.id # 0 /\ \E m \in Own : m.id = p.id
                \/ p.id # 0 /\ \E o \in Promised : o.id = p.id
             /\ p.type \in {"PUBACK", "PUBREC", "PUBREL", "PUBCOMP"} => p.id # 0
             /\ p.type = "PUBLISH" =>
                    /\ p.n \in DOMAIN published /\ p.qos = published[p.n] /\ p.id = ids[p.n]
                    /\ p.qos = 0 <=> p.id = 0
  <2>1. ToBrokerFits(p)
    BY <1>1 DEF Fits
  <2>2. CASE p.type = "PUBLISH"
    <3>1. /\ p.n \in DOMAIN published /\ p.qos = published[p.n] /\ p.id = ids[p.n]
          /\ p.qos > 0 => \E m \in Own : m.n = p.n
      BY <2>1, <2>2 DEF ToBrokerFits
    <3>2. p.qos = 0 <=> p.id = 0
      BY <1>1, <1>4, <3>1 DEF Pooled
    <3>3. p.id # 0 => \E m \in Own : m.id = p.id
      BY <1>1, <1>4, <3>1, <3>2 DEF Owned
    <3> QED
      BY <2>2, <3>1, <3>2, <3>3
  <2>3. CASE p.type = "PUBREL"
    BY <1>2, <2>1, <2>3 DEF ToBrokerFits
  <2>4. CASE p.type \in {"PUBACK", "PUBREC", "PUBCOMP"}
    BY <1>3, <2>1, <2>4 DEF ToBrokerFits
  <2> QED
    BY <1>5, <2>2, <2>3, <2>4
<1>7. ASSUME NEW p \in Arriving
      PROVE  /\ \/ p.id = 0 /\ p.type = "PUBLISH"
                \/ p.id # 0 /\ \E m \in Own : m.id = p.id
                \/ p.id # 0 /\ \E o \in Promised : o.id = p.id
             /\ p.type = "PUBLISH" =>
                    /\ p.n \in DOMAIN sent /\ p.qos = sent[p.n] /\ p.n \in 1 .. MaxIncoming
                    /\ p.qos = 0 <=> p.id = 0
  <2>1. ToClientFits(p)
    BY <1>1 DEF Fits
  <2>2. CASE p.type = "PUBLISH"
    <3>1. /\ p.n \in DOMAIN sent /\ p.qos = sent[p.n]
          /\ p.qos = 0 => p.id = 0
          /\ p.qos > 0 => \E o \in Promised : o.id = p.id
      BY <2>1, <2>2 DEF ToClientFits
    <3>2. p.n \in 1 .. MaxIncoming /\ p.qos \in 0 .. 2
      BY <1>4, <3>1
    <3> QED
      BY <1>3, <2>2, <3>1, <3>2
  <2>3. CASE p.type = "PUBREL"
    BY <1>3, <2>1, <2>3 DEF ToClientFits
  <2>4. CASE p.type \in {"PUBACK", "PUBREC", "PUBCOMP"}
    BY <1>2, <2>1, <2>4 DEF ToClientFits
  <2> QED
    BY <1>5, <2>2, <2>3, <2>4
<1> QED
  BY <1>6, <1>7

-----------------------------------------------------------------------------
(* The steps, one by one.                                                   *)

\* What depends on the packets only as a set.
LEMMA QuietStep ==
    ASSUME SessionInv,
           UNCHANGED <<clientVars, broker, outgoingVars, incomingVars, lossVars>>,
           Waiting' = Waiting, Leaving' = Leaving, Arriving' = Arriving
    PROVE  Pooled' /\ Listed' /\ (connected' => Live')
<1>1. /\ UNCHANGED <<m_packetIdPool, m_messages, m_receiveMaximumTracker, connected, broker>>
      /\ UNCHANGED <<published, ids, delivered, completed, refused, sent, received, settled>>
  BY DEF clientVars, outgoingVars, incomingVars
<1>2. Pooled' /\ Listed'
  BY <1>1 DEF SessionInv, Pooled, Listed, Promised
<1>3. Kept' = Kept /\ Own' = Own /\ Foreign' = Foreign /\ Promised' = Promised /\ Held' = Held
  BY <1>1 DEF Kept, Own, Foreign, Promised, Held
<1>4. SUFFICES ASSUME connected' PROVE Live'
  BY <1>2
<1>5. Owned /\ Matched /\ Balanced /\ Fits
  BY <1>1, <1>4 DEF SessionInv, Live
<1>6. Owned' /\ Matched' /\ Balanced'
  BY <1>1, <1>3, <1>5 DEF Owned, Matched, Balanced
<1>7. \A p : (ToBrokerFits(p) => ToBrokerFits(p)') /\ (ToClientFits(p) => ToClientFits(p)')
  BY <1>1, <1>3 DEF ToBrokerFits, ToClientFits
<1>8. Fits'
  BY <1>3, <1>5, <1>7 DEF Fits
<1> QED
  BY <1>6, <1>8 DEF Live

\* The steps of a tick that change nothing but where packets wait.
LEMMA InvTick ==
    ASSUME ApartIds, SessionInv, Typed',
           BeginTick \/ DelayPacket \/ EndSend \/ EndReceive \/ PendingPublishMessageRetries
    PROVE  SessionInv'
<1>1. Typed /\ OnePacketEach /\ Places /\ Tidy(m_messages) /\ Typed'
  BY DEF SessionInv, Listed
<1>2. UNCHANGED <<clientVars, broker, outgoingVars, incomingVars, lossVars>> /\ connected
  BY <1>1 DEF BeginTick, DelayPacket, EndSend, EndReceive, PendingPublishMessageRetries, Places
<1>3. OnePacketEach' /\ Waiting' = Waiting /\ Leaving' = Leaving /\ Arriving' = Arriving
  <2>1. CASE DelayPacket
    BY <1>1, <2>1, DelayMoves
  <2>2. CASE EndSend
    BY <1>1, <2>2, EndSendMoves
  <2>3. CASE BeginTick \/ EndReceive
    <3>1. UNCHANGED <<m_sendQueue, delayed, toBroker, toClient>>
      BY <2>3 DEF BeginTick, EndReceive, queueVars, wireVars
    <3> QED
      BY <1>1, <3>1, NothingMoves
  <2>4. CASE PendingPublishMessageRetries
    <3>1. /\ m_sendQueue' = m_sendQueue \o FlattenSeq([i \in Due |-> Retry(m_messages[i])])
          /\ UNCHANGED <<delayed, toBroker, toClient>>
      BY <2>4 DEF PendingPublishMessageRetries, RetryMessages, wireVars
    <3>2. Due = {}
      <4>1. \A i \in DOMAIN m_messages : i \in 1 .. i /\ m_messages[i].retryIn \in Nat
        <5>1. \A i \in DOMAIN m_messages : m_messages[i] \in Messages /\ i \in 1 .. i
          BY <1>1, ElementOfSeq, LenProperties DEF Typed
        <5> QED
          BY <5>1, SessionAssumption DEF Messages
      <4> QED
        BY <1>1, <4>1 DEF Due, Tidy
    <3>3. [i \in Due |-> Retry(m_messages[i])] = <<>>
      BY <3>2
    <3>4. m_sendQueue' = m_sendQueue \o <<>>
      BY <3>1, <3>3, FlattenSeqEmpty
    <3>5. UNCHANGED m_sendQueue
      BY <1>1, <3>4, ConcatEmptySeq DEF Typed
    <3> QED
      BY <1>1, <3>1, <3>5, NothingMoves
  <2> QED
    BY <2>1, <2>2, <2>3, <2>4
<1>4. Pooled' /\ Listed' /\ (connected' => Live')
  BY <1>2, <1>3, QuietStep
<1>5. Places'
  <2>1. UNCHANGED <<m_packetIdPool, m_messages, connected, cutOff, losses>>
    BY <1>2 DEF clientVars, lossVars
  <2>2. tick' # "crashed" /\ (tick' # "send" => delayed' = <<>>)
    BY <1>1 DEF Places, BeginTick, DelayPacket, EndSend, EndReceive,
                PendingPublishMessageRetries, queueVars
  <2>3. Own' = Own
    BY <2>1 DEF Own, Kept
  <2> QED
    BY <1>1, <1>2, <2>1, <2>2, <2>3 DEF Places
<1> QED
  BY <1>1, <1>3, <1>4, <1>5 DEF SessionInv

\* What the client holds of the broker's publishes, when one is acknowledged.
LEMMA AcknowledgeBalanced ==
    ASSUME Typed, Balanced, NEW id
    PROVE  LET t == IncrementReceiveAllowance(m_receiveMaximumTracker, id) IN
           /\ t.m_receivedPublishIDs = Held \ {id}
           /\ t.m_receiveAllowance + Cardinality(t.m_receivedPublishIDs) = ReceiveMaximum
           /\ t.m_maxReceiveAllowance = ReceiveMaximum
<1> DEFINE a == m_receiveMaximumTracker.m_receiveAllowance
           k == Cardinality(Held)
<1>1. /\ a \in Nat /\ m_receiveMaximumTracker \in Tracker /\ ReceiveMaximum \in Nat
      /\ IsFiniteSet(Held) /\ k \in Nat /\ a + k = ReceiveMaximum
      /\ m_receiveMaximumTracker.m_maxReceiveAllowance = ReceiveMaximum
  BY FS_CardinalityType, SessionAssumption DEF Typed, Tracker, Balanced
<1>2. CASE id \notin Held
  <2>1. IncrementReceiveAllowance(m_receiveMaximumTracker, id) = m_receiveMaximumTracker
    BY <1>2 DEF IncrementReceiveAllowance, Held
  <2> QED
    BY <1>1, <1>2, <2>1 DEF Held
<1>3. CASE id \in Held
  <2>1. Cardinality(Held \ {id}) = k - 1
    BY <1>1, <1>3, FS_RemoveElement
  <2>2. k # 0
    BY <1>1, <1>3, FS_EmptySet
  <2>3. a < ReceiveMaximum
    BY <1>1, <2>2
  <2>4. IncrementReceiveAllowance(m_receiveMaximumTracker, id) =
            [m_receiveMaximumTracker EXCEPT !.m_receiveAllowance = a + 1,
                                            !.m_receivedPublishIDs = Held \ {id}]
    BY <1>1, <1>3, <2>3 DEF IncrementReceiveAllowance, Held
  <2>5. \A v, w : LET t == [m_receiveMaximumTracker EXCEPT !.m_receiveAllowance = v,
                                                          !.m_receivedPublishIDs = w] IN
          /\ t.m_receivedPublishIDs = w /\ t.m_receiveAllowance = v
          /\ t.m_maxReceiveAllowance = m_receiveMaximumTracker.m_maxReceiveAllowance
    BY <1>1 DEF Tracker
  <2> HIDE DEF a, k
  <2>6. a + 1 + (k - 1) = ReceiveMaximum
    BY <1>1
  <2> QED
    BY <1>1, <2>1, <2>4, <2>5, <2>6
<1> QED
  BY <1>2, <1>3

\* The fields about the other direction are left alone by what a tracker does for one.
LEMMA SendSideOnly ==
    ASSUME NEW t \in Tracker, NEW id
    PROVE  /\ DecrementSendAllowance(t, id).m_receivedPublishIDs = t.m_receivedPublishIDs
           /\ DecrementSendAllowance(t, id).m_receiveAllowance = t.m_receiveAllowance
           /\ DecrementSendAllowance(t, id).m_maxReceiveAllowance = t.m_maxReceiveAllowance
           /\ IncrementSendAllowance(t, id).m_receivedPublishIDs = t.m_receivedPublishIDs
           /\ IncrementSendAllowance(t, id).m_receiveAllowance = t.m_receiveAllowance
           /\ IncrementSendAllowance(t, id).m_maxReceiveAllowance = t.m_maxReceiveAllowance
<1>1. \A v, w : LET u == [t EXCEPT !.m_sendAllowance = v, !.m_sentPublishIDs = w] IN
          /\ u.m_receivedPublishIDs = t.m_receivedPublishIDs
          /\ u.m_receiveAllowance = t.m_receiveAllowance
          /\ u.m_maxReceiveAllowance = t.m_maxReceiveAllowance
  BY DEF Tracker
<1> QED
  BY <1>1 DEF DecrementSendAllowance, IncrementSendAllowance

\* What a sent packet does to the session: a PUBCOMP takes the broker's publish out.
LEMMA SentChanges ==
    ASSUME ApartIds, SessionInv, connected, NEW p \in Waiting, AfterSent(p)
    PROVE  /\ Tidy(m_messages') /\ UNCHANGED <<m_packetIdPool, tick>>
           /\ Kept' = IF p.type = "PUBCOMP" THEN {m \in Kept : m.id # p.id} ELSE Kept
           /\ Own' = Own
<1>1. /\ Typed /\ Pooled /\ Listed /\ Owned /\ Matched /\ Fits /\ RetryInterval > 0
      /\ m_messages \in Seq(Messages) /\ Tidy(m_messages)
  BY DEF SessionInv, Live, ApartIds, Listed, Typed
<1>2. ToBrokerFits(p)
  BY <1>1 DEF Fits
<1>3. CASE p.type = "PUBREC" \/ p.type = "PUBREL"
  <2>1. \E m \in Kept : m.id = p.id
    BY <1>2, <1>3 DEF ToBrokerFits, Own, Foreign
  <2>2. InSession(m_messages, p.id)
    BY <1>1, <2>1, KeptTyped
  <2>3. PICK status \in Statuses : UpdateMessage(p.id, status) /\ UNCHANGED m_packetIdPool
    BY <1>3 DEF AfterSent, Statuses
  <2>4. /\ KeptOf(m_messages') = KeptOf(m_messages) /\ Tidy(m_messages')
        /\ UNCHANGED tick
    BY <1>1, <2>2, <2>3, UpdateTyped
  <2> QED
    BY <1>3, <2>3, <2>4 DEF Kept, Own
<1>4. CASE p.type = "PUBCOMP"
  <2>1. RemoveMessage(p.id) /\ UNCHANGED tick
    BY <1>4 DEF AfterSent
  <2>2. PICK o \in Promised : o.id = p.id
    BY <1>2, <1>4 DEF ToBrokerFits
  <2>3. p.id \notin UsedIds(m_packetIdPool) /\ \A m \in Own : m.id # p.id
    BY <1>1, <2>2, IdsApart DEF Listed
  <2>4. UNCHANGED m_packetIdPool
    BY <2>1, <2>3 DEF RemoveMessage, ReleaseId
  <2>5. m_messages' = EraseMessage(m_messages, p.id)
    BY <2>1 DEF RemoveMessage
  <2>6. Tidy(m_messages') /\ KeptOf(m_messages') = {m \in KeptOf(m_messages) : m.id # p.id}
    BY <1>1, <2>5, EraseKept
  <2> QED
    BY <1>4, <2>1, <2>3, <2>4, <2>6 DEF Kept, Own
<1>5. CASE p.type \notin {"PUBREC", "PUBREL", "PUBCOMP"}
  <2>1. UNCHANGED <<m_messages, m_packetIdPool, tick>>
    BY <1>5 DEF AfterSent
  <2> QED
    BY <1>1, <1>5, <2>1 DEF Kept, Own
<1> QED
  BY <1>3, <1>4, <1>5

\* What a sent packet does to the tracker: a PUBACK or a PUBCOMP gives its part back.
LEMMA SentBalance ==
    ASSUME Typed, Balanced, NEW p, m_receiveMaximumTracker' = TrackerAfterSend(p)
    PROVE  /\ Held' = IF p.type \in {"PUBACK", "PUBCOMP"} THEN Held \ {p.id} ELSE Held
           /\ m_receiveMaximumTracker'.m_receiveAllowance + Cardinality(Held') = ReceiveMaximum
           /\ m_receiveMaximumTracker'.m_maxReceiveAllowance = ReceiveMaximum
<1>1. m_receiveMaximumTracker \in Tracker
  BY DEF Typed
<1>2. CASE p.type \in {"PUBACK", "PUBCOMP"}
  <2>1. m_receiveMaximumTracker' = IncrementReceiveAllowance(m_receiveMaximumTracker, p.id)
    BY <1>2 DEF TrackerAfterSend
  <2> QED
    BY <1>2, <2>1, AcknowledgeBalanced DEF Held
<1>3. CASE p.type \notin {"PUBACK", "PUBCOMP"}
  <2>1. m_receiveMaximumTracker' \in {DecrementSendAllowance(m_receiveMaximumTracker, p.id),
                                      m_receiveMaximumTracker}
    BY <1>3 DEF TrackerAfterSend
  <2>2. /\ m_receiveMaximumTracker'.m_receiveAllowance = m_receiveMaximumTracker.m_receiveAllowance
        /\ m_receiveMaximumTracker'.m_maxReceiveAllowance = m_receiveMaximumTracker.m_maxReceiveAllowance
        /\ Held' = Held
    BY <1>1, <2>1, SendSideOnly DEF Held
  <2> QED
    BY <1>3, <2>2 DEF Balanced
<1> QED
  BY <1>2, <1>3

LEMMA InvSendPacket ==
    ASSUME ApartIds, SessionInv, Typed', SendPacket
    PROVE  SessionInv'
<1> DEFINE p == Head(m_sendQueue)
<1>1. /\ Typed /\ OnePacketEach /\ Pooled /\ Listed /\ Places /\ connected
      /\ Owned /\ Matched /\ Balanced /\ Fits
  BY DEF SessionInv, Live, Places, SendPacket
<1>2. /\ tick = "send" /\ m_sendQueue # <<>> /\ m_receiveMaximumTracker' = TrackerAfterSend(p)
      /\ AfterSent(p) /\ toBroker' = Append(toBroker, p) /\ m_sendQueue' = Tail(m_sendQueue)
      /\ UNCHANGED <<connected, delayed, toClient, broker, outgoingVars, incomingVars, lossVars>>
  BY DEF SendPacket
<1> HIDE DEF p
<1>3. UNCHANGED <<published, ids, delivered, completed, refused, sent, received, settled,
                  cutOff, losses>>
  BY <1>2 DEF outgoingVars, incomingVars, lossVars
<1>4. /\ OnePacketEach' /\ p \in Waiting
      /\ Waiting' \subseteq Waiting /\ Leaving' = Leaving \union {p} /\ Arriving' = Arriving
      /\ Waiting' \union Leaving' = Waiting \union Leaving
  BY <1>1, <1>2, SendMoves DEF p
<1>5. /\ Tidy(m_messages') /\ UNCHANGED <<m_packetIdPool, tick>>
      /\ Kept' = IF p.type = "PUBCOMP" THEN {m \in Kept : m.id # p.id} ELSE Kept
      /\ Own' = Own
  BY <1>1, <1>2, <1>4, SentChanges
<1>6. /\ Held' = IF p.type \in {"PUBACK", "PUBCOMP"} THEN Held \ {p.id} ELSE Held
      /\ m_receiveMaximumTracker'.m_receiveAllowance + Cardinality(Held') = ReceiveMaximum
      /\ m_receiveMaximumTracker'.m_maxReceiveAllowance = ReceiveMaximum
  BY <1>1, <1>2, SentBalance
<1>7. Promised' = Promised
  BY <1>2 DEF Promised
<1>8. /\ Kept' \subseteq Kept /\ Foreign' \subseteq Foreign /\ Held' \subseteq Held
      /\ \A m \in Foreign : m.id # p.id => m \in Foreign'
      /\ p.type # "PUBCOMP" => Foreign' = Foreign
  BY <1>5, <1>6 DEF Foreign
<1>9. Pooled' /\ Listed' /\ Owned'
  <2>1. Pooled'
    BY <1>1, <1>3, <1>5 DEF Pooled
  <2>2. Listed'
    BY <1>1, <1>2, <1>3, <1>5, <1>7 DEF Listed
  <2>3. Owned'
    BY <1>1, <1>3, <1>5 DEF Owned
  <2> QED
    BY <2>1, <2>2, <2>3
<1>10. Places'
  BY <1>1, <1>2, <1>3, <1>5 DEF Places
<1>11. Matched'
  BY <1>1, <1>2, <1>4, <1>5, <1>7, <1>8 DEF Matched
<1>12. Balanced'
  <2>1. IsFiniteSet(Held')
    BY <1>1, <1>8, FS_Subset DEF Balanced
  <2> QED
    BY <1>1, <1>2, <1>6, <1>7, <1>8, <2>1 DEF Balanced
<1>13. ASSUME NEW q \in Waiting' \union Leaving' PROVE ToBrokerFits(q)'
  <2>1. ToBrokerFits(q) /\ q \in Waiting \union Leaving
    BY <1>1, <1>4, <1>13 DEF Fits
  <2>2. q.type = "PUBREC" => \E m \in Foreign' : m.id = q.id
    <3>1. CASE p.type # "PUBCOMP"
      BY <1>8, <2>1, <3>1 DEF ToBrokerFits
    <3>2. CASE p.type = "PUBCOMP" /\ q.type = "PUBREC"
      <4>1. q.id # 0 /\ q # p
        BY <1>1, <2>1, <3>2, PacketIds
      <4>2. q.id # p.id
        BY <1>1, <1>4, <2>1, <4>1, OnlyPacket
      <4> QED
        BY <1>8, <2>1, <3>2, <4>2 DEF ToBrokerFits
    <3> QED
      BY <3>1, <3>2
  <2>3. q.type = "PUBACK" => \A m \in Kept' : m.id # q.id
    BY <1>8, <2>1 DEF ToBrokerFits
  <2>4. q.type \notin {"PUBREC", "PUBACK"} => ToBrokerFits(q)'
    BY <1>2, <1>3, <1>5, <1>7, <2>1 DEF ToBrokerFits
  <2>5. q.type \in {"PUBREC", "PUBACK"} => \E o \in Promised' : o.id = q.id /\ received'[o.n] > 0
    BY <1>3, <1>7, <2>1 DEF ToBrokerFits
  <2> QED
    BY <2>2, <2>3, <2>4, <2>5 DEF ToBrokerFits
<1>14. ASSUME NEW q \in Arriving' PROVE ToClientFits(q)'
  <2>1. ToClientFits(q) /\ q \in Arriving
    BY <1>1, <1>4, <1>14 DEF Fits
  <2>2. q.type = "PUBREL" => \E m \in Foreign' : m.id = q.id
    <3>1. SUFFICES ASSUME q.type = "PUBREL" PROVE \E m \in Foreign' : m.id = q.id
      OBVIOUS
    <3>2. PICK m \in Foreign : m.id = q.id
      BY <2>1, <3>1 DEF ToClientFits
    <3>3. q.id # 0
      BY <1>1, <2>1, <3>1, PacketIds
    <3>4. q.id # p.id
      BY <1>1, <1>4, <2>1, <3>3, OnlyPacket
    <3> QED
      BY <1>8, <3>2, <3>4
  <2>3. q.type = "PUBREL" => ToClientFits(q)'
    BY <1>3, <1>7, <2>1, <2>2 DEF ToClientFits
  <2>4. q.type # "PUBREL" => ToClientFits(q)'
    BY <1>2, <1>3, <1>5, <1>7, <1>8, <2>1 DEF ToClientFits
  <2> QED
    BY <2>3, <2>4
<1>15. ASSUME NEW q \in Leaving', q.type \in {"PUBACK", "PUBCOMP"}
       PROVE  q.id \notin Held' /\ \A m \in Kept' : m.id # q.id
  <2>1. CASE q \in Leaving
    BY <1>1, <1>8, <1>15, <2>1 DEF Fits
  <2>2. CASE q = p
    <3>1. ToBrokerFits(p)
      BY <1>1, <1>4 DEF Fits
    <3> QED
      BY <1>5, <1>6, <1>8, <1>15, <2>2, <3>1 DEF ToBrokerFits
  <2> QED
    BY <1>4, <2>1, <2>2
<1>16. Fits'
  BY <1>13, <1>14, <1>15 DEF Fits
<1> QED
  BY <1>4, <1>9, <1>10, <1>11, <1>12, <1>16 DEF SessionInv, Live

\* The identifiers of the broker's publishes are no more than the publishes.
LEMMA PromisedCount ==
    ASSUME Typed, Balanced
    PROVE  LET I == {o.id : o \in Promised} IN
           IsFiniteSet(I) /\ Cardinality(I) <= ReceiveMaximum /\ Cardinality(I) \in Nat
<1> DEFINE I == {o.id : o \in broker.outbound}
<1>1. /\ IsFiniteSet(broker.outbound) /\ Cardinality(broker.outbound) <= ReceiveMaximum
      /\ Cardinality(broker.outbound) \in Nat /\ ReceiveMaximum \in Nat
  BY FS_CardinalityType, SessionAssumption DEF Balanced
<1>2. IsFiniteSet(I) /\ Cardinality(I) <= Cardinality(broker.outbound)
  <2> DEFINE f == [o \in broker.outbound |-> o.id]
  <2>1. f \in Surjection(broker.outbound, I)
    BY DEF Surjection
  <2> HIDE DEF f, I
  <2> QED
    BY <1>1, <2>1, FS_Surjection
<1>3. Cardinality(I) \in Nat
  BY <1>2, FS_CardinalityType
<1>4. {o.id : o \in Promised} = I
  BY PromisedTyped
<1>5. Cardinality(I) <= ReceiveMaximum
  BY <1>1, <1>2, <1>3
<1> HIDE DEF I
<1> QED
  BY <1>2, <1>3, <1>4, <1>5

\* A publish that the client does not hold yet is within its Receive Maximum.
LEMMA ArrivalAllowed ==
    ASSUME Typed, Balanced, NEW o \in Promised, o.id \notin Held
    PROVE  LET t == DecrementReceiveAllowance(m_receiveMaximumTracker, o.id) IN
           /\ MayReceive(m_receiveMaximumTracker, o.id)
           /\ t.m_receivedPublishIDs = Held \union {o.id}
           /\ t.m_receiveAllowance + Cardinality(t.m_receivedPublishIDs) = ReceiveMaximum
           /\ t.m_maxReceiveAllowance = ReceiveMaximum
<1> DEFINE a == m_receiveMaximumTracker.m_receiveAllowance
           k == Cardinality(Held)
           I == {x.id : x \in Promised}
<1>1. /\ a \in Nat /\ m_receiveMaximumTracker \in Tracker /\ ReceiveMaximum \in Nat
      /\ IsFiniteSet(Held) /\ k \in Nat /\ a + k = ReceiveMaximum
      /\ m_receiveMaximumTracker.m_maxReceiveAllowance = ReceiveMaximum
      /\ Held \union {o.id} \subseteq I
  BY FS_CardinalityType, SessionAssumption DEF Typed, Tracker, Balanced
<1>2. IsFiniteSet(I) /\ Cardinality(I) <= ReceiveMaximum /\ Cardinality(I) \in Nat
  BY PromisedCount
<1>3. Cardinality(Held \union {o.id}) = k + 1
  BY <1>1, FS_AddElement
<1> HIDE DEF I
<1>4. Cardinality(Held \union {o.id}) <= Cardinality(I)
  BY <1>1, <1>2, FS_Subset
<1>5. k + 1 <= ReceiveMaximum
  BY <1>1, <1>2, <1>3, <1>4
<1>6. a # 0
  BY <1>1, <1>5
<1>7. MayReceive(m_receiveMaximumTracker, o.id)
  BY <1>6 DEF MayReceive
<1>8. DecrementReceiveAllowance(m_receiveMaximumTracker, o.id) =
          [m_receiveMaximumTracker EXCEPT !.m_receiveAllowance = a - 1,
                                          !.m_receivedPublishIDs = Held \union {o.id}]
  BY <1>7 DEF DecrementReceiveAllowance, Held
<1>9. \A v, w : LET t == [m_receiveMaximumTracker EXCEPT !.m_receiveAllowance = v,
                                                        !.m_receivedPublishIDs = w] IN
        /\ t.m_receivedPublishIDs = w /\ t.m_receiveAllowance = v
        /\ t.m_maxReceiveAllowance = m_receiveMaximumTracker.m_maxReceiveAllowance
  BY <1>1 DEF Tracker
<1> HIDE DEF a, k
<1>10. a - 1 + (k + 1) = ReceiveMaximum
  BY <1>1
<1> QED
  BY <1>1, <1>3, <1>7, <1>8, <1>9, <1>10

LEMMA InvReceivePublish ==
    ASSUME ApartIds, SessionInv, Typed', ReceivePublish
    PROVE  SessionInv' /\ UNCHANGED cutOff
<1> DEFINE p == Head(toClient)
           a == Answer(IF p.qos = 1 THEN "PUBACK" ELSE "PUBREC", p.id)
<1>1. /\ Typed /\ OnePacketEach /\ Pooled /\ Listed /\ Places /\ connected
      /\ Owned /\ Matched /\ Balanced /\ Fits
  BY DEF SessionInv, Live, ReceivePublish, Receives
<1>2. /\ toClient # <<>> /\ p.type = "PUBLISH" /\ tick = "receive"
      /\ UNCHANGED <<broker, outgoingVars, sent, settled>>
  BY DEF ReceivePublish, Receives
<1>3. p \in FromBroker /\ p \in Packets /\ p.id \in Nat /\ p.qos \in 0 .. 2
  <2>1. p \in FromBroker
    BY <1>1, <1>2, HeadsTyped
  <2> QED
    BY <2>1 DEF FromBroker, Packets
<1>4. p \in Arriving
  BY <1>1, <1>2, HeadTyped DEF Arriving, Typed
<1>5. /\ p.n \in DOMAIN sent /\ p.qos = sent[p.n] /\ received[p.n] = 0 /\ p.n \in 1 .. MaxIncoming
      /\ p.qos = 0 <=> p.id = 0
      /\ p.qos > 0 => /\ p.id \notin Held
                      /\ \A m \in Kept : m.id # p.id
                      /\ \E o \in Promised : o.id = p.id /\ o.n = p.n
  <2>1. ToClientFits(p)
    BY <1>1, <1>4 DEF Fits
  <2> QED
    BY <1>1, <1>2, <1>4, <2>1, PacketIds DEF ToClientFits
<1>6. ~(p.qos > 0 /\ ~MayReceive(m_receiveMaximumTracker, p.id))
  BY <1>1, <1>5, ArrivalAllowed
<1>7. /\ m_receiveMaximumTracker' =
             IF p.qos > 0 THEN DecrementReceiveAllowance(m_receiveMaximumTracker, p.id)
                          ELSE m_receiveMaximumTracker
      /\ FireEvent(p) /\ AcknowledgePublish(p) /\ TakePacket
      /\ UNCHANGED <<m_packetIdPool, connected, delayed, tick, lossVars>>
  BY <1>6 DEF ReceivePublish, FirePublishReceived
<1> HIDE DEF p
<1>8. /\ UNCHANGED <<broker, published, ids, delivered, completed, refused, sent, settled,
                     cutOff, losses, m_packetIdPool, connected, delayed, tick, toBroker>>
      /\ toClient' = Tail(toClient)
  BY <1>2, <1>7 DEF outgoingVars, lossVars, TakePacket, p
<1>9. /\ Held' = IF p.qos > 0 THEN Held \union {p.id} ELSE Held
      /\ m_receiveMaximumTracker'.m_receiveAllowance + Cardinality(Held') = ReceiveMaximum
      /\ m_receiveMaximumTracker'.m_maxReceiveAllowance = ReceiveMaximum
  <2>1. CASE p.qos > 0
    BY <1>1, <1>5, <1>7, <2>1, ArrivalAllowed DEF Held
  <2>2. CASE ~(p.qos > 0)
    BY <1>1, <1>7, <2>2 DEF Held, Balanced
  <2> QED
    BY <2>1, <2>2
<1>10. /\ received'[p.n] = 1
       /\ \A n \in 1 .. MaxIncoming : n # p.n => received'[n] = received[n]
  BY <1>1, <1>5, <1>7 DEF FireEvent, Typed
<1>11. \A n \in 1 .. MaxIncoming : received[n] > 0 => received'[n] > 0
  BY <1>10
<1>12. /\ p.qos = 0 => UNCHANGED m_sendQueue
       /\ p.qos > 0 => m_sendQueue' = Append(m_sendQueue, a)
       /\ a \in Packets /\ a.id = p.id
       /\ a.type = IF p.qos = 1 THEN "PUBACK" ELSE "PUBREC"
  <2>1. a \in Packets /\ a.id = p.id /\ a.type = IF p.qos = 1 THEN "PUBACK" ELSE "PUBREC"
    BY <1>3, AnswerTyped
  <2>2. CASE p.qos = 0
    BY <1>7, <2>1, <2>2 DEF AcknowledgePublish
  <2>3. CASE p.qos = 1
    BY <1>7, <2>1, <2>3 DEF AcknowledgePublish, AddToQueue
  <2>4. CASE p.qos = 2
    BY <1>7, <2>1, <2>4 DEF AcknowledgePublish, AddToQueue
  <2> QED
    BY <1>3, <2>2, <2>3, <2>4
<1> HIDE DEF a
<1>13. /\ OnePacketEach'
       /\ Waiting' = IF p.qos > 0 THEN Waiting \union {a} ELSE Waiting
       /\ Leaving' = Leaving /\ Arriving' = Arriving \ {p}
  <2>1. CASE p.qos = 0
    BY <1>1, <1>2, <1>8, <1>12, <2>1, ReceiveMoves DEF p
  <2>2. CASE p.qos > 0
    BY <1>1, <1>2, <1>5, <1>8, <1>12, <2>2, ReplyMoves DEF p
  <2> QED
    BY <1>3, <2>1, <2>2
<1>14. /\ Tidy(m_messages')
       /\ Kept' = IF p.qos = 2 THEN Kept \union {[id |-> p.id, n |-> 0]} ELSE Kept
  <2>1. CASE p.qos # 2
    <3>1. UNCHANGED m_messages
      <4>1. CASE p.qos = 0
        BY <1>7, <4>1 DEF AcknowledgePublish
      <4>2. CASE p.qos = 1
        BY <1>7, <4>2 DEF AcknowledgePublish
      <4> QED
        BY <1>3, <2>1, <4>1, <4>2
    <3> QED
      BY <1>1, <2>1, <3>1 DEF Listed, Kept
  <2>2. CASE p.qos = 2
    <3> DEFINE new == NewMessage(p.id, 0, 0, RetryInterval)
    <3>1. m_messages' = PushMessage(m_messages, new)
      BY <1>7, <2>2 DEF AcknowledgePublish
    <3>2. /\ RetryInterval \in 0 .. RetryInterval /\ 0 \in 0 .. MaxPublishes /\ 0 \in 0 .. 2
          /\ p.id \in Nat \ {0} /\ RetryInterval > 0
      BY <1>3, <1>5, <2>2, SessionAssumption DEF ApartIds
    <3>3. new \in Messages /\ new.id = p.id /\ new.n = 0 /\ new.mapped /\ new.retryIn > 0
      BY <3>2 DEF NewMessage, Messages
    <3>4. \A k \in KeptOf(m_messages) : k.id # p.id
      BY <1>5, <2>2 DEF Kept
    <3>5. Tidy(m_messages) /\ m_messages \in Seq(Messages)
      BY <1>1 DEF Listed, Typed
    <3> HIDE DEF new
    <3> QED
      BY <2>2, <3>1, <3>3, <3>4, <3>5, PushKept DEF Kept
  <2> QED
    BY <2>1, <2>2
<1>15. /\ Own' = Own /\ Promised' = Promised /\ Kept \subseteq Kept' /\ Foreign \subseteq Foreign'
       /\ \A m \in Kept' : m \in Kept \/ (p.qos = 2 /\ m.id = p.id /\ m \in Foreign')
       /\ p.qos = 2 => \E m \in Foreign' : m.id = p.id
  <2>1. [id |-> p.id, n |-> 0].n = 0 /\ [id |-> p.id, n |-> 0].id = p.id
    OBVIOUS
  <2> QED
    BY <1>8, <1>14, <2>1 DEF Own, Foreign, Promised
<1>16. \A q \in Arriving' : q \in Arriving /\ q # p /\ (q.id # 0 => q.id # p.id)
  BY <1>1, <1>4, <1>13, OnlyPacket
<1>17. \A q \in Waiting \union Leaving : q.id = p.id => q.id = 0
  BY <1>1, <1>4, OnlyPacket
<1>18. Pooled' /\ Listed' /\ Owned'
  <2>1. \A n \in 1 .. MaxIncoming : n > Len(sent') => received'[n] = 0
    <3>1. DOMAIN sent = 1 .. Len(sent) /\ Len(sent) \in Nat
      BY <1>1, LenProperties DEF Typed
    <3> QED
      BY <1>1, <1>5, <1>8, <1>10, <3>1 DEF Pooled
  <2>2. Pooled'
    BY <1>1, <1>8, <2>1 DEF Pooled
  <2>3. Listed'
    BY <1>1, <1>8, <1>14, <1>15 DEF Listed
  <2>4. Owned'
    BY <1>1, <1>8, <1>15 DEF Owned
  <2> QED
    BY <2>2, <2>3, <2>4
<1>19. Places'
  BY <1>1, <1>2, <1>8, <1>15 DEF Places
<1>20. Matched'
  <2>1. \A m \in Foreign' : \E o \in Promised' : o.id = m.id
    BY <1>1, <1>5, <1>15 DEF Matched, Foreign
  <2>2. ASSUME NEW m \in Kept' PROVE \E q \in Waiting' \union Leaving' \union Arriving' : q.id = m.id
    <3>1. CASE m \in Kept
      <4>1. PICK q \in Waiting \union Leaving \union Arriving : q.id = m.id
        BY <1>1, <3>1 DEF Matched
      <4>2. m.id # 0
        BY <1>1, <3>1, KeptTyped DEF Listed
      <4>3. p.qos > 0 => m.id # p.id
        BY <1>5, <3>1
      <4>4. q # p
        BY <1>3, <1>5, <4>1, <4>2, <4>3
      <4> QED
        BY <1>13, <4>1, <4>4
    <3>2. CASE p.qos = 2 /\ m.id = p.id
      BY <1>12, <1>13, <3>2
    <3> QED
      BY <1>15, <3>1, <3>2
  <2> QED
    BY <1>1, <1>8, <1>15, <2>1, <2>2 DEF Matched
<1>21. Balanced'
  <2>1. IsFiniteSet(Held') /\ Held' \subseteq {o.id : o \in Promised}
    BY <1>1, <1>5, <1>9, FS_AddElement DEF Balanced
  <2> QED
    BY <1>1, <1>8, <1>9, <1>15, <2>1 DEF Balanced
<1>22. ASSUME NEW q \in Waiting' \union Leaving' PROVE ToBrokerFits(q)'
  <2>1. CASE q \in Waiting \union Leaving
    <3>1. ToBrokerFits(q)
      BY <1>1, <2>1 DEF Fits
    <3>2. \A o \in Promised : o.n \in 1 .. MaxIncoming
      <4>1. DOMAIN sent \subseteq 1 .. MaxIncoming
        BY <1>1, SentTyped
      <4> QED
        BY <1>1, <4>1 DEF Listed
    <3>3. q.type \in {"PUBACK", "PUBREC", "PUBCOMP"} =>
             \E o \in Promised' : o.id = q.id /\ received'[o.n] > 0
      BY <1>11, <1>15, <3>1, <3>2 DEF ToBrokerFits
    <3>4. q.type = "PUBREC" => \E m \in Foreign' : m.id = q.id
      BY <1>15, <3>1 DEF ToBrokerFits
    <3>5. q.type = "PUBACK" => \A m \in Kept' : m.id # q.id
      <4>1. q.type = "PUBACK" => q.id # p.id /\ \A m \in Kept : m.id # q.id
        BY <1>1, <1>17, <2>1, <3>1, PacketIds DEF ToBrokerFits
      <4> QED
        BY <1>15, <4>1
    <3>6. q.type = "PUBLISH" \/ q.type = "PUBREL" => ToBrokerFits(q)'
      BY <1>8, <1>15, <3>1 DEF ToBrokerFits
    <3> QED
      BY <3>3, <3>4, <3>5, <3>6 DEF ToBrokerFits
  <2>2. CASE q = a /\ p.qos > 0
    <3>1. \E o \in Promised' : o.id = q.id /\ received'[o.n] > 0
      BY <1>5, <1>10, <1>12, <1>15, <2>2
    <3>2. q.type = "PUBREC" => \E m \in Foreign' : m.id = q.id
      BY <1>3, <1>12, <1>15, <2>2
    <3>3. q.type = "PUBACK" => \A m \in Kept' : m.id # q.id
      BY <1>5, <1>12, <1>15, <2>2
    <3>4. q.type \in {"PUBACK", "PUBREC"}
      BY <1>12, <2>2
    <3> QED
      BY <3>1, <3>2, <3>3, <3>4 DEF ToBrokerFits
  <2> QED
    BY <1>13, <2>1, <2>2
<1>23. ASSUME NEW q \in Arriving' PROVE ToClientFits(q)'
  <2>1. ToClientFits(q) /\ q \in Arriving /\ q # p /\ (q.id # 0 => q.id # p.id)
    BY <1>1, <1>16 DEF Fits
  <2>2. CASE q.type = "PUBLISH"
    <3>1. /\ q.n \in DOMAIN sent /\ q.qos = sent[q.n] /\ q.n \in 1 .. MaxIncoming
          /\ q.qos = 0 <=> q.id = 0
          /\ received[q.n] = 0
      BY <1>1, <2>1, <2>2, PacketIds DEF ToClientFits
    <3>2. q.n # p.n
      <4>1. SUFFICES ASSUME q.n = p.n PROVE FALSE
        OBVIOUS
      <4>2. q.qos = p.qos
        BY <1>5, <3>1, <4>1
      <4>3. CASE p.qos = 0
        <5>1. Clash(q, p)
          BY <1>5, <3>1, <4>1, <4>2, <4>3 DEF Clash
        <5> QED
          BY <1>1, <1>4, <2>1, <5>1, OnlyPacket
      <4>4. CASE p.qos > 0
        <5>1. PICK o1 \in Promised : o1.id = p.id /\ o1.n = p.n
          BY <1>5, <4>4
        <5>2. PICK o2 \in Promised : o2.id = q.id /\ o2.n = q.n
          BY <2>1, <2>2, <4>2, <4>4 DEF ToClientFits
        <5>3. o1 = o2
          BY <1>1, <4>1, <5>1, <5>2 DEF Listed
        <5>4. q.id # 0
          BY <1>3, <3>1, <4>2, <4>4
        <5> QED
          BY <2>1, <5>1, <5>2, <5>3, <5>4
      <4> QED
        BY <1>3, <4>3, <4>4
    <3>3. received'[q.n] = 0
      BY <1>10, <3>1, <3>2
    <3>4. q.qos > 0 => /\ q.id \notin Held'
                       /\ \A m \in Kept' : m.id # q.id
                       /\ \E o \in Promised' : o.id = q.id /\ o.n = q.n
      <4>1. SUFFICES ASSUME q.qos > 0
                     PROVE  /\ q.id \notin Held' /\ \A m \in Kept' : m.id # q.id
                            /\ \E o \in Promised' : o.id = q.id /\ o.n = q.n
        OBVIOUS
      <4>2. q.id # 0 /\ q.id # p.id
        BY <2>1, <3>1, <4>1
      <4>3. /\ q.id \notin Held /\ \A m \in Kept : m.id # q.id
            /\ \E o \in Promised : o.id = q.id /\ o.n = q.n
        BY <2>1, <2>2, <4>1 DEF ToClientFits
      <4> QED
        BY <1>9, <1>15, <4>2, <4>3
    <3> QED
      BY <1>8, <2>2, <3>1, <3>3, <3>4 DEF ToClientFits
  <2>3. CASE q.type = "PUBREL"
    <3>1. /\ \E m \in Foreign : m.id = q.id
          /\ \E o \in Promised : o.id = q.id /\ received[o.n] > 0
      BY <2>1, <2>3 DEF ToClientFits
    <3>2. \A o \in Promised : o.n \in 1 .. MaxIncoming
      <4>1. DOMAIN sent \subseteq 1 .. MaxIncoming
        BY <1>1, SentTyped
      <4> QED
        BY <1>1, <4>1 DEF Listed
    <3>3. /\ \E m \in Foreign' : m.id = q.id
          /\ \E o \in Promised' : o.id = q.id /\ received'[o.n] > 0
      BY <1>11, <1>15, <3>1, <3>2
    <3> QED
      BY <2>3, <3>3 DEF ToClientFits
  <2>4. CASE q.type \notin {"PUBLISH", "PUBREL"}
    BY <1>8, <1>15, <2>1, <2>4 DEF ToClientFits
  <2> QED
    BY <2>2, <2>3, <2>4
<1>24. ASSUME NEW q \in Leaving', q.type \in {"PUBACK", "PUBCOMP"}
       PROVE  q.id \notin Held' /\ \A m \in Kept' : m.id # q.id
  <2>1. q \in Leaving /\ q.id # 0 /\ q.id # p.id
    BY <1>1, <1>13, <1>17, <1>24, PacketIds
  <2>2. q.id \notin Held /\ \A m \in Kept : m.id # q.id
    BY <1>1, <1>24, <2>1 DEF Fits
  <2> QED
    BY <1>9, <1>15, <2>1, <2>2
<1>25. Fits'
  BY <1>22, <1>23, <1>24 DEF Fits
<1> QED
  BY <1>8, <1>13, <1>18, <1>19, <1>20, <1>21, <1>25 DEF SessionInv, Live

\* A publish is ended by the answer of the broker: it is the one the application hears of.
LEMMA EndChanges ==
    ASSUME ApartIds, SessionInv, connected, NEW p \in Packets, p \in Arriving,
           p.type \in {"PUBACK", "PUBCOMP"} \/ (p.type = "PUBREC" /\ p.n = 1), EndPublish(p)
    PROVE  \E m \in Own :
              /\ m.id = p.id /\ p.n \in {0, 1} /\ (delivered[m.n] > 0 <=> p.n = 0)
              /\ IF p.n = 0 THEN completed' = completed \union {m.n} /\ UNCHANGED refused
                            ELSE refused' = refused \union {m.n} /\ UNCHANGED completed
              /\ Tidy(m_messages') /\ Kept' = {k \in Kept : k.id # p.id}
              /\ Foreign' = Foreign /\ Own' = Own \ {m}
              /\ m_packetIdPool'.m_nextId = m_packetIdPool.m_nextId
              /\ UsedIds(m_packetIdPool') = UsedIds(m_packetIdPool) \ {p.id}
              /\ Held' = Held
              /\ m_receiveMaximumTracker'.m_receiveAllowance = m_receiveMaximumTracker.m_receiveAllowance
              /\ m_receiveMaximumTracker'.m_maxReceiveAllowance
                    = m_receiveMaximumTracker.m_maxReceiveAllowance
              /\ UNCHANGED m_sendQueue
<1>1. /\ Typed /\ Pooled /\ Listed /\ Owned /\ Matched /\ Fits
      /\ m_messages \in Seq(Messages) /\ Tidy(m_messages) /\ m_receiveMaximumTracker \in Tracker
      /\ m_packetIdPool \in Pool /\ p.id \in Nat
  BY DEF SessionInv, Live, Listed, Typed, Packets
<1>2. PICK m \in Own : m.id = p.id /\ (delivered[m.n] > 0 <=> p.n = 0)
  BY <1>1 DEF Fits, ToClientFits
<1>3. p.n \in {0, 1}
  BY <1>1 DEF Fits, ToClientFits
<1>4. Known(p.id) = {m.n}
  BY <1>1, <1>2, OwnUnique
<1>5. IF p.n = 0 THEN completed' = completed \union {m.n} /\ UNCHANGED refused
                 ELSE refused' = refused \union {m.n} /\ UNCHANGED completed
  BY <1>4 DEF EndPublish, Report
<1>6. m_messages' = EraseMessage(m_messages, p.id) /\ m_packetIdPool' = ReleaseId(m_packetIdPool, p.id)
  BY DEF EndPublish, RemoveMessage
<1>7. Tidy(m_messages') /\ KeptOf(m_messages') = {k \in KeptOf(m_messages) : k.id # p.id}
  BY <1>1, <1>6, EraseKept
<1>8. Kept' = {k \in Kept : k.id # p.id}
  BY <1>7 DEF Kept
<1>9. \A k \in Foreign : k.id # p.id
  BY <1>1, <1>2, IdsApart DEF Matched
<1>10. \A k \in Own : k.id = p.id => k = m
  BY <1>1, <1>2, OwnUnique
<1>11. Foreign' = Foreign /\ Own' = Own \ {m}
  BY <1>2, <1>8, <1>9, <1>10 DEF Foreign, Own
<1>12. /\ m_packetIdPool'.m_nextId = m_packetIdPool.m_nextId
       /\ UsedIds(m_packetIdPool') = UsedIds(m_packetIdPool) \ {p.id}
  BY <1>1, <1>6, PoolRelease
<1>13. m_receiveMaximumTracker' = IncrementSendAllowance(m_receiveMaximumTracker, p.id)
       /\ UNCHANGED m_sendQueue
  BY DEF EndPublish
<1>14. /\ Held' = Held
       /\ m_receiveMaximumTracker'.m_receiveAllowance = m_receiveMaximumTracker.m_receiveAllowance
       /\ m_receiveMaximumTracker'.m_maxReceiveAllowance
             = m_receiveMaximumTracker.m_maxReceiveAllowance
  BY <1>1, <1>13, SendSideOnly DEF Held
<1> QED
  BY <1>2, <1>3, <1>5, <1>7, <1>8, <1>11, <1>12, <1>13, <1>14

LEMMA InvEndPublish ==
    ASSUME ApartIds, SessionInv, Typed', connected, toClient # <<>>, tick = "receive",
           NEW p, p = Head(toClient),
           p.type \in {"PUBACK", "PUBCOMP"} \/ (p.type = "PUBREC" /\ p.n = 1),
           EndPublish(p), TakePacket,
           UNCHANGED <<connected, delayed, tick, broker, published, ids, delivered,
                       incomingVars, lossVars>>
    PROVE  SessionInv'
<1>1. /\ Typed /\ OnePacketEach /\ Pooled /\ Listed /\ Places
      /\ Owned /\ Matched /\ Balanced /\ Fits
  BY DEF SessionInv, Live
<1>2. p \in Packets
  <2>1. p \in FromBroker
    BY <1>1, HeadsTyped
  <2> QED
    BY <2>1 DEF FromBroker
<1>3. UNCHANGED <<sent, received, settled, cutOff, losses, toBroker>> /\ toClient' = Tail(toClient)
  BY DEF incomingVars, lossVars, TakePacket
<1>4. UNCHANGED m_sendQueue
  BY DEF EndPublish
<1>5. /\ OnePacketEach' /\ p \in Arriving
      /\ Waiting' = Waiting /\ Leaving' = Leaving /\ Arriving' = Arriving \ {p}
  BY <1>1, <1>3, <1>4, ReceiveMoves
<1>6. PICK m \in Own :
              /\ m.id = p.id /\ p.n \in {0, 1} /\ (delivered[m.n] > 0 <=> p.n = 0)
              /\ IF p.n = 0 THEN completed' = completed \union {m.n} /\ UNCHANGED refused
                            ELSE refused' = refused \union {m.n} /\ UNCHANGED completed
              /\ Tidy(m_messages') /\ Kept' = {k \in Kept : k.id # p.id}
              /\ Foreign' = Foreign /\ Own' = Own \ {m}
              /\ m_packetIdPool'.m_nextId = m_packetIdPool.m_nextId
              /\ UsedIds(m_packetIdPool') = UsedIds(m_packetIdPool) \ {p.id}
              /\ Held' = Held
              /\ m_receiveMaximumTracker'.m_receiveAllowance = m_receiveMaximumTracker.m_receiveAllowance
              /\ m_receiveMaximumTracker'.m_maxReceiveAllowance
                    = m_receiveMaximumTracker.m_maxReceiveAllowance
              /\ UNCHANGED m_sendQueue
  BY <1>2, <1>5, EndChanges
<1>7. completed' \union refused' = completed \union refused \union {m.n}
  BY <1>6
<1>8. p.id # 0
  BY <1>1, <1>6, IdsApart
<1>9. /\ Promised' = Promised
      /\ \A k \in Own : k \in Own' \/ k.id = p.id
      /\ \A k \in Own' : k \in Own /\ k.id # p.id /\ k.n # m.n
  BY <1>1, <1>6, OwnUnique DEF Promised
<1>10. /\ \A q \in Waiting' \union Leaving' : q.id # p.id
       /\ \A q \in Arriving' : q \in Arriving /\ q.id # p.id
  BY <1>1, <1>5, <1>8, OnlyPacket
<1>11. Pooled'
  <2>1. published[m.n] # 0
    BY <1>1 DEF Owned
  <2> QED
    BY <1>1, <1>3, <1>6, <1>7, <2>1 DEF Pooled
<1>12. Listed' /\ Owned'
  <2>1. Listed'
    BY <1>1, <1>3, <1>6, <1>9 DEF Listed
  <2>2. Owned'
    BY <1>1, <1>6, <1>7, <1>9 DEF Owned
  <2> QED
    BY <2>1, <2>2
<1>13. Places'
  <2>1. losses = 0 => connected /\ UsedIds(m_packetIdPool') \subseteq {k.id : k \in Own'}
    BY <1>1, <1>6, <1>9 DEF Places
  <2> QED
    BY <1>1, <1>3, <2>1 DEF Places
<1>14. Matched'
  <2>1. p.id \notin broker.received
    <3>1. ToClientFits(p)
      BY <1>1, <1>5 DEF Fits
    <3> QED
      BY <3>1 DEF ToClientFits
  <2>2. broker'.received \subseteq {k.id : k \in Own'}
    BY <1>1, <1>9, <2>1 DEF Matched
  <2>3. \A k \in Kept' : \E q \in Waiting' \union Leaving' \union Arriving' : q.id = k.id
    BY <1>1, <1>5, <1>6 DEF Matched
  <2>4. \A k \in Foreign' : \E o \in Promised' : o.id = k.id
    BY <1>1, <1>6, <1>9 DEF Matched
  <2> QED
    BY <2>2, <2>3, <2>4 DEF Matched
<1>15. Balanced'
  BY <1>1, <1>6, <1>9 DEF Balanced
<1>16. ASSUME NEW q \in Waiting' \union Leaving' PROVE ToBrokerFits(q)'
  <2>1. ToBrokerFits(q) /\ q.id # p.id /\ q \in Waiting \union Leaving
    BY <1>1, <1>5, <1>10 DEF Fits
  <2>2. q.type = "PUBLISH" /\ q.qos > 0 => \E k \in Own' : k.n = q.n
    <3>1. SUFFICES ASSUME q.type = "PUBLISH", q.qos > 0 PROVE \E k \in Own' : k.n = q.n
      OBVIOUS
    <3>2. PICK k \in Own : k.n = q.n
      BY <2>1, <3>1 DEF ToBrokerFits
    <3>3. k.id = q.id
      BY <1>1, <2>1, <3>1, <3>2 DEF ToBrokerFits, Owned
    <3> QED
      BY <1>9, <2>1, <3>2, <3>3
  <2>3. q.type = "PUBREL" => \E k \in Own' : k.id = q.id /\ delivered[k.n] > 0
    BY <1>9, <2>1 DEF ToBrokerFits
  <2>4. q.type = "PUBLISH" => ToBrokerFits(q)'
    BY <2>1, <2>2 DEF ToBrokerFits
  <2>5. q.type = "PUBREL" => ToBrokerFits(q)'
    BY <2>1, <2>3 DEF ToBrokerFits
  <2>6. q.type \notin {"PUBLISH", "PUBREL"} => ToBrokerFits(q)'
    BY <1>3, <1>6, <1>9, <2>1 DEF ToBrokerFits
  <2> QED
    BY <2>4, <2>5, <2>6
<1>17. ASSUME NEW q \in Arriving' PROVE ToClientFits(q)'
  <2>1. ToClientFits(q) /\ q.id # p.id
    BY <1>1, <1>10 DEF Fits
  <2>2. q.type \in {"PUBACK", "PUBREC", "PUBCOMP"} =>
           \E k \in Own' : k.id = q.id /\ (delivered[k.n] > 0 <=> q.n = 0)
    BY <1>9, <2>1 DEF ToClientFits
  <2>3. q.type \in {"PUBACK", "PUBREC", "PUBCOMP"} => ToClientFits(q)'
    BY <2>1, <2>2 DEF ToClientFits
  <2>4. q.type \notin {"PUBACK", "PUBREC", "PUBCOMP"} => ToClientFits(q)'
    BY <1>3, <1>6, <1>9, <2>1 DEF ToClientFits
  <2> QED
    BY <2>3, <2>4
<1>18. Fits'
  <2>1. \A q \in Leaving' : q.type \in {"PUBACK", "PUBCOMP"} =>
           q.id \notin Held' /\ \A k \in Kept' : k.id # q.id
    BY <1>1, <1>5, <1>6 DEF Fits
  <2> QED
    BY <1>16, <1>17, <2>1 DEF Fits
<1> QED
  BY <1>5, <1>11, <1>12, <1>13, <1>14, <1>15, <1>18 DEF SessionInv, Live

\* A packet of the broker is answered, and the session stays the same.
LEMMA InvReply ==
    ASSUME ApartIds, SessionInv, Typed', connected, toClient # <<>>, tick = "receive",
           NEW p, p = Head(toClient), p.type \in {"PUBREC", "PUBREL"},
           NEW a \in Packets, a.id = p.id, a.type \in {"PUBREL", "PUBCOMP"},
           m_sendQueue' = Append(m_sendQueue, a), TakePacket,
           Tidy(m_messages'), Kept' = Kept, ToBrokerFits(a),
           UNCHANGED <<m_packetIdPool, m_receiveMaximumTracker, connected, delayed, tick, broker,
                       outgoingVars, incomingVars, lossVars>>
    PROVE  SessionInv'
<1>1. /\ Typed /\ OnePacketEach /\ Pooled /\ Listed /\ Places
      /\ Owned /\ Matched /\ Balanced /\ Fits
  BY DEF SessionInv, Live
<1>2. /\ UNCHANGED <<published, ids, delivered, completed, refused, sent, received, settled,
                     cutOff, losses, toBroker>>
      /\ toClient' = Tail(toClient)
  BY DEF outgoingVars, incomingVars, lossVars, TakePacket
<1>3. p \in Arriving
  BY <1>1, HeadTyped DEF Arriving, Typed
<1>4. p.id # 0
  BY <1>1, <1>3, PacketIds
<1>5. /\ OnePacketEach' /\ Waiting' = Waiting \union {a}
      /\ Leaving' = Leaving /\ Arriving' = Arriving \ {p}
  BY <1>1, <1>2, <1>4, ReplyMoves
<1>6. Own' = Own /\ Foreign' = Foreign /\ Promised' = Promised /\ Held' = Held
  BY DEF Own, Foreign, Promised, Held
<1>7. Pooled' /\ Listed' /\ Owned' /\ Balanced'
  <2>1. Pooled'
    BY <1>1, <1>2 DEF Pooled
  <2>2. Listed'
    BY <1>1, <1>2, <1>6 DEF Listed
  <2>3. Owned'
    BY <1>1, <1>2, <1>6 DEF Owned
  <2>4. Balanced'
    BY <1>1, <1>6 DEF Balanced
  <2> QED
    BY <2>1, <2>2, <2>3, <2>4
<1>8. Places'
  BY <1>1, <1>2, <1>6 DEF Places
<1>9. Matched'
  <2>1. ASSUME NEW m \in Kept PROVE \E q \in Waiting' \union Leaving' \union Arriving' : q.id = m.id
    BY <1>1, <1>5 DEF Matched
  <2> QED
    BY <1>1, <1>6, <2>1 DEF Matched
<1>10. \A q : /\ ToBrokerFits(q) => ToBrokerFits(q)'
              /\ ToClientFits(q) => ToClientFits(q)'
  BY <1>2, <1>6 DEF ToBrokerFits, ToClientFits
<1>11. Fits'
  BY <1>1, <1>5, <1>6, <1>10 DEF Fits
<1> QED
  BY <1>5, <1>7, <1>8, <1>9, <1>11 DEF SessionInv, Live

LEMMA InvReceiveAnswer ==
    ASSUME ApartIds, SessionInv, Typed',
           ReceivePubAck \/ ReceivePubComp \/ ReceivePubRec \/ ReceivePubRel
    PROVE  SessionInv'
<1> DEFINE p == Head(toClient)
<1>1. /\ Typed /\ Listed /\ Fits /\ connected /\ toClient # <<>> /\ tick = "receive"
      /\ TakePacket
      /\ UNCHANGED <<connected, delayed, broker, published, ids, delivered, incomingVars, lossVars>>
      /\ m_messages \in Seq(Messages) /\ Tidy(m_messages) /\ RetryInterval > 0
  BY DEF SessionInv, Live, ReceivePubAck, ReceivePubComp, ReceivePubRec, ReceivePubRel, Receives,
         outgoingVars, Typed, Listed, ApartIds
<1>2. p \in Arriving /\ ToClientFits(p)
  <2>1. p \in Arriving
    BY <1>1, HeadTyped DEF Arriving, Typed
  <2> QED
    BY <1>1, <2>1 DEF Fits
<1>3. p.id \in Nat
  <2>1. p \in FromBroker
    BY <1>1, HeadsTyped
  <2> QED
    BY <2>1 DEF FromBroker, Packets
<1>4. CASE ReceivePubAck \/ ReceivePubComp
  <2>1. EndPublish(p) /\ UNCHANGED tick /\ p.type \in {"PUBACK", "PUBCOMP"}
    BY <1>4 DEF ReceivePubAck, ReceivePubComp, Receives
  <2> HIDE DEF p
  <2> QED
    BY <1>1, <2>1, InvEndPublish DEF p
<1>5. CASE ReceivePubRec
  <2>1. p.type = "PUBREC" /\ UNCHANGED tick
    BY <1>5 DEF ReceivePubRec, Receives
  <2>2. CASE p.n = 1
    <3>1. EndPublish(p)
      BY <1>5, <2>2 DEF ReceivePubRec
    <3> HIDE DEF p
    <3> QED
      BY <1>1, <2>1, <2>2, <3>1, InvEndPublish DEF p
  <2>3. CASE p.n # 1
    <3>1. /\ m_sendQueue' = Append(m_sendQueue, Answer("PUBREL", p.id))
          /\ UNCHANGED <<m_packetIdPool, m_messages, m_receiveMaximumTracker, completed, refused>>
      BY <1>5, <2>3 DEF ReceivePubRec, AddToQueue
    <3> HIDE DEF p
    <3>2. PICK a : a = Answer("PUBREL", p.id)
      OBVIOUS
    <3>3. a \in Packets /\ a.id = p.id /\ a.type = "PUBREL"
      BY <1>3, <3>2, AnswerTyped
    <3>4. \E m \in Own : m.id = a.id /\ delivered[m.n] > 0
      BY <1>2, <2>1, <2>3, <3>3 DEF ToClientFits
    <3>5. ToBrokerFits(a)
      BY <3>3, <3>4 DEF ToBrokerFits
    <3>6. Tidy(m_messages') /\ Kept' = Kept
      BY <1>1, <3>1 DEF Kept
    <3>7. UNCHANGED outgoingVars
      BY <1>1, <3>1 DEF outgoingVars
    <3>8. m_sendQueue' = Append(m_sendQueue, a)
      BY <3>1, <3>2
    <3> QED
      BY <1>1, <2>1, <3>1, <3>3, <3>5, <3>6, <3>7, <3>8, InvReply DEF p
  <2> QED
    BY <2>2, <2>3
<1>6. CASE ReceivePubRel
  <2>1. p.type = "PUBREL"
        /\ UpdateMessage(p.id, "NeedToSendPubComp")
        /\ m_sendQueue' = Append(m_sendQueue, Answer("PUBCOMP", p.id))
        /\ UNCHANGED <<m_packetIdPool, m_receiveMaximumTracker, outgoingVars>>
    BY <1>6 DEF ReceivePubRel, Receives, AddToQueue
  <2> HIDE DEF p
  <2>2. /\ \E m \in Foreign : m.id = p.id
        /\ \E o \in Promised : o.id = p.id /\ received[o.n] > 0
    BY <1>2, <2>1 DEF ToClientFits
  <2>3. InSession(m_messages, p.id)
    BY <1>1, <2>2, KeptTyped DEF Foreign
  <2>4. UNCHANGED tick /\ Tidy(m_messages') /\ KeptOf(m_messages') = KeptOf(m_messages)
    BY <1>1, <2>1, <2>3, UpdateTyped DEF Statuses
  <2>5. PICK a : a = Answer("PUBCOMP", p.id)
    OBVIOUS
  <2>6. a \in Packets /\ a.id = p.id /\ a.type = "PUBCOMP"
    BY <1>3, <2>5, AnswerTyped
  <2>7. ToBrokerFits(a)
    BY <2>2, <2>6 DEF ToBrokerFits
  <2>8. Kept' = Kept
    BY <2>4 DEF Kept
  <2>9. m_sendQueue' = Append(m_sendQueue, a)
    BY <2>1, <2>5
  <2> QED
    BY <1>1, <2>1, <2>4, <2>6, <2>7, <2>8, <2>9, InvReply DEF p
<1> QED
  BY <1>4, <1>5, <1>6

\* The client publishes.
LEMMA InvPublish ==
    ASSUME ApartIds, SessionInv, Typed', NEW qos \in PublishQos, Publish(qos)
    PROVE  SessionInv'
<1> DEFINE n == Len(published) + 1
           id == IF qos = 0 THEN 0 ELSE NextId(m_packetIdPool)
           a == Packet("PUBLISH", id, n, qos)
<1>1. /\ Typed /\ OnePacketEach /\ Pooled /\ Listed /\ Places /\ connected
      /\ Owned /\ Matched /\ Balanced /\ Fits
      /\ m_packetIdPool \in Pool /\ m_messages \in Seq(Messages) /\ Tidy(m_messages)
  BY DEF SessionInv, Live, Publish, Typed, Listed
<1>2. /\ qos \in 0 .. 2 /\ n \in Nat \ {0} /\ n <= MaxPublishes /\ MaxPublishes \in Nat
      /\ Len(published) \in Nat /\ DOMAIN published = 1 .. Len(published)
      /\ DOMAIN ids = DOMAIN published /\ Len(ids) = Len(published)
      /\ ids \in Seq(Nat) /\ published \in Seq(0 .. 2)
  <2>1. qos \in 0 .. 2 /\ MaxPublishes \in Nat
    BY SessionAssumption
  <2>2. /\ Len(published) \in Nat /\ DOMAIN published = 1 .. Len(published)
        /\ DOMAIN ids = 1 .. Len(ids) /\ Len(ids) = Len(published)
        /\ ids \in Seq(Nat) /\ published \in Seq(0 .. 2)
    BY <1>1, LenProperties DEF Typed
  <2>3. Len(published) < MaxPublishes
    BY DEF Publish
  <2> QED
    BY <2>1, <2>2, <2>3
<1>3. /\ NextId(m_packetIdPool) \in 1 .. m_packetIdPool.m_nextId
      /\ NextId(m_packetIdPool) \notin UsedIds(m_packetIdPool)
      /\ AfterGetId(m_packetIdPool).m_nextId \in {m_packetIdPool.m_nextId, m_packetIdPool.m_nextId + 1}
      /\ UsedIds(AfterGetId(m_packetIdPool))
            = UsedIds(m_packetIdPool) \union {NextId(m_packetIdPool)}
      /\ m_packetIdPool.m_nextId \in Nat /\ m_packetIdPool.m_nextId <= n
  BY <1>1, PoolGet DEF Pooled, Pool
<1>4. /\ id \in Nat /\ (id = 0 <=> qos = 0)
      /\ qos > 0 => id \in 1 .. MaxPublishes /\ id \notin UsedIds(m_packetIdPool)
  BY <1>2, <1>3
<1>5. /\ published' = Append(published, qos) /\ ids' = Append(ids, id)
      /\ m_sendQueue' = Append(m_sendQueue, a)
      /\ qos = 0 => UNCHANGED <<m_packetIdPool, m_messages>>
      /\ qos > 0 => /\ m_packetIdPool' = AfterGetId(m_packetIdPool)
                    /\ m_messages' = PushMessage(m_messages, NewMessage(id, n, qos, RetryInterval))
      /\ UNCHANGED <<m_receiveMaximumTracker, connected, delayed, tick, toBroker, toClient, broker,
                     delivered, completed, refused, sent, received, settled, cutOff, losses>>
  BY <1>2 DEF Publish, TakeId, AddToQueue, wireVars, incomingVars, lossVars
<1>6. a \in Packets /\ a.id = id /\ a.n = n /\ a.qos = qos /\ a.type = "PUBLISH"
  BY <1>2, <1>4 DEF Packet, Packets
<1> HIDE DEF a, id, n
<1>7. DOMAIN published' = 1 .. n /\ published'[n] = qos /\ ids'[n] = id /\ DOMAIN ids' = 1 .. n
      /\ \A k \in DOMAIN published : k \in DOMAIN published' /\ k # n /\ k < n
                                     /\ published'[k] = published[k] /\ ids'[k] = ids[k]
  <2>1. /\ Len(published') = n /\ published' \in Seq(0 .. 2) /\ published'[n] = qos
        /\ \A k \in 1 .. Len(published) : published'[k] = published[k]
    BY <1>2, <1>5, AppendProperties DEF n
  <2>2. /\ Len(ids') = n /\ ids' \in Seq(Nat) /\ ids'[n] = id
        /\ \A k \in 1 .. Len(ids) : ids'[k] = ids[k]
    BY <1>2, <1>4, <1>5, AppendProperties DEF n
  <2>3. DOMAIN published' = 1 .. n /\ DOMAIN ids' = 1 .. n
    BY <2>1, <2>2, LenProperties
  <2>4. \A k \in 1 .. Len(published) : k \in 1 .. n /\ k # n /\ k < n
    BY <1>2 DEF n
  <2> QED
    BY <1>2, <2>1, <2>2, <2>3, <2>4
<1>8. qos > 0 => /\ \A m \in Kept : m.id # id
                 /\ \A m \in Own : m.id # id
                 /\ \A o \in Promised : o.id # id
  <2>1. qos > 0 => id \notin BrokerIds
    BY <1>4 DEF ApartIds
  <2>2. qos > 0 => \A m \in Own : m.id # id
    BY <1>1, <1>4 DEF Owned
  <2>3. qos > 0 => \A o \in Promised : o.id # id
    BY <1>1, <2>1 DEF Listed
  <2>4. qos > 0 => \A m \in Foreign : m.id # id
    BY <1>1, <2>3 DEF Matched
  <2> QED
    BY <2>2, <2>3, <2>4 DEF Own, Foreign
<1>9. qos > 0 => \A q \in Waiting \union Leaving \union Arriving : q.id # id
  BY <1>1, <1>4, <1>8, PacketIds
<1>10. /\ OnePacketEach' /\ Waiting' = Waiting \union {a}
       /\ Leaving' = Leaving /\ Arriving' = Arriving
  <2>1. \A q \in Arriving : a.id = q.id => a.id = 0
    BY <1>2, <1>4, <1>6, <1>9
  <2>2. ASSUME NEW q \in Waiting \union Leaving PROVE ~Clash(a, q)
    <3>1. CASE qos > 0
      BY <1>6, <1>9, <3>1 DEF Clash
    <3>2. CASE qos = 0
      <4>1. q.id = 0 => q.n \in DOMAIN published
        BY <1>1, PacketIds
      <4>2. q.id = 0 => q.n # n
        BY <1>7, <4>1
      <4> QED
        BY <1>4, <1>6, <3>2, <4>2 DEF Clash
    <3> QED
      BY <1>2, <3>1, <3>2
  <2> QED
    BY <1>1, <1>5, <1>6, <2>1, <2>2, QueueMoves
<1>11. /\ Tidy(m_messages')
       /\ Kept' = IF qos > 0 THEN Kept \union {[id |-> id, n |-> n]} ELSE Kept
  <2>1. CASE qos = 0
    BY <1>1, <1>5, <2>1 DEF Kept
  <2>2. CASE qos > 0
    <3> DEFINE new == NewMessage(id, n, qos, RetryInterval)
    <3>1. /\ RetryInterval \in 0 .. RetryInterval /\ n \in 0 .. MaxPublishes
          /\ id \in Nat \ {0} /\ RetryInterval > 0
      BY <1>2, <1>4, <2>2, SessionAssumption DEF ApartIds
    <3>2. new \in Messages /\ new.id = id /\ new.n = n /\ new.mapped /\ new.retryIn > 0
      BY <1>2, <3>1 DEF NewMessage, Messages
    <3>3. \A k \in KeptOf(m_messages) : k.id # id
      BY <1>8, <2>2 DEF Kept
    <3>4. m_messages' = PushMessage(m_messages, new)
      BY <1>5, <2>2
    <3> HIDE DEF new
    <3> QED
      BY <1>1, <2>2, <3>2, <3>3, <3>4, PushKept DEF Kept
  <2> QED
    BY <1>2, <2>1, <2>2
<1>12. /\ Foreign' = Foreign /\ Promised' = Promised /\ Held' = Held /\ Own \subseteq Own'
       /\ Kept \subseteq Kept'
       /\ \A m \in Own' : m \in Own \/ (qos > 0 /\ m.id = id /\ m.n = n)
       /\ \A m \in Kept' : m \in Kept \/ (qos > 0 /\ m.id = id)
       /\ qos > 0 => \E m \in Own' : m.id = id /\ m.n = n
  <2>1. [id |-> id, n |-> n].id = id /\ [id |-> id, n |-> n].n = n /\ n # 0
    BY <1>2
  <2>2. Promised' = Promised /\ Held' = Held
    BY <1>5 DEF Promised, Held
  <2> QED
    BY <1>11, <2>1, <2>2 DEF Own, Foreign
<1>13. /\ UsedIds(m_packetIdPool') = UsedIds(m_packetIdPool) \union (IF qos > 0 THEN {id} ELSE {})
       /\ m_packetIdPool'.m_nextId <= n + 1
  <2>1. CASE qos > 0
    <3>1. id = NextId(m_packetIdPool)
      BY <2>1 DEF id
    <3> QED
      BY <1>2, <1>3, <1>5, <2>1, <3>1
  <2>2. CASE qos = 0
    BY <1>2, <1>3, <1>5, <2>2
  <2> QED
    BY <1>2, <2>1, <2>2
<1>14. Len(published') = n
  BY <1>2, <1>5, AppendProperties DEF n
<1>15. Pooled'
  <2>1. \A k \in DOMAIN ids' : ids'[k] = 0 <=> published'[k] = 0
    <3> SUFFICES ASSUME NEW k \in 1 .. n PROVE ids'[k] = 0 <=> published'[k] = 0
      BY <1>7
    <3>1. k = n \/ k \in DOMAIN published
      BY <1>2 DEF n
    <3> QED
      BY <1>1, <1>2, <1>4, <1>7, <3>1 DEF Pooled
  <2>2. \A k \in completed' \union refused' : published'[k] # 0
    <3>1. completed \union refused \subseteq DOMAIN published
      BY <1>1 DEF Typed
    <3> QED
      BY <1>1, <1>5, <1>7, <3>1 DEF Pooled
  <2>3. \A k \in 1 .. MaxPublishes : k > Len(published') => delivered'[k] = 0
    <3>1. \A k \in 1 .. MaxPublishes : k > n => k > Len(published)
      BY <1>2 DEF n
    <3> QED
      BY <1>1, <1>5, <1>14, <3>1 DEF Pooled
  <2>4. /\ m_packetIdPool'.m_nextId <= Len(published') + 1
        /\ \A k \in 1 .. MaxIncoming : k > Len(sent') => received'[k] = 0
        /\ settled' \subseteq DOMAIN sent'
    BY <1>1, <1>5, <1>13, <1>14 DEF Pooled
  <2> QED
    BY <2>1, <2>2, <2>3, <2>4 DEF Pooled
<1>16. Listed'
  BY <1>1, <1>5, <1>11, <1>12 DEF Listed
<1>17. Places'
  <2>1. losses = 0 => connected /\ UsedIds(m_packetIdPool') \subseteq {m.id : m \in Own'}
    BY <1>1, <1>2, <1>12, <1>13 DEF Places
  <2> QED
    BY <1>1, <1>5, <2>1 DEF Places, Publish
<1>18. Owned'
  <2> SUFFICES ASSUME NEW m \in Own'
               PROVE  /\ m.n \in DOMAIN published' /\ published'[m.n] # 0 /\ m.id = ids'[m.n]
                      /\ m.id \in UsedIds(m_packetIdPool')
                      /\ m.n \notin completed' \union refused'
                      /\ \A k \in DOMAIN ids' : k > m.n => ids'[k] # m.id
    BY DEF Owned
  <2>1. CASE m \in Own
    <3>1. /\ m.n \in DOMAIN published /\ published[m.n] # 0 /\ m.id = ids[m.n]
          /\ m.id \in UsedIds(m_packetIdPool)
          /\ m.n \notin completed \union refused
          /\ \A k \in DOMAIN ids : k > m.n => ids[k] # m.id
      BY <1>1, <2>1 DEF Owned
    <3>2. m.id # 0
      BY <1>1, <2>1, IdsApart
    <3>3. m.id # id
      BY <1>2, <1>4, <1>8, <2>1, <3>2
    <3>4. \A k \in DOMAIN ids' : k = n \/ k \in DOMAIN ids
      BY <1>2, <1>7 DEF n
    <3>5. \A k \in DOMAIN ids' : k > m.n => ids'[k] # m.id
      BY <1>2, <1>7, <3>1, <3>3, <3>4
    <3> QED
      BY <1>5, <1>7, <1>13, <3>1, <3>5
  <2>2. CASE qos > 0 /\ m.id = id /\ m.n = n
    <3>1. n \notin completed \union refused
      <4>1. completed \union refused \subseteq DOMAIN published
        BY <1>1 DEF Typed
      <4> QED
        BY <1>7, <4>1
    <3>2. n \in DOMAIN published' /\ \A k \in DOMAIN ids' : ~(k > n)
      BY <1>2, <1>7
    <3> QED
      BY <1>2, <1>5, <1>7, <1>13, <2>2, <3>1, <3>2
  <2> QED
    BY <1>12, <2>1, <2>2
<1>19. Matched'
  <2>1. \A m \in Kept' : \E q \in Waiting' \union Leaving' \union Arriving' : q.id = m.id
    BY <1>1, <1>6, <1>10, <1>12 DEF Matched
  <2> QED
    BY <1>1, <1>5, <1>12, <2>1 DEF Matched
<1>20. Balanced'
  BY <1>1, <1>5, <1>12 DEF Balanced
<1>21. ASSUME NEW q \in Waiting' \union Leaving' PROVE ToBrokerFits(q)'
  <2>1. CASE q \in Waiting \union Leaving
    <3>1. ToBrokerFits(q)
      BY <1>1, <2>1 DEF Fits
    <3>2. q.type = "PUBLISH" => ToBrokerFits(q)'
      BY <1>5, <1>7, <1>12, <3>1 DEF ToBrokerFits
    <3>3. q.type = "PUBREL" => ToBrokerFits(q)'
      BY <1>5, <1>12, <3>1 DEF ToBrokerFits
    <3>4. q.type = "PUBACK" => \A m \in Kept' : m.id # q.id
      <4>1. q.type = "PUBACK" /\ qos > 0 => q.id # id
        BY <1>9, <2>1
      <4> QED
        BY <1>12, <3>1, <4>1 DEF ToBrokerFits
    <3>5. q.type \notin {"PUBLISH", "PUBREL"} => ToBrokerFits(q)'
      BY <1>5, <1>12, <3>1, <3>4 DEF ToBrokerFits
    <3> QED
      BY <3>2, <3>3, <3>5
  <2>2. CASE q = a
    <3>1. n \in DOMAIN published'
      BY <1>2, <1>7
    <3>2. delivered[n] = 0
      <4>1. n \in 1 .. MaxPublishes /\ n > Len(published)
        BY <1>2 DEF n
      <4> QED
        BY <1>1, <4>1 DEF Pooled
    <3>3. qos > 0 => id \notin broker.received
      BY <1>1, <1>8 DEF Matched
    <3> QED
      BY <1>5, <1>6, <1>7, <1>12, <2>2, <3>1, <3>2, <3>3 DEF ToBrokerFits
  <2> QED
    BY <1>10, <2>1, <2>2
<1>22. ASSUME NEW q \in Arriving' PROVE ToClientFits(q)'
  <2>1. ToClientFits(q) /\ q \in Arriving
    BY <1>1, <1>10 DEF Fits
  <2>2. qos > 0 => q.id # id
    BY <1>9, <2>1
  <2>3. (\A m \in Kept : m.id # q.id) => \A m \in Kept' : m.id # q.id
    BY <1>12, <2>2
  <2>4. q.type = "PUBLISH" => ToClientFits(q)'
    BY <1>5, <1>12, <2>1, <2>3 DEF ToClientFits
  <2>5. q.type # "PUBLISH" => ToClientFits(q)'
    BY <1>5, <1>12, <2>1 DEF ToClientFits
  <2> QED
    BY <2>4, <2>5
<1>23. Fits'
  <2>1. ASSUME NEW q \in Leaving', q.type \in {"PUBACK", "PUBCOMP"}
        PROVE  q.id \notin Held' /\ \A m \in Kept' : m.id # q.id
    <3>1. q \in Leaving /\ (qos > 0 => q.id # id)
      BY <1>9, <1>10, <2>1
    <3> QED
      BY <1>1, <1>12, <2>1, <3>1 DEF Fits
  <2> QED
    BY <1>21, <1>22, <2>1 DEF Fits
<1> QED
  BY <1>10, <1>15, <1>16, <1>17, <1>18, <1>19, <1>20, <1>23 DEF SessionInv, Live

\* A lost connection, and a new one to a broker without the session.
LEMMA InvConnectionLost ==
    ASSUME SessionInv, Typed', ConnectionLost
    PROVE  SessionInv'
<1>1. /\ Typed /\ Pooled /\ Listed /\ Places
      /\ connected /\ tick # "send" /\ LoseConnection
      /\ UNCHANGED <<m_messages, m_receiveMaximumTracker, broker, outgoingVars,
                     incomingVars, cutOff>>
  BY DEF SessionInv, ConnectionLost
<1>2. /\ connected' = FALSE /\ tick' = "idle"
      /\ m_packetIdPool' = AfterCancel(m_packetIdPool, m_sendQueue)
      /\ m_sendQueue' = <<>> /\ toBroker' = <<>> /\ toClient' = <<>> /\ delayed' = <<>>
      /\ losses' = losses + 1 /\ losses \in Nat
  BY <1>1 DEF LoseConnection, Places, Typed
<1>3. OnePacketEach'
  BY <1>2, NothingOnTheWay
<1>4. m_packetIdPool'.m_nextId = m_packetIdPool.m_nextId
  BY <1>1, <1>2, PoolCancel DEF Typed
<1>5. Pooled'
  BY <1>1, <1>4 DEF Pooled, outgoingVars, incomingVars
<1>6. Listed'
  BY <1>1 DEF Listed, Promised, incomingVars
<1>7. losses' # 0
  BY <1>2
<1>8. Places'
  BY <1>1, <1>2, <1>7 DEF Places
<1> QED
  BY <1>2, <1>3, <1>5, <1>6, <1>8 DEF SessionInv

LEMMA InvConnected ==
    ASSUME SessionInv, Typed', Connected(FALSE)
    PROVE  SessionInv'
<1>1. /\ Typed /\ Pooled /\ Listed /\ Places /\ ~connected
      /\ m_sendQueue = <<>> /\ delayed = <<>> /\ toBroker = <<>>
  BY DEF SessionInv, Connected, Places
<1>2. /\ connected' = TRUE /\ tick' = "receive" /\ m_messages' = <<>> /\ toClient' = <<>>
      /\ m_receiveMaximumTracker' = NewTracker(ReceiveMaximum, ReceiveMaximum)
      /\ broker' = NewBroker
      /\ UNCHANGED <<m_packetIdPool, m_sendQueue, delayed, toBroker, published, ids, delivered,
                     completed, refused, sent, received, settled, cutOff, losses>>
  BY DEF Connected, MessagesAfterConnect, queueVars, outgoingVars, incomingVars, lossVars
<1>3. OnePacketEach' /\ Waiting' = {} /\ Leaving' = {} /\ Arriving' = {}
  BY <1>1, <1>2, NothingOnTheWay
<1>4. Kept' = {} /\ Own' = {} /\ Foreign' = {}
  BY <1>2 DEF Kept, KeptOf, Own, Foreign
<1>5. broker'.received = {} /\ broker'.outbound = {} /\ Promised' = {}
  BY <1>2 DEF NewBroker, Promised
<1>6. /\ Held' = {} /\ m_receiveMaximumTracker'.m_receiveAllowance = ReceiveMaximum
      /\ m_receiveMaximumTracker'.m_maxReceiveAllowance = ReceiveMaximum
      /\ ReceiveMaximum \in Nat
  BY <1>2, SessionAssumption DEF NewTracker, Held
<1>7. Pooled'
  BY <1>1, <1>2 DEF Pooled
<1>8. Listed'
  BY <1>2, <1>5 DEF Listed, Tidy
<1>9. Places'
  BY <1>1, <1>2 DEF Places
<1>10. Owned' /\ Matched' /\ Fits'
  BY <1>3, <1>4, <1>5 DEF Owned, Matched, Fits
<1>11. Balanced'
  <2>1. IsFiniteSet({}) /\ Cardinality({}) = 0
    BY FS_EmptySet
  <2> QED
    BY <1>5, <1>6, <2>1 DEF Balanced
<1> QED
  BY <1>3, <1>7, <1>8, <1>9, <1>10, <1>11 DEF SessionInv, Live

\* The broker answers the client, having delivered what it accepts.
LEMMA InvBrokerAccepts ==
    ASSUME ApartIds, SessionInv, Typed', BrokerAccepts
    PROVE  SessionInv' /\ Head(toBroker) \in Leaving /\ Head(toBroker).type = "PUBLISH"
           /\ UNCHANGED <<published, completed, refused>> /\ BrokerDelivers(Head(toBroker).n)
<1> DEFINE p == Head(toBroker)
           a == Answer(IF p.qos = 1 THEN "PUBACK" ELSE "PUBREC", p.id)
<1>1. /\ Typed /\ OnePacketEach /\ Pooled /\ Listed /\ Places /\ connected
      /\ Owned /\ Matched /\ Balanced /\ Fits
      /\ toBroker # <<>> /\ p.type = "PUBLISH" /\ toBroker' = Tail(toBroker)
  BY DEF SessionInv, Live, Places, BrokerAccepts, ReachesBroker, BrokerTakes
<1>2. p \in Leaving /\ p.id \in Nat /\ p.qos \in 0 .. 2 /\ ToBrokerFits(p)
  <2>1. p \in Leaving /\ p \in Packets
    BY <1>1, HeadTyped DEF Leaving, Typed
  <2> QED
    BY <1>1, <2>1 DEF Packets, Fits
<1>3. /\ p.n \in DOMAIN published /\ p.qos = published[p.n] /\ p.id = ids[p.n]
      /\ p.qos = 0 <=> p.id = 0
      /\ delivered[p.n] = 0
      /\ p.qos > 0 => p.id \notin broker.received /\ \E m \in Own : m.n = p.n
  BY <1>1, <1>2, PacketIds DEF ToBrokerFits
<1>4. /\ delivered' = [delivered EXCEPT ![p.n] = @ + 1]
      /\ p.qos = 0 => UNCHANGED toClient
      /\ p.qos > 0 => toClient' = Append(toClient, a)
      /\ broker' = IF p.qos = 2 THEN [broker EXCEPT !.received = @ \union {p.id}] ELSE broker
      /\ UNCHANGED <<clientVars, queueVars, tick, published, ids, completed, refused,
                     incomingVars, lossVars>>
  <2>1. ~(p.qos = 2 /\ p.id \in broker.received)
    BY <1>3
  <2>2. /\ BrokerDelivers(p.n)
        /\ broker' = IF p.qos = 2 THEN [broker EXCEPT !.received = @ \union {p.id}] ELSE broker
        /\ UNCHANGED <<clientVars, queueVars, tick, published, ids, completed, refused,
                       incomingVars, lossVars>>
    BY <2>1, Zenon DEF BrokerAccepts
  <2>3. (CASE p.qos = 0 -> UNCHANGED toClient
           [] p.qos = 1 -> BrokerAnswers(Answer("PUBACK", p.id))
           [] p.qos = 2 -> BrokerAnswers(Answer("PUBREC", p.id)))
    BY Zenon DEF BrokerAccepts
  <2> HIDE DEF p
  <2>4. ASSUME p.qos = 0 PROVE UNCHANGED toClient
    BY <2>3, <2>4
  <2>5. ASSUME p.qos = 1 PROVE BrokerAnswers(Answer("PUBACK", p.id))
    BY <2>3, <2>5
  <2>6. ASSUME p.qos = 2 PROVE BrokerAnswers(Answer("PUBREC", p.id))
    BY <2>3, <2>6
  <2>7. p.qos > 0 => toClient' = Append(toClient, a)
    BY <1>2, <2>5, <2>6 DEF BrokerAnswers
  <2> QED
    BY <2>2, <2>4, <2>7 DEF BrokerDelivers
<1>5. /\ a \in FromBroker /\ a.id = p.id /\ a.n = 0
      /\ a.type = IF p.qos = 1 THEN "PUBACK" ELSE "PUBREC"
  BY <1>2, AnswerTyped
<1>6. BrokerDelivers(p.n)
  BY <1>4 DEF BrokerDelivers
<1> HIDE DEF p, a
<1>7. UNCHANGED <<m_packetIdPool, m_messages, m_receiveMaximumTracker, connected, m_sendQueue,
                  delayed, tick, sent, received, settled, cutOff, losses>>
  BY <1>4 DEF clientVars, queueVars, incomingVars, lossVars
<1>8. /\ broker'.outbound = broker.outbound
      /\ p.qos # 2 => broker'.received = broker.received
      /\ p.qos = 2 => broker'.received = broker.received \union {p.id}
  <2>1. broker \in [received : SUBSET Nat, outbound : SUBSET Outbound]
    BY <1>1 DEF Typed
  <2>2. broker.received \union {p.id} \in SUBSET Nat /\ broker.outbound \in SUBSET Outbound
    BY <1>2, <2>1
  <2>3. [broker EXCEPT !.received = broker.received \union {p.id}]
           = [received |-> broker.received \union {p.id}, outbound |-> broker.outbound]
    BY <2>1, <2>2, BrokerTyped
  <2> QED
    BY <1>4, <2>3
<1>9. /\ OnePacketEach' /\ Waiting' = Waiting /\ Leaving' = Leaving \ {p}
      /\ Arriving' = IF p.qos > 0 THEN Arriving \union {a} ELSE Arriving
  <2>1. CASE p.qos = 0
    BY <1>1, <1>4, <1>7, <2>1, SettleMoves DEF p
  <2>2. CASE p.qos > 0
    BY <1>1, <1>3, <1>4, <1>5, <1>7, <2>2, AnswerMoves DEF p
  <2> QED
    BY <1>2, <2>1, <2>2
<1>10. /\ Kept' = Kept /\ Own' = Own /\ Foreign' = Foreign /\ Held' = Held
       /\ Promised' = Promised
  BY <1>7, <1>8 DEF Kept, Own, Foreign, Held, Promised
<1>11. DOMAIN published = 1 .. Len(published) /\ Len(published) \in Nat /\ MaxPublishes \in Nat
       /\ Len(published) <= MaxPublishes /\ DOMAIN ids = DOMAIN published
  <2>1. DOMAIN published = 1 .. Len(published) /\ Len(published) \in Nat /\ DOMAIN ids = 1 .. Len(ids)
    BY <1>1, LenProperties DEF Typed
  <2> QED
    BY <1>1, <2>1, SessionAssumption DEF Typed
<1>12. /\ delivered'[p.n] = 1
       /\ \A n \in DOMAIN published : n # p.n => delivered'[n] = delivered[n]
       /\ \A n \in DOMAIN published : delivered[n] > 0 => delivered'[n] > 0
       /\ \A n \in 1 .. MaxPublishes : n > Len(published) => delivered'[n] = delivered[n]
  <2>1. delivered \in [0 .. MaxPublishes -> Nat] /\ p.n \in 0 .. MaxPublishes /\ p.n <= Len(published)
        /\ DOMAIN published \subseteq 0 .. MaxPublishes
    <3>1. p.n \in 1 .. Len(published)
      BY <1>3, <1>11
    <3>2. p.n \in 0 .. MaxPublishes /\ p.n <= Len(published)
          /\ DOMAIN published \subseteq 0 .. MaxPublishes
      BY <1>11, <3>1
    <3> QED
      BY <1>1, <3>2 DEF Typed
  <2>2. \A n \in 0 .. MaxPublishes : delivered'[n] = IF n = p.n THEN delivered[n] + 1 ELSE delivered[n]
    BY <1>4, <2>1
  <2> QED
    BY <1>3, <1>11, <2>1, <2>2
<1>13. /\ \A q \in Waiting' \union Leaving' : q.id # 0 => q.id # p.id
       /\ \A q \in Waiting' \union Leaving' : ~Clash(q, p)
       /\ \A q \in Arriving : q.id = p.id => p.id = 0
       /\ Waiting' \union Leaving' \subseteq Waiting \union Leaving
  <2>1. \A q \in Waiting : q # p
    BY <1>1, <1>2 DEF OnePacketEach, Clash
  <2> QED
    BY <1>1, <1>2, <1>9, <2>1, OnlyPacket
<1>14. Pooled' /\ Listed' /\ Owned' /\ Balanced' /\ Places'
  <2>1. Pooled'
    BY <1>1, <1>4, <1>7, <1>12 DEF Pooled
  <2>2. Listed'
    BY <1>1, <1>7, <1>8, <1>10 DEF Listed
  <2>3. Owned'
    BY <1>1, <1>4, <1>7, <1>10 DEF Owned
  <2>4. Balanced'
    BY <1>1, <1>7, <1>8, <1>10 DEF Balanced
  <2>5. Places'
    BY <1>1, <1>7, <1>10 DEF Places
  <2> QED
    BY <2>1, <2>2, <2>3, <2>4, <2>5
<1>15. p.qos > 0 => \E m \in Own : m.id = p.id /\ m.n = p.n
  BY <1>1, <1>3 DEF Owned
<1>16. Matched'
  <2>1. ASSUME NEW m \in Kept PROVE \E q \in Waiting' \union Leaving' \union Arriving' : q.id = m.id
    <3>1. PICK q \in Waiting \union Leaving \union Arriving : q.id = m.id
      BY <1>1 DEF Matched
    <3>2. m.id # 0
      BY <1>1, KeptTyped DEF Listed
    <3>3. CASE q = p
      <4>1. p.qos > 0
        BY <1>2, <1>3, <3>1, <3>2, <3>3
      <4> QED
        BY <1>5, <1>9, <3>1, <3>3, <4>1
    <3>4. CASE q # p
      BY <1>9, <3>1, <3>4
    <3> QED
      BY <3>3, <3>4
  <2>2. broker'.received \subseteq {m.id : m \in Own}
    BY <1>1, <1>2, <1>8, <1>15 DEF Matched
  <2> QED
    BY <1>1, <1>10, <2>1, <2>2 DEF Matched
<1>17. ASSUME NEW q \in Waiting' \union Leaving' PROVE ToBrokerFits(q)'
  <2>1. ToBrokerFits(q) /\ q \in Waiting \union Leaving
    BY <1>1, <1>13 DEF Fits
  <2>2. CASE q.type = "PUBLISH"
    <3>1. /\ q.n \in DOMAIN published /\ q.qos = published[q.n] /\ q.id = ids[q.n]
          /\ q.qos = 0 <=> q.id = 0
      BY <1>1, <2>1, <2>2, PacketIds
    <3>2. q.n # p.n
      BY <1>3, <1>13, <3>1 DEF Clash
    <3>3. delivered'[q.n] = 0
      BY <1>12, <2>1, <2>2, <3>1, <3>2 DEF ToBrokerFits
    <3>4. q.qos > 0 => q.id \notin broker'.received
      <4>1. q.qos > 0 => q.id # p.id
        BY <1>13, <3>1
      <4> QED
        BY <1>2, <1>8, <2>1, <2>2, <4>1 DEF ToBrokerFits
    <3> QED
      BY <1>4, <1>10, <2>1, <2>2, <3>3, <3>4 DEF ToBrokerFits
  <2>3. CASE q.type = "PUBREL"
    <3>1. PICK m \in Own : m.id = q.id /\ delivered[m.n] > 0
      BY <2>1, <2>3 DEF ToBrokerFits
    <3>2. delivered'[m.n] > 0
      BY <1>1, <1>12, <3>1 DEF Owned
    <3> QED
      BY <1>10, <2>3, <3>1, <3>2 DEF ToBrokerFits
  <2>4. CASE q.type \notin {"PUBLISH", "PUBREL"}
    BY <1>7, <1>10, <2>1, <2>4 DEF ToBrokerFits
  <2> QED
    BY <2>2, <2>3, <2>4
<1>18. ASSUME NEW q \in Arriving' PROVE ToClientFits(q)'
  <2>1. CASE q \in Arriving
    <3>1. ToClientFits(q)
      BY <1>1, <2>1 DEF Fits
    <3>2. CASE q.type \in {"PUBACK", "PUBREC", "PUBCOMP"}
      <4>1. PICK m \in Own : m.id = q.id /\ (delivered[m.n] > 0 <=> q.n = 0)
        BY <3>1, <3>2 DEF ToClientFits
      <4>2. m.id # 0 /\ m.n \in DOMAIN published /\ m.id = ids[m.n]
        BY <1>1, IdsApart DEF Owned
      <4>3. q.id # p.id
        BY <1>13, <2>1, <4>1, <4>2
      <4>4. m.n # p.n
        BY <1>3, <4>1, <4>2, <4>3
      <4>5. delivered'[m.n] = delivered[m.n]
        BY <1>12, <4>2, <4>4
      <4>6. q.type \in {"PUBACK", "PUBCOMP"} \/ (q.type = "PUBREC" /\ q.n = 1)
               => q.id \notin broker'.received
        BY <1>2, <1>8, <3>1, <4>3 DEF ToClientFits
      <4>7. q.n \in {0, 1}
        BY <3>1, <3>2 DEF ToClientFits
      <4> QED
        BY <1>10, <3>2, <4>1, <4>5, <4>6, <4>7 DEF ToClientFits
    <3>3. CASE q.type \notin {"PUBACK", "PUBREC", "PUBCOMP"}
      BY <1>7, <1>10, <3>1, <3>3 DEF ToClientFits
    <3> QED
      BY <3>2, <3>3
  <2>2. CASE q = a /\ p.qos > 0
    <3>1. \E m \in Own' : m.id = q.id /\ (delivered'[m.n] > 0 <=> q.n = 0)
      BY <1>5, <1>10, <1>12, <1>15, <2>2
    <3>2. q.type = "PUBACK" => q.id \notin broker'.received
      BY <1>3, <1>5, <1>8, <2>2
    <3>3. q.type \in {"PUBACK", "PUBREC"} /\ q.n = 0
      BY <1>5, <2>2
    <3> QED
      BY <3>1, <3>2, <3>3 DEF ToClientFits
  <2> QED
    BY <1>9, <2>1, <2>2
<1>19. Fits'
  BY <1>1, <1>9, <1>10, <1>17, <1>18 DEF Fits
<1> QED
  BY <1>1, <1>2, <1>4, <1>6, <1>9, <1>14, <1>16, <1>19 DEF SessionInv, Live, p

\* The broker answers the client, and the publishes are as they were.
LEMMA InvAnswer ==
    ASSUME ApartIds, SessionInv, Typed', connected, toBroker # <<>>,
           NEW p, p = Head(toBroker), p.id # 0, NEW a \in FromBroker, a.id = p.id,
           toBroker' = Tail(toBroker), toClient' = Append(toClient, a),
           UNCHANGED <<clientVars, queueVars, tick, outgoingVars, incomingVars, lossVars>>,
           broker'.received \subseteq broker.received, Promised' = Promised,
           IsFiniteSet(broker'.outbound), Cardinality(broker'.outbound) <= ReceiveMaximum,
           \A o1, o2 \in broker'.outbound : o1.id = o2.id => o1 = o2,
           ToClientFits(a)'
    PROVE  SessionInv'
<1>1. /\ Typed /\ OnePacketEach /\ Pooled /\ Listed /\ Places
      /\ Owned /\ Matched /\ Balanced /\ Fits
  BY DEF SessionInv, Live
<1>2. UNCHANGED <<m_packetIdPool, m_messages, m_receiveMaximumTracker, connected, m_sendQueue,
                  delayed, tick, published, ids, delivered, completed, refused,
                  sent, received, settled, cutOff, losses>>
  BY DEF clientVars, queueVars, outgoingVars, incomingVars, lossVars
<1>3. /\ OnePacketEach' /\ p \in Leaving /\ Waiting' = Waiting
      /\ Leaving' = Leaving \ {p} /\ Arriving' = Arriving \union {a}
  BY <1>1, <1>2, AnswerMoves
<1>4. Kept' = Kept /\ Own' = Own /\ Foreign' = Foreign /\ Held' = Held
  BY <1>2 DEF Kept, Own, Foreign, Held
<1>5. Pooled' /\ Listed' /\ Owned' /\ Balanced' /\ Places'
  <2>1. Pooled'
    BY <1>1, <1>2 DEF Pooled
  <2>2. Listed'
    BY <1>1, <1>2, <1>4 DEF Listed
  <2>3. Owned'
    BY <1>1, <1>2, <1>4 DEF Owned
  <2>4. Balanced'
    BY <1>1, <1>2, <1>4 DEF Balanced
  <2>5. Places'
    BY <1>1, <1>2, <1>4 DEF Places
  <2> QED
    BY <2>1, <2>2, <2>3, <2>4, <2>5
<1>6. Matched'
  <2>1. \A m \in Kept : \E q \in Waiting' \union Leaving' \union Arriving' : q.id = m.id
    <3> TAKE m \in Kept
    <3>1. PICK q \in Waiting \union Leaving \union Arriving : q.id = m.id
      BY <1>1 DEF Matched
    <3> QED
      BY <1>3, <3>1
  <2> QED
    BY <1>1, <1>4, <2>1 DEF Matched
<1>7. \A q : /\ ToBrokerFits(q) => ToBrokerFits(q)'
             /\ ToClientFits(q) => ToClientFits(q)'
  <2> TAKE q
  <2>1. ToBrokerFits(q) => ToBrokerFits(q)'
    BY <1>2, <1>4 DEF ToBrokerFits
  <2>2. ToClientFits(q) => ToClientFits(q)'
    BY <1>2, <1>4 DEF ToClientFits
  <2> QED
    BY <2>1, <2>2
<1>8. Fits'
  BY <1>1, <1>3, <1>4, <1>7 DEF Fits
<1> QED
  BY <1>3, <1>5, <1>6, <1>8 DEF SessionInv, Live

LEMMA InvBrokerAnswers ==
    ASSUME ApartIds, SessionInv, Typed', BrokerRefuses \/ BrokerReleases \/ BrokerContinues
    PROVE  SessionInv'
<1> DEFINE p == Head(toBroker)
<1>1. /\ Typed /\ Pooled /\ Listed /\ Places /\ connected
      /\ Owned /\ Matched /\ Balanced /\ Fits
      /\ toBroker # <<>> /\ p.type \in {"PUBLISH", "PUBREC", "PUBREL"} /\ toBroker' = Tail(toBroker)
      /\ UNCHANGED <<clientVars, queueVars, tick, outgoingVars, incomingVars, lossVars>>
  <2>1. toBroker # <<>> /\ p.type \in {"PUBLISH", "PUBREC", "PUBREL"} /\ toBroker' = Tail(toBroker)
    BY DEF BrokerRefuses, BrokerReleases, BrokerContinues, ReachesBroker, BrokerTakes
  <2>2. UNCHANGED <<clientVars, queueVars, tick, outgoingVars, incomingVars, lossVars>>
    BY DEF BrokerRefuses, BrokerReleases, BrokerContinues
  <2> HIDE DEF p
  <2> QED
    BY <2>1, <2>2 DEF SessionInv, Live, Places
<1>2. p \in Leaving /\ ToBrokerFits(p)
  <2>1. p \in Leaving
    BY <1>1, HeadTyped DEF Leaving, Typed
  <2> QED
    BY <1>1, <2>1 DEF Fits
<1>3. p.id \in Nat
  <2>1. p \in Packets
    BY <1>1, HeadTyped DEF Typed
  <2> QED
    BY <2>1 DEF Packets
<1>4. broker \in [received : SUBSET Nat, outbound : SUBSET Outbound]
      /\ broker.received \in SUBSET Nat /\ broker.outbound \in SUBSET Outbound
  BY <1>1 DEF Typed
<1>5. /\ IsFiniteSet(broker.outbound) /\ Cardinality(broker.outbound) <= ReceiveMaximum
      /\ \A o1, o2 \in broker.outbound : o1.id = o2.id => o1 = o2
  BY <1>1 DEF Balanced, Listed
<1>6. Own' = Own /\ Foreign' = Foreign /\ UNCHANGED <<delivered, received>>
  BY <1>1 DEF Own, Foreign, Kept, clientVars, outgoingVars, incomingVars
<1>7. CASE BrokerRefuses
  <2>1. p.type = "PUBLISH" /\ p.qos > 0 /\ p.id \notin broker.received /\ UNCHANGED broker
        /\ BrokerAnswers(Failed(IF p.qos = 1 THEN "PUBACK" ELSE "PUBREC", p.id))
    BY <1>7 DEF BrokerRefuses, ReachesBroker
  <2>2. p.id # 0
    BY <1>1, <1>2, <2>1, PacketIds
  <2> HIDE DEF p
  <2>3. PICK a : a = Failed(IF p.qos = 1 THEN "PUBACK" ELSE "PUBREC", p.id)
    OBVIOUS
  <2>4. a \in FromBroker /\ a.id = p.id /\ a.n = 1 /\ a.type \in {"PUBACK", "PUBREC"}
    BY <1>3, <2>3, AnswerTyped
  <2>5. \E m \in Own : m.id = p.id /\ delivered[m.n] = 0
    BY <1>1, <1>2, <2>1 DEF ToBrokerFits, Owned
  <2>6. ToClientFits(a)'
    BY <1>6, <2>1, <2>4, <2>5 DEF ToClientFits
  <2>7. toClient' = Append(toClient, a) /\ Promised' = Promised
    BY <2>1, <2>3 DEF BrokerAnswers, Promised
  <2> QED
    BY <1>1, <1>5, <2>1, <2>2, <2>4, <2>6, <2>7, InvAnswer DEF p
<1>8. CASE BrokerReleases
  <2>1. p.type = "PUBREL" /\ BrokerAnswers(Answer("PUBCOMP", p.id))
        /\ broker' = [broker EXCEPT !.received = broker.received \ {p.id}]
    BY <1>8 DEF BrokerReleases, ReachesBroker
  <2>2. p.id # 0
    BY <1>1, <1>2, <2>1, PacketIds
  <2> HIDE DEF p
  <2>3. PICK a : a = Answer("PUBCOMP", p.id)
    OBVIOUS
  <2>4. a \in FromBroker /\ a.id = p.id /\ a.n = 0 /\ a.type = "PUBCOMP"
    BY <1>3, <2>3, AnswerTyped
  <2>5. \E m \in Own : m.id = p.id /\ delivered[m.n] > 0
    BY <1>2, <2>1 DEF ToBrokerFits
  <2>6. broker'.received = broker.received \ {p.id} /\ broker'.outbound = broker.outbound
    <3>1. broker.received \ {p.id} \in SUBSET Nat
      BY <1>4
    <3> QED
      BY <1>4, <2>1, <3>1, BrokerTyped
  <2>7. ToClientFits(a)'
    BY <1>6, <2>4, <2>5, <2>6 DEF ToClientFits
  <2>8. toClient' = Append(toClient, a) /\ Promised' = Promised
    BY <2>1, <2>3, <2>6 DEF BrokerAnswers, Promised
  <2> QED
    BY <1>1, <1>5, <2>2, <2>4, <2>6, <2>7, <2>8, InvAnswer DEF p
<1>9. CASE BrokerContinues
  <2> DEFINE O == broker.outbound
             f(o) == IF o.id = p.id THEN [o EXCEPT !.released = TRUE] ELSE o
             new == (O \ Acknowledged) \union {[o EXCEPT !.released = TRUE] : o \in Acknowledged}
  <2>1. p.type = "PUBREC" /\ BrokerAnswers(Answer("PUBREL", p.id))
        /\ broker' = [broker EXCEPT !.outbound = new]
    BY <1>9 DEF BrokerContinues, ReachesBroker
  <2>2. p.id # 0
    BY <1>1, <1>2, <2>1, PacketIds
  <2>3. new = {f(o) : o \in O}
    BY DEF Acknowledged
  <2>4. \A o \in Outbound : f(o) \in Outbound /\ f(o).id = o.id /\ f(o).n = o.n
    BY DEF Outbound
  <2> HIDE DEF f
  <2>5. new \in SUBSET Outbound
    BY <1>4, <2>3, <2>4
  <2>6. broker'.outbound = {f(o) : o \in O} /\ broker'.received = broker.received
    <3> HIDE DEF new
    <3> QED
      BY <1>4, <2>1, <2>3, <2>5, BrokerTyped
  <2>7. \A o1, o2 \in broker'.outbound : o1.id = o2.id => o1 = o2
    BY <1>4, <1>5, <2>4, <2>6
  <2>8. Promised' = Promised
    BY <1>4, <2>4, <2>6 DEF Promised
  <2>9. IsFiniteSet(broker'.outbound) /\ Cardinality(broker'.outbound) <= ReceiveMaximum
    <3> DEFINE g == [o \in O |-> f(o)]
    <3>1. g \in Surjection(O, broker'.outbound)
      BY <2>6 DEF Surjection
    <3> HIDE DEF g, O
    <3>2. IsFiniteSet(broker'.outbound) /\ Cardinality(broker'.outbound) <= Cardinality(O)
      BY <1>5, <3>1, FS_Surjection DEF O
    <3> QED
      BY <1>5, <3>2, FS_CardinalityType, SessionAssumption DEF O
  <2> HIDE DEF p
  <2>10. PICK a : a = Answer("PUBREL", p.id)
    OBVIOUS
  <2>11. a \in FromBroker /\ a.id = p.id /\ a.type = "PUBREL"
    BY <1>3, <2>10, AnswerTyped
  <2>12. /\ \E m \in Foreign : m.id = p.id
         /\ \E o \in Promised : o.id = p.id /\ received[o.n] > 0
    BY <1>2, <2>1 DEF ToBrokerFits
  <2>13. ToClientFits(a)'
    BY <1>6, <2>8, <2>11, <2>12 DEF ToClientFits
  <2>14. toClient' = Append(toClient, a)
    BY <2>1, <2>10 DEF BrokerAnswers
  <2> QED
    BY <1>1, <2>2, <2>6, <2>7, <2>8, <2>9, <2>11, <2>13, <2>14, InvAnswer DEF p
<1> QED
  BY <1>7, <1>8, <1>9

\* The broker publishes, within the Receive Maximum.
LEMMA InvBrokerPublishes ==
    ASSUME ApartIds, SessionInv, Typed', NEW qos \in IncomingQos, BrokerPublishes(qos)
    PROVE  SessionInv'
<1>1. /\ Typed /\ OnePacketEach /\ Pooled /\ Listed /\ Places /\ connected
      /\ Owned /\ Matched /\ Balanced /\ Fits
  BY DEF SessionInv, Live, BrokerPublishes
<1>2. PICK id \in IF qos = 0 THEN {0} ELSE BrokerIds \ {o.id : o \in broker.outbound} :
         /\ toClient' = Append(toClient, Packet("PUBLISH", id, Len(sent) + 1, qos))
         /\ broker' = IF qos = 0 THEN broker
                      ELSE [broker EXCEPT !.outbound = broker.outbound \union
                              {[id |-> id, n |-> Len(sent) + 1, qos |-> qos, released |-> FALSE]}]
  BY DEF BrokerPublishes, BrokerAnswers
<1>3. /\ sent' = Append(sent, qos) /\ Len(sent) < MaxIncoming
      /\ Cardinality(broker.outbound) < ReceiveMaximum
      /\ UNCHANGED <<m_packetIdPool, m_messages, m_receiveMaximumTracker, connected, m_sendQueue,
                     delayed, tick, toBroker, published, ids, delivered, completed, refused,
                     received, settled, cutOff, losses>>
  BY DEF BrokerPublishes, clientVars, queueVars, outgoingVars, lossVars
<1> DEFINE n == Len(sent) + 1
           b == [id |-> id, n |-> n, qos |-> qos, released |-> FALSE]
<1>4. /\ qos \in 0 .. 2 /\ id \in Nat /\ (qos # 0 => id \in Nat \ {0} /\ id \in BrokerIds)
      /\ (qos = 0 => id = 0) /\ \A o \in Promised : qos # 0 => o.id # id
      /\ sent \in Seq(0 .. 2) /\ Len(sent) \in Nat /\ MaxIncoming \in Nat /\ n \in 1 .. MaxIncoming
      /\ DOMAIN sent = 1 .. Len(sent)
  <2>1. \A o \in Promised : qos # 0 => o.id # id
    BY <1>1, <1>2, PromisedTyped
  <2>2. /\ qos = 0 => id = 0
        /\ qos # 0 => id \in BrokerIds
    BY <1>2
  <2>3. /\ qos \in 0 .. 2 /\ id \in Nat /\ (qos # 0 => id \in Nat \ {0})
        /\ sent \in Seq(0 .. 2) /\ Len(sent) \in Nat /\ MaxIncoming \in Nat
        /\ DOMAIN sent = 1 .. Len(sent)
    <3>1. qos \in 0 .. 2 /\ BrokerIds \subseteq Nat \ {0}
      BY ConstantTypes
    <3>2. /\ sent \in Seq(0 .. 2) /\ Len(sent) \in Nat /\ MaxIncoming \in Nat
          /\ DOMAIN sent = 1 .. Len(sent)
      BY <1>1, SentTyped
    <3>3. qos # 0 => id \in Nat \ {0}
      BY <2>2, <3>1, Zenon
    <3>4. CASE qos = 0
      BY <2>2, <3>1, <3>2, <3>4
    <3>5. CASE qos # 0
      BY <3>1, <3>2, <3>3, <3>5
    <3> QED
      BY <3>4, <3>5
  <2> QED
    BY <1>3, <2>1, <2>2, <2>3
<1>5. /\ Len(sent') = n /\ DOMAIN sent' = 1 .. n /\ sent'[n] = qos
      /\ \A k \in DOMAIN sent : sent'[k] = sent[k] /\ k \in DOMAIN sent' /\ k # n
  BY <1>3, <1>4, AppendProperties, LenProperties
<1>6. PICK a : a = Packet("PUBLISH", id, n, qos)
  OBVIOUS
<1>7. a \in FromBroker /\ a.type = "PUBLISH" /\ a.id = id /\ a.n = n /\ a.qos = qos
  BY <1>4, <1>6 DEF Packet, FromBroker, Packets
<1>8. /\ broker'.received = broker.received
      /\ broker'.outbound = IF qos = 0 THEN broker.outbound ELSE broker.outbound \union {b}
  <2>1. CASE qos = 0
    BY <1>2, <2>1
  <2>2. CASE qos # 0
    <3>1. b \in Outbound
      BY <1>4, <2>2 DEF Outbound
    <3>2. broker \in [received : SUBSET Nat, outbound : SUBSET Outbound]
          /\ broker.outbound \union {b} \in SUBSET Outbound
      BY <1>1, <3>1 DEF Typed
    <3> QED
      BY <1>2, <2>2, <3>2, BrokerTyped
  <2> QED
    BY <2>1, <2>2
<1>9. /\ Promised' = IF qos = 0 THEN Promised ELSE Promised \union {[id |-> id, n |-> n]}
      /\ Promised \subseteq Promised'
      /\ qos # 0 => [id |-> id, n |-> n] \in Promised'
  <2>0. b.id = id /\ b.n = n
    OBVIOUS
  <2>1. PICK c : c = b /\ c.id = id /\ c.n = n
    BY <2>0
  <2> HIDE DEF b, n
  <2>2. broker'.outbound = IF qos = 0 THEN broker.outbound ELSE broker.outbound \union {c}
    BY <1>8, <2>1
  <2>3. {[id |-> o.id, n |-> o.n] : o \in broker.outbound \union {c}}
           = {[id |-> o.id, n |-> o.n] : o \in broker.outbound} \union {[id |-> id, n |-> n]}
    BY <2>1
  <2> QED
    BY <2>2, <2>3 DEF Promised
<1> HIDE DEF n, b
<1>10. Kept' = Kept /\ Own' = Own /\ Foreign' = Foreign /\ Held' = Held
  BY <1>3 DEF Kept, Own, Foreign, Held
<1>11. /\ qos # 0 => \A m \in Kept : m.id # id
       /\ qos # 0 => id \notin Held
  <2>1. \A m \in Own : qos # 0 => m.id # id
    BY <1>1, <1>4, IdsApart
  <2>2. \A m \in Foreign : qos # 0 => m.id # id
    BY <1>1, <1>4 DEF Matched
  <2>3. qos # 0 => id \notin Held
    BY <1>1, <1>4 DEF Balanced
  <2> QED
    BY <2>1, <2>2, <2>3 DEF Own, Foreign
<1>12. \A q \in Waiting \union Leaving \union Arriving : q.id = id => q.id = 0
  BY <1>1, <1>4, <1>11, PacketIds DEF Own
<1>13. \A q \in Arriving : ~Clash(a, q)
  <2> SUFFICES ASSUME NEW q \in Arriving, Clash(a, q) PROVE FALSE
    OBVIOUS
  <2>1. q.id = 0 /\ q.n = n
    BY <1>7, <1>12 DEF Clash
  <2>2. q.n \in DOMAIN sent
    BY <1>1, <2>1, PacketIds, <1>4, IdsApart, PromisedTyped
  <2> QED
    BY <1>5, <2>1, <2>2
<1>14. /\ OnePacketEach' /\ Waiting' = Waiting
       /\ Leaving' = Leaving /\ Arriving' = Arriving \union {a}
  BY <1>1, <1>2, <1>3, <1>6, <1>7, <1>12, <1>13, BrokerPublishMoves DEF n
<1>15. Pooled'
  <2>1. \A k \in 1 .. MaxIncoming : k > Len(sent') => received'[k] = 0
    BY <1>1, <1>3, <1>4, <1>5 DEF Pooled, n
  <2>2. settled' \subseteq DOMAIN sent'
    BY <1>1, <1>3, <1>5 DEF Pooled
  <2> QED
    BY <1>1, <1>3, <2>1, <2>2 DEF Pooled
<1>16. Listed'
  <2>1. /\ Tidy(m_messages)
        /\ \A o \in Promised :
              o.id \in BrokerIds /\ o.n \in DOMAIN sent /\ sent[o.n] # 0 /\ o.n \notin settled
        /\ \A o1, o2 \in Promised : o1.id = o2.id \/ o1.n = o2.n => o1 = o2
        /\ \A o1, o2 \in broker.outbound : o1.id = o2.id => o1 = o2
    BY <1>1 DEF Listed
  <2>2. \A o \in Promised : o.id \in BrokerIds /\ o.n \in DOMAIN sent' /\ sent'[o.n] # 0
                            /\ o.n \notin settled' /\ o.n # n
    BY <1>3, <1>5, <2>1
  <2>3. n \notin settled'
    BY <1>1, <1>3, <1>5 DEF Pooled
  <2>4. CASE qos = 0
    BY <1>3, <1>8, <1>9, <2>1, <2>2, <2>4 DEF Listed
  <2>5. CASE qos # 0
    <3> DEFINE o0 == [id |-> id, n |-> n]
    <3>1. Promised' = Promised \union {o0} /\ o0.id = id /\ o0.n = n
      BY <1>9, <2>5
    <3>2. \A o \in Promised : o.id # id
      BY <1>4, <2>5
    <3>3. \A o \in broker.outbound : o.id # id
      BY <1>2, <2>5
    <3>4. b.id = id /\ broker'.outbound = broker.outbound \union {b}
      BY <1>8, <2>5 DEF b
    <3> HIDE DEF o0
    <3>5. \A o \in Promised' : o.id \in BrokerIds /\ o.n \in DOMAIN sent' /\ sent'[o.n] # 0
                               /\ o.n \notin settled'
      <4>1. o0.id \in BrokerIds /\ o0.n \in DOMAIN sent' /\ sent'[o0.n] # 0 /\ o0.n \notin settled'
        <5>1. n \in DOMAIN sent'
          BY <1>4, <1>5 DEF n
        <5> QED
          BY <1>4, <1>5, <2>3, <2>5, <3>1, <5>1
      <4> QED
        BY <2>2, <3>1, <4>1
    <3>6. \A o1, o2 \in Promised' : o1.id = o2.id \/ o1.n = o2.n => o1 = o2
      BY <2>1, <2>2, <3>1, <3>2
    <3>7. \A o1, o2 \in broker'.outbound : o1.id = o2.id => o1 = o2
      BY <2>1, <3>3, <3>4
    <3> QED
      BY <1>3, <2>1, <3>5, <3>6, <3>7 DEF Listed
  <2> QED
    BY <2>4, <2>5
<1>17. Owned' /\ Places'
  BY <1>1, <1>3, <1>10 DEF Owned, Places
<1>18. Matched'
  <2>1. \A m \in Foreign : \E o \in Promised' : o.id = m.id
    BY <1>1, <1>9 DEF Matched
  <2>2. \A m \in Kept : \E q \in Waiting' \union Leaving' \union Arriving' : q.id = m.id
    BY <1>1, <1>14 DEF Matched
  <2> QED
    BY <1>1, <1>8, <1>10, <2>1, <2>2 DEF Matched
<1>19. Balanced'
  <2>1. IsFiniteSet(broker'.outbound) /\ Cardinality(broker'.outbound) <= ReceiveMaximum
    <3>1. /\ IsFiniteSet(broker.outbound) /\ Cardinality(broker.outbound) \in Nat
          /\ ReceiveMaximum \in Nat
      BY <1>1, FS_CardinalityType, SessionAssumption DEF Balanced
    <3>2. IsFiniteSet(broker.outbound \union {b})
          /\ Cardinality(broker.outbound \union {b}) <= Cardinality(broker.outbound) + 1
      <4> DEFINE O == broker.outbound
      <4>1. IsFiniteSet(O \union {b})
            /\ Cardinality(O \union {b}) = IF b \in O THEN Cardinality(O) ELSE Cardinality(O) + 1
        BY <3>1, FS_AddElement, Zenon
      <4> QED
        BY <3>1, <4>1
    <3>3. Cardinality(broker.outbound \union {b}) \in Nat
      BY <3>2, FS_CardinalityType
    <3> QED
      BY <1>3, <1>8, <3>1, <3>2, <3>3
  <2>2. Held' \subseteq {o.id : o \in Promised'}
    BY <1>1, <1>9, <1>10 DEF Balanced
  <2> QED
    BY <1>1, <1>3, <1>10, <2>1, <2>2 DEF Balanced
<1>20. ASSUME NEW q \in Waiting \union Leaving PROVE ToBrokerFits(q)'
  <2>1. ToBrokerFits(q)
    BY <1>1 DEF Fits
  <2>2. q.type \in {"PUBACK", "PUBREC", "PUBCOMP"} => \E o \in Promised' : o.id = q.id /\ received'[o.n] > 0
    BY <1>3, <1>9, <2>1 DEF ToBrokerFits
  <2> QED
    BY <1>3, <1>8, <1>10, <2>1, <2>2 DEF ToBrokerFits
<1>21. ASSUME NEW q \in Arriving' PROVE ToClientFits(q)'
  <2>1. CASE q \in Arriving
    <3>1. ToClientFits(q)
      BY <1>1, <2>1 DEF Fits
    <3>2. q.type = "PUBLISH" =>
          /\ q.n \in DOMAIN sent' /\ q.qos = sent'[q.n] /\ received'[q.n] = 0
          /\ q.qos = 0 => q.id = 0
          /\ q.qos > 0 => /\ q.id \notin Held'
                          /\ \A m \in Kept' : m.id # q.id
                          /\ \E o \in Promised' : o.id = q.id /\ o.n = q.n
      BY <1>3, <1>5, <1>9, <1>10, <3>1 DEF ToClientFits
    <3>3. q.type = "PUBREL" =>
          /\ \E m \in Foreign' : m.id = q.id
          /\ \E o \in Promised' : o.id = q.id /\ received'[o.n] > 0
      BY <1>3, <1>9, <1>10, <3>1 DEF ToClientFits
    <3> QED
      BY <1>3, <1>8, <1>10, <3>1, <3>2, <3>3 DEF ToClientFits
  <2>2. CASE q = a
    <3>1. received'[n] = 0
      BY <1>1, <1>3, <1>4 DEF Pooled, n
    <3>2. n \in DOMAIN sent'
      BY <1>4, <1>5 DEF n
    <3>3. qos # 0 => \E o \in Promised' : o.id = id /\ o.n = n
      BY <1>9
    <3>4. qos > 0 => qos # 0
      BY <1>4
    <3> QED
      BY <1>4, <1>5, <1>7, <1>10, <1>11, <2>2, <3>1, <3>2, <3>3, <3>4 DEF ToClientFits
  <2> QED
    BY <1>14, <2>1, <2>2
<1>22. Fits'
  BY <1>1, <1>10, <1>14, <1>20, <1>21 DEF Fits
<1> QED
  BY <1>14, <1>15, <1>16, <1>17, <1>18, <1>19, <1>22 DEF SessionInv, Live

\* The broker learns that one of its publishes is complete.
LEMMA InvBrokerSettles ==
    ASSUME ApartIds, SessionInv, Typed', BrokerSettles
    PROVE  /\ SessionInv'
           /\ \E o \in Promised : /\ settled' = settled \union {o.n} /\ o.n \in DOMAIN sent
                                  /\ sent[o.n] # 0 /\ o.n \notin settled /\ received[o.n] > 0
<1> DEFINE p == Head(toBroker)
<1>1. /\ Typed /\ OnePacketEach /\ Pooled /\ Listed /\ Places /\ connected
      /\ Owned /\ Matched /\ Balanced /\ Fits
      /\ toBroker # <<>> /\ p.type \in {"PUBACK", "PUBCOMP"} /\ toBroker' = Tail(toBroker)
  <2>1. toBroker # <<>> /\ p.type \in {"PUBACK", "PUBCOMP"} /\ toBroker' = Tail(toBroker)
    BY DEF BrokerSettles, ReachesBroker, BrokerTakes
  <2> HIDE DEF p
  <2> QED
    BY <2>1 DEF SessionInv, Live, Places
<1>2. /\ broker' = [broker EXCEPT !.outbound = broker.outbound \ Acknowledged]
      /\ settled' = settled \union {o.n : o \in Acknowledged}
      /\ UNCHANGED <<m_packetIdPool, m_messages, m_receiveMaximumTracker, connected, m_sendQueue,
                     delayed, tick, toClient, published, ids, delivered, completed, refused,
                     sent, received, cutOff, losses>>
  BY DEF BrokerSettles, clientVars, queueVars, outgoingVars, lossVars
<1>3. Acknowledged = {o \in broker.outbound : o.id = p.id}
  BY DEF Acknowledged
<1>4. /\ OnePacketEach' /\ p \in Leaving
      /\ Waiting' = Waiting /\ Leaving' = Leaving \ {p} /\ Arriving' = Arriving
  BY <1>1, <1>2, SettleMoves
<1> HIDE DEF p
<1>5. /\ p.id \notin Held /\ \A m \in Kept : m.id # p.id
      /\ \E o \in Promised : o.id = p.id /\ received[o.n] > 0
  BY <1>1, <1>4 DEF Fits, ToBrokerFits
<1>6. PICK o0 \in Promised : o0.id = p.id /\ received[o0.n] > 0
  BY <1>5
<1>7. /\ broker'.received = broker.received
      /\ broker'.outbound = {o \in broker.outbound : o.id # p.id}
  <2>1. broker \in [received : SUBSET Nat, outbound : SUBSET Outbound]
        /\ broker.outbound \ Acknowledged \in SUBSET Outbound
    BY <1>1 DEF Typed
  <2>2. broker' = [received |-> broker.received, outbound |-> broker.outbound \ Acknowledged]
    BY <1>2, <2>1, BrokerTyped
  <2> QED
    BY <1>3, <2>2
<1>8. Promised' = {o \in Promised : o.id # p.id}
  <2>1. \A o : [id |-> o.id, n |-> o.n].id = o.id
    OBVIOUS
  <2>2. Promised' = {[id |-> o.id, n |-> o.n] : o \in {c \in broker.outbound : c.id # p.id}}
    BY <1>7 DEF Promised
  <2> QED
    BY <2>1, <2>2 DEF Promised
<1>9. {o.n : o \in Acknowledged} = {o0.n}
  <2>1. \A o \in Acknowledged : [id |-> o.id, n |-> o.n] \in Promised /\ o.id = p.id
    BY <1>1, <1>3, PromisedTyped
  <2>2. \A o \in Acknowledged : o.n = o0.n
    <3> TAKE o \in Acknowledged
    <3>1. PICK c : c = [id |-> o.id, n |-> o.n]
      OBVIOUS
    <3>2. c \in Promised /\ c.id = o0.id /\ c.n = o.n
      BY <1>6, <2>1, <3>1
    <3> QED
      BY <1>1, <1>6, <3>2 DEF Listed
  <2>3. \E o \in Acknowledged : o.n = o0.n
    BY <1>1, <1>3, <1>6, PromisedTyped
  <2> QED
    BY <2>2, <2>3
<1>10. settled' = settled \union {o0.n} /\ o0.n \in DOMAIN sent /\ sent[o0.n] # 0 /\ o0.n \notin settled
  BY <1>1, <1>2, <1>6, <1>9 DEF Listed
<1>11. Kept' = Kept /\ Own' = Own /\ Foreign' = Foreign /\ Held' = Held
  BY <1>2 DEF Kept, Own, Foreign, Held
<1>12. \A q \in Waiting' \union Leaving' \union Arriving' :
          q \in Waiting \union Leaving \union Arriving /\ (q.id = p.id => q = p)
  <2>1. p.id # 0
    BY <1>1, <1>6, PromisedTyped
  <2> QED
    BY <1>1, <1>4, <2>1, OnlyPacket
<1>13. p \notin Waiting' \union Leaving' \union Arriving'
  <2>1. p.id # 0
    BY <1>1, <1>6, PromisedTyped
  <2>2. p \notin Waiting /\ p \notin Arriving
    BY <1>1, <1>4, <2>1 DEF OnePacketEach, Clash
  <2> QED
    BY <1>4, <2>2
<1>14. \A q \in Waiting' \union Leaving' \union Arriving' : q.id # p.id
  BY <1>12, <1>13
<1>15. Pooled' /\ Owned' /\ Places'
  <2>1. Pooled'
    BY <1>1, <1>2, <1>10 DEF Pooled
  <2> QED
    BY <1>1, <1>2, <1>11, <2>1 DEF Owned, Places
<1>16. Listed'
  <2>1. \A o \in Promised' : o.n # o0.n
    BY <1>1, <1>6, <1>8 DEF Listed
  <2>2. \A o \in Promised' :
           o.id \in BrokerIds /\ o.n \in DOMAIN sent' /\ sent'[o.n] # 0 /\ o.n \notin settled'
    BY <1>1, <1>2, <1>8, <1>10, <2>1 DEF Listed
  <2>3. \A o1, o2 \in Promised' : o1.id = o2.id \/ o1.n = o2.n => o1 = o2
    BY <1>1, <1>8 DEF Listed
  <2>4. \A o1, o2 \in broker'.outbound : o1.id = o2.id => o1 = o2
    BY <1>1, <1>7 DEF Listed
  <2> QED
    BY <1>1, <1>2, <2>2, <2>3, <2>4 DEF Listed
<1>17. Matched'
  <2>1. \A m \in Foreign : \E o \in Promised' : o.id = m.id
    BY <1>1, <1>5, <1>8 DEF Matched, Foreign
  <2>2. \A m \in Kept : \E q \in Waiting' \union Leaving' \union Arriving' : q.id = m.id
    BY <1>1, <1>4, <1>5 DEF Matched
  <2> QED
    BY <1>1, <1>7, <1>11, <2>1, <2>2 DEF Matched
<1>18. Balanced'
  <2>1. IsFiniteSet(broker'.outbound) /\ Cardinality(broker'.outbound) <= ReceiveMaximum
    <3>1. IsFiniteSet(broker.outbound) /\ Cardinality(broker.outbound) <= ReceiveMaximum
          /\ Cardinality(broker.outbound) \in Nat /\ ReceiveMaximum \in Nat
      BY <1>1, FS_CardinalityType, SessionAssumption DEF Balanced
    <3>2. broker'.outbound \subseteq broker.outbound
      BY <1>7
    <3>3. IsFiniteSet(broker'.outbound) /\ Cardinality(broker'.outbound) <= Cardinality(broker.outbound)
      BY <3>1, <3>2, FS_Subset
    <3>4. Cardinality(broker'.outbound) \in Nat
      BY <3>3, FS_CardinalityType
    <3> QED
      BY <3>1, <3>3, <3>4
  <2>2. Held' \subseteq {o.id : o \in Promised'}
    BY <1>1, <1>5, <1>8, <1>11 DEF Balanced
  <2> QED
    BY <1>1, <1>2, <1>11, <2>1, <2>2 DEF Balanced
<1>19. ASSUME NEW q \in Waiting' \union Leaving' PROVE ToBrokerFits(q)'
  <2>1. ToBrokerFits(q) /\ q.id # p.id
    BY <1>1, <1>4, <1>14 DEF Fits
  <2>2. q.type \in {"PUBACK", "PUBREC", "PUBCOMP"} =>
           \E o \in Promised' : o.id = q.id /\ received'[o.n] > 0
    BY <1>2, <1>8, <2>1 DEF ToBrokerFits
  <2> QED
    BY <1>2, <1>7, <1>11, <2>1, <2>2 DEF ToBrokerFits
<1>20. ASSUME NEW q \in Arriving' PROVE ToClientFits(q)'
  <2>1. ToClientFits(q) /\ q.id # p.id
    BY <1>1, <1>4, <1>14 DEF Fits
  <2>2. /\ q.type = "PUBLISH" /\ q.qos > 0 => \E o \in Promised' : o.id = q.id /\ o.n = q.n
        /\ q.type = "PUBREL" => \E o \in Promised' : o.id = q.id /\ received'[o.n] > 0
    BY <1>2, <1>8, <2>1 DEF ToClientFits
  <2> QED
    BY <1>2, <1>7, <1>11, <2>1, <2>2 DEF ToClientFits
<1>21. Fits'
  <2>1. \A q \in Leaving' : q.type \in {"PUBACK", "PUBCOMP"} =>
           q.id \notin Held' /\ \A m \in Kept' : m.id # q.id
    BY <1>1, <1>4, <1>11 DEF Fits
  <2> QED
    BY <1>19, <1>20, <2>1 DEF Fits
<1> QED
  BY <1>4, <1>6, <1>10, <1>15, <1>16, <1>17, <1>18, <1>21 DEF SessionInv, Live

-----------------------------------------------------------------------------
(* The invariant.                                                           *)

LEMMA InvInit ==
    ASSUME ApartIds, Init
    PROVE  SessionInv
<1>1. Typed
  BY TypedInit
<1>2. /\ m_packetIdPool = [m_nextId |-> 1, m_availableIds |-> <<>>]
      /\ m_messages = <<>> /\ m_sendQueue = <<>> /\ delayed = <<>>
      /\ m_receiveMaximumTracker = NewTracker(ReceiveMaximum, ReceiveMaximum)
      /\ connected = TRUE /\ tick = "idle"
      /\ toBroker = <<>> /\ toClient = <<>> /\ broker = NewBroker
      /\ published = <<>> /\ ids = <<>> /\ completed = {} /\ refused = {}
      /\ delivered = [n \in 0 .. MaxPublishes |-> 0]
      /\ sent = <<>> /\ received = [n \in 1 .. MaxIncoming |-> 0] /\ settled = {}
      /\ cutOff = FALSE /\ losses = 0
  BY DEF Init
<1>3. DOMAIN m_messages = {} /\ DOMAIN published = {} /\ DOMAIN ids = {} /\ Len(published) = 0
  BY <1>2, EmptySeq, LenProperties
<1>4. Waiting = {} /\ Leaving = {} /\ Arriving = {} /\ OnePacketEach
  BY <1>2, NoneAlone DEF Waiting, Leaving, Arriving, OnePacketEach
<1>5. Kept = {} /\ Own = {} /\ Foreign = {} /\ Promised = {} /\ Held = {}
  BY <1>2, <1>3 DEF Kept, KeptOf, Own, Foreign, Promised, Held, NewBroker, NewTracker
<1>6. m_packetIdPool.m_nextId = 1 /\ UsedIds(m_packetIdPool) = {}
  BY <1>2 DEF UsedIds
<1>7. Pooled
  <2>1. MaxPublishes \in Nat /\ \A n \in 1 .. MaxPublishes : delivered[n] = 0
    BY <1>2, SessionAssumption
  <2> QED
    BY <1>2, <1>3, <1>6, <2>1 DEF Pooled
<1>8. Listed
  BY <1>2, <1>3, <1>5 DEF Listed, Tidy, NewBroker
<1>9. Places
  BY <1>2, <1>5, <1>6 DEF Places
<1>10. Owned /\ Matched /\ Fits
  BY <1>2, <1>4, <1>5 DEF Owned, Matched, Fits, NewBroker
<1>11. Balanced
  <2>1. IsFiniteSet({}) /\ Cardinality({}) = 0 /\ ReceiveMaximum \in Nat
    BY FS_EmptySet, SessionAssumption
  <2>2. broker.outbound = {} /\ m_receiveMaximumTracker.m_receiveAllowance = ReceiveMaximum
        /\ m_receiveMaximumTracker.m_maxReceiveAllowance = ReceiveMaximum
    BY <1>2 DEF NewBroker, NewTracker
  <2> QED
    BY <1>5, <2>1, <2>2 DEF Balanced
<1> QED
  BY <1>1, <1>4, <1>7, <1>8, <1>9, <1>10, <1>11 DEF SessionInv, Live

\* Every step; time passes only where answers may be late.
LEMMA InvNext ==
    ASSUME CleanSessions, SessionInv, Next
    PROVE  SessionInv'
<1> ApartIds
  BY DEF CleanSessions, ApartIds
<1>1. Typed'
  BY TypedNext DEF CleanSessions, SessionInv
<1>2. ASSUME NEW qos \in PublishQos, Publish(qos) PROVE SessionInv'
  BY <1>1, <1>2, InvPublish
<1>3. CASE Tick
  <2>1. CASE BeginTick \/ DelayPacket \/ EndSend \/ EndReceive \/ PendingPublishMessageRetries
    BY <1>1, <2>1, InvTick
  <2>2. CASE SendPacket
    BY <1>1, <2>2, InvSendPacket
  <2>3. CASE ReceivePublish
    BY <1>1, <2>3, InvReceivePublish
  <2>4. CASE ReceivePubAck \/ ReceivePubComp \/ ReceivePubRec \/ ReceivePubRel
    BY <1>1, <2>4, InvReceiveAnswer
  <2> QED
    BY <1>3, <2>1, <2>2, <2>3, <2>4 DEF Tick, ReceivePacket
<1>4. CASE TimePasses
  BY <1>4 DEF TimePasses, CleanSessions
<1>5. CASE ConnectionLost
  BY <1>1, <1>5, InvConnectionLost
<1>6. ASSUME NEW present \in Resume, Connected(present) PROVE SessionInv'
  <2>1. present = FALSE
    BY DEF CleanSessions
  <2>2. Connected(FALSE)
    BY <1>6, <2>1
  <2> QED
    BY <1>1, <2>2, InvConnected
<1>7. CASE BrokerReceives
  BY <1>1, <1>7, InvBrokerAccepts, InvBrokerAnswers, InvBrokerSettles DEF BrokerReceives
<1>8. ASSUME NEW qos \in IncomingQos, BrokerPublishes(qos) PROVE SessionInv'
  BY <1>1, <1>8, InvBrokerPublishes
<1> QED
  BY <1>2, <1>3, <1>4, <1>5, <1>6, <1>7, <1>8 DEF Next

LEMMA InvStutter ==
    ASSUME SessionInv, UNCHANGED vars
    PROVE  SessionInv'
<1>1. /\ UNCHANGED <<clientVars, broker, outgoingVars, incomingVars, lossVars>>
      /\ UNCHANGED <<m_sendQueue, delayed, toBroker, toClient, tick>>
  BY DEF vars, queueVars, wireVars
<1>2. /\ UNCHANGED <<m_packetIdPool, m_messages, m_receiveMaximumTracker, connected>>
      /\ UNCHANGED <<published, ids, delivered, completed, refused, sent, received, settled>>
      /\ UNCHANGED <<cutOff, losses>>
  BY <1>1 DEF clientVars, outgoingVars, incomingVars, lossVars
<1>3. /\ OnePacketEach' /\ Waiting' = Waiting /\ Leaving' = Leaving /\ Arriving' = Arriving
  BY <1>1, NothingMoves DEF SessionInv
<1>4. Pooled' /\ Listed' /\ (connected' => Live')
  BY <1>1, <1>3, QuietStep
<1>5. Typed'
  BY <1>1, <1>2 DEF SessionInv, Typed
<1>6. Places'
  BY <1>1, <1>2 DEF SessionInv, Places, Own, Kept
<1> QED
  BY <1>3, <1>4, <1>5, <1>6 DEF SessionInv

\* The inductive invariant of clean sessions.
THEOREM SessionInvariant ==
    ASSUME CleanSessions
    PROVE  Spec => []SessionInv
<1> ApartIds
  BY DEF CleanSessions, ApartIds
<1>1. Init => SessionInv
  BY InvInit
<1>2. SessionInv /\ [Next]_vars => SessionInv'
  BY InvNext, InvStutter
<1> QED
  BY <1>1, <1>2, PTL DEF Spec

-----------------------------------------------------------------------------
(* What follows from it.                                                    *)

\* While connected, a publish of the session has its identifier in use, and no two
\* messages of the session share one.
THEOREM IdentifiersAgree ==
    ASSUME CleanSessions
    PROVE  Spec => []IdsAgree
<1>1. SessionInv => IdsAgree
  <2> SUFFICES ASSUME SessionInv PROVE IdsAgree
    OBVIOUS
  <2>1. Typed /\ Listed /\ (connected => Owned)
    BY DEF SessionInv, Live
  <2>2. ASSUME connected, NEW i \in DOMAIN m_messages, m_messages[i].n # 0
        PROVE  m_messages[i].id \in UsedIds(m_packetIdPool)
    <3>1. PICK m : m = [id |-> m_messages[i].id, n |-> m_messages[i].n]
      OBVIOUS
    <3>2. m \in Kept /\ m.id = m_messages[i].id /\ m.n = m_messages[i].n
      BY <3>1 DEF Kept, KeptOf
    <3>3. m \in Own
      BY <2>2, <3>2 DEF Own
    <3> QED
      BY <2>1, <2>2, <3>2, <3>3 DEF Owned
  <2>3. \A i, j \in DOMAIN m_messages : m_messages[i].id = m_messages[j].id => i = j
    BY <2>1 DEF Listed, Tidy
  <2> QED
    BY <2>2, <2>3 DEF IdsAgree
<1> QED
  BY <1>1, SessionInvariant, PTL

\* handlePubRecSentEvent, handlePubRelSentEvent and the handler of PUBREL, which look a
\* message up without asking whether the session has it, always find it.
THEOREM UpdatesAlwaysFind ==
    ASSUME CleanSessions
    PROVE  Spec => []UpdatesFind
<1>1. SessionInv => UpdatesFind
  BY DEF SessionInv, Places, UpdatesFind
<1> QED
  BY <1>1, SessionInvariant, PTL

\* A broker that respects the Receive Maximum is never disconnected for exceeding it,
\* however many publishes are on their way when identifiers come back.
THEOREM BrokerNeverCutOff ==
    ASSUME CleanSessions
    PROVE  Spec => []BrokerNotCutOff
<1>1. SessionInv => BrokerNotCutOff
  BY DEF SessionInv, Places, BrokerNotCutOff
<1> QED
  BY <1>1, SessionInvariant, PTL

\* When the first connection has nothing more to do, the session is empty and every
\* identifier is back in the pool.
THEOREM IdsAllReturned ==
    ASSUME CleanSessions
    PROVE  Spec => []IdsReturned
<1>1. SessionInv => IdsReturned
  <2> SUFFICES ASSUME SessionInv, losses = 0, Quiet
               PROVE  m_messages = <<>> /\ UsedIds(m_packetIdPool) = {}
    BY DEF IdsReturned
  <2>1. Typed /\ Places /\ connected /\ Matched
    BY DEF SessionInv, Live, Places
  <2>2. Waiting = {} /\ Leaving = {} /\ Arriving = {}
    BY NoneAlone DEF Quiet, Waiting, Leaving, Arriving
  <2>3. Kept = {}
    BY <2>1, <2>2 DEF Matched
  <2>4. UsedIds(m_packetIdPool) = {}
    BY <2>1, <2>3 DEF Places, Own
  <2>5. DOMAIN m_messages = {} /\ m_messages \in Seq(Messages)
    <3>1. \A i \in DOMAIN m_messages : [id |-> m_messages[i].id, n |-> m_messages[i].n] \in Kept
      BY DEF Kept, KeptOf
    <3> QED
      BY <2>1, <2>3, <3>1 DEF Typed
  <2>6. m_messages = <<>>
    BY <2>5, EmptySeq, LenProperties
  <2> QED
    BY <2>4, <2>6
<1> QED
  BY <1>1, SessionInvariant, PTL

-----------------------------------------------------------------------------
(* The delivery promised for the application's publishes.                   *)

\* What only looks at the four variables of the promise.
LEMMA OutgoingStutter ==
    ASSUME UNCHANGED <<published, delivered, completed, refused>>
    PROVE  UNCHANGED Outgoing!vars
BY DEF Outgoing!vars

LEMMA OutgoingInit ==
    ASSUME Init
    PROVE  Outgoing!Init
<1>1. /\ published = <<>> /\ completed = {} /\ refused = {} /\ MaxPublishes \in Nat
      /\ delivered = [n \in 0 .. MaxPublishes |-> 0]
  BY SessionAssumption DEF Init
<1>2. \A n \in 1 .. MaxPublishes : delivered[n] = 0
  BY <1>1
<1> QED
  BY <1>1, <1>2 DEF Outgoing!Init

LEMMA OutgoingPublish ==
    ASSUME NEW qos \in PublishQos, Publish(qos)
    PROVE  Outgoing!Next
<1>1. qos \in 0 .. 2
  BY SessionAssumption
<1>2. Len(published) < MaxPublishes /\ published' = Append(published, qos)
      /\ UNCHANGED <<delivered, completed, refused>>
  BY DEF Publish
<1>3. Outgoing!Publish(qos)
  BY <1>2 DEF Outgoing!Publish
<1> QED
  BY <1>1, <1>3 DEF Outgoing!Next

\* What the broker accepts reaches its subscribers for the first time.
LEMMA OutgoingDeliver ==
    ASSUME ApartIds, SessionInv, Typed', BrokerAccepts
    PROVE  Outgoing!Next
<1> DEFINE p == Head(toBroker)
           D == [k \in 1 .. MaxPublishes |-> delivered[k]]
<1>1. /\ p \in Leaving /\ p.type = "PUBLISH"
      /\ UNCHANGED <<published, completed, refused>> /\ BrokerDelivers(p.n)
  BY InvBrokerAccepts
<1> HIDE DEF p
<1>2. Typed /\ Pooled /\ Owned /\ Fits /\ connected
  <2>1. connected
    BY DEF BrokerAccepts, ReachesBroker, SessionInv, Places
  <2> QED
    BY <2>1 DEF SessionInv, Live
<1>3. /\ p.n \in DOMAIN published /\ p.qos = published[p.n] /\ delivered[p.n] = 0
      /\ p.qos > 0 => \E m \in Own : m.n = p.n
  BY <1>1, <1>2 DEF Fits, ToBrokerFits
<1>4. p.n \notin refused
  <2>1. CASE published[p.n] = 0
    BY <1>2, <2>1 DEF Pooled
  <2>2. CASE published[p.n] # 0
    <3>1. published[p.n] \in 0 .. 2
      BY <1>2, <1>3, ElementOfSeq, LenProperties DEF Typed
    <3>2. p.qos > 0
      BY <1>3, <2>2, <3>1
    <3> QED
      BY <1>2, <1>3, <3>2 DEF Owned
  <2> QED
    BY <2>1, <2>2
<1>5. p.n \in 1 .. MaxPublishes /\ D[p.n] = 0
  <2>1. DOMAIN published = 1 .. Len(published) /\ Len(published) \in Nat
        /\ Len(published) <= MaxPublishes /\ MaxPublishes \in Nat
    BY <1>2, LenProperties, SessionAssumption DEF Typed
  <2> QED
    BY <1>3, <2>1
<1>6. D' = [D EXCEPT ![p.n] = D[p.n] + 1]
  <2>1. delivered \in [0 .. MaxPublishes -> Nat] /\ MaxPublishes \in Nat
    BY <1>2, SessionAssumption DEF Typed
  <2>2. \A k \in 1 .. MaxPublishes :
           delivered'[k] = IF k = p.n THEN delivered[k] + 1 ELSE delivered[k]
    BY <1>1, <2>1 DEF BrokerDelivers
  <2> QED
    BY <1>5, <2>2
<1>7. PICK n \in DOMAIN published : n = p.n
  BY <1>3
<1>8. Outgoing!Deliver(n)
  BY <1>1, <1>4, <1>5, <1>6, <1>7 DEF Outgoing!Deliver
<1> QED
  BY <1>8 DEF Outgoing!Next

\* What the application is told of its publish is so.
LEMMA OutgoingEnd ==
    ASSUME ApartIds, SessionInv, connected, NEW p \in Packets, p \in Arriving,
           p.type \in {"PUBACK", "PUBCOMP"} \/ (p.type = "PUBREC" /\ p.n = 1), EndPublish(p),
           UNCHANGED <<published, delivered>>
    PROVE  Outgoing!Next
<1> DEFINE D == [k \in 1 .. MaxPublishes |-> delivered[k]]
<1>1. PICK m \in Own :
         /\ m.id = p.id /\ p.n \in {0, 1} /\ (delivered[m.n] > 0 <=> p.n = 0)
         /\ IF p.n = 0 THEN completed' = completed \union {m.n} /\ UNCHANGED refused
                       ELSE refused' = refused \union {m.n} /\ UNCHANGED completed
  BY EndChanges
<1>2. Typed /\ Owned
  BY DEF SessionInv, Live
<1>3. /\ m.n \in DOMAIN published /\ published[m.n] # 0
      /\ m.n \notin completed \union refused
  BY <1>2 DEF Owned
<1>4. m.n \in 1 .. MaxPublishes /\ delivered[m.n] \in Nat /\ D[m.n] = delivered[m.n]
  <2>1. DOMAIN published = 1 .. Len(published) /\ Len(published) \in Nat
        /\ Len(published) <= MaxPublishes /\ MaxPublishes \in Nat
        /\ delivered \in [0 .. MaxPublishes -> Nat]
    BY <1>2, LenProperties, SessionAssumption DEF Typed
  <2>2. m.n \in 1 .. MaxPublishes /\ m.n \in 0 .. MaxPublishes
    BY <1>3, <2>1
  <2> QED
    BY <2>1, <2>2
<1>5. D' = D
  OBVIOUS
<1> HIDE DEF D
<1>6. CASE p.n = 0
  <2>1. D[m.n] > 0 /\ completed' = completed \union {m.n} /\ UNCHANGED refused
    BY <1>1, <1>4, <1>6
  <2>2. Outgoing!Complete(m.n)
    BY <1>3, <1>5, <2>1 DEF Outgoing!Complete, D
  <2> QED
    BY <1>3, <2>2 DEF Outgoing!Next
<1>7. CASE p.n = 1
  <2>1. D[m.n] = 0 /\ refused' = refused \union {m.n} /\ UNCHANGED completed
    BY <1>1, <1>4, <1>7
  <2>2. Outgoing!Refuse(m.n)
    BY <1>3, <1>5, <2>1 DEF Outgoing!Refuse, D
  <2> QED
    BY <1>3, <2>2 DEF Outgoing!Next
<1> QED
  BY <1>1, <1>6, <1>7

LEMMA OutgoingAnswer ==
    ASSUME ApartIds, SessionInv, ReceivePubAck \/ ReceivePubComp \/ ReceivePubRec \/ ReceivePubRel
    PROVE  Outgoing!Next \/ UNCHANGED Outgoing!vars
<1>1. /\ Typed /\ connected /\ toClient # <<>> /\ UNCHANGED <<published, delivered>>
  BY DEF SessionInv, ReceivePubAck, ReceivePubComp, ReceivePubRec, ReceivePubRel, Receives,
         outgoingVars
<1>2. PICK p : p = Head(toClient)
  OBVIOUS
<1>3. p \in Arriving /\ p \in Packets
  <2>1. p \in Arriving /\ p \in FromBroker
    BY <1>1, <1>2, HeadTyped, HeadsTyped DEF Arriving, Typed
  <2> QED
    BY <2>1 DEF FromBroker
<1>4. CASE ReceivePubAck \/ ReceivePubComp
  <2>1. EndPublish(Head(toClient)) /\ Head(toClient).type \in {"PUBACK", "PUBCOMP"}
    BY <1>4 DEF ReceivePubAck, ReceivePubComp, Receives
  <2>2. EndPublish(p) /\ p.type \in {"PUBACK", "PUBCOMP"}
    BY <1>2, <2>1 DEF EndPublish, RemoveMessage, Report
  <2> QED
    BY <1>1, <1>3, <2>2, OutgoingEnd
<1>5. CASE ReceivePubRec
  <2>1. p.type = "PUBREC"
    BY <1>2, <1>5 DEF ReceivePubRec, Receives
  <2>2. CASE p.n = 1
    <3>1. EndPublish(Head(toClient))
      BY <1>2, <1>5, <2>2 DEF ReceivePubRec
    <3>2. EndPublish(p)
      BY <1>2, <3>1 DEF EndPublish, RemoveMessage, Report
    <3> QED
      BY <1>1, <1>3, <2>1, <2>2, <3>2, OutgoingEnd
  <2>3. CASE p.n # 1
    <3>1. UNCHANGED <<completed, refused>>
      BY <1>2, <1>5, <2>3 DEF ReceivePubRec
    <3> QED
      BY <1>1, <3>1, OutgoingStutter
  <2> QED
    BY <2>2, <2>3
<1>6. CASE ReceivePubRel
  BY <1>6, OutgoingStutter DEF ReceivePubRel, outgoingVars
<1> QED
  BY <1>4, <1>5, <1>6

\* A step of the session is a step of the promise or none.
LEMMA OutgoingStep ==
    ASSUME CleanSessions, SessionInv, [Next]_vars
    PROVE  [Outgoing!Next]_(Outgoing!vars)
<1> ApartIds
  BY DEF CleanSessions, ApartIds
<1>1. ASSUME NEW qos \in PublishQos, Publish(qos) PROVE Outgoing!Next
  BY <1>1, OutgoingPublish
<1>2. CASE ReceivePubAck \/ ReceivePubComp \/ ReceivePubRec \/ ReceivePubRel
  BY <1>2, OutgoingAnswer
<1>3. CASE BrokerAccepts
  <2>1. Typed'
    BY <1>3, TypedNext DEF CleanSessions, SessionInv, Next, BrokerReceives
  <2> QED
    BY <1>3, <2>1, OutgoingDeliver
<1>4. CASE \/ BeginTick \/ DelayPacket \/ SendPacket \/ EndSend \/ EndReceive
           \/ PendingPublishMessageRetries \/ ReceivePublish
  <2>1. UNCHANGED outgoingVars
    BY <1>4 DEF BeginTick, DelayPacket, SendPacket, EndSend, EndReceive,
                PendingPublishMessageRetries, ReceivePublish
  <2> QED
    BY <2>1, OutgoingStutter DEF outgoingVars
<1>5. CASE TimePasses \/ ConnectionLost
  <2>1. UNCHANGED outgoingVars
    BY <1>5 DEF TimePasses, ConnectionLost
  <2> QED
    BY <2>1, OutgoingStutter DEF outgoingVars
<1>6. ASSUME NEW present \in Resume, Connected(present) PROVE UNCHANGED Outgoing!vars
  <2>1. UNCHANGED outgoingVars
    BY <1>6 DEF Connected
  <2> QED
    BY <2>1, OutgoingStutter DEF outgoingVars
<1>7. CASE BrokerRefuses \/ BrokerReleases \/ BrokerSettles \/ BrokerContinues
  <2>1. UNCHANGED outgoingVars
    BY <1>7 DEF BrokerRefuses, BrokerReleases, BrokerSettles, BrokerContinues
  <2> QED
    BY <2>1, OutgoingStutter DEF outgoingVars
<1>8. ASSUME NEW qos \in IncomingQos, BrokerPublishes(qos) PROVE UNCHANGED Outgoing!vars
  <2>1. UNCHANGED outgoingVars
    BY <1>8 DEF BrokerPublishes
  <2> QED
    BY <2>1, OutgoingStutter DEF outgoingVars
<1>9. CASE UNCHANGED vars
  BY <1>9, OutgoingStutter DEF vars, outgoingVars
<1> QED
  BY <1>1, <1>2, <1>3, <1>4, <1>5, <1>6, <1>7, <1>8, <1>9
     DEF Next, Tick, ReceivePacket, BrokerReceives

\* What the application publishes is delivered as promised: exactly once with QoS 2, at
\* least once with QoS 1 when it is told that the publish is complete, and never when it
\* is told that it was refused.
THEOREM OutgoingDelivered ==
    ASSUME CleanSessions
    PROVE  Spec => OutgoingDelivery
<1> ApartIds
  BY DEF CleanSessions, ApartIds
<1>1. Init => Outgoing!Init
  BY OutgoingInit
<1>2. SessionInv /\ [Next]_vars => [Outgoing!Next]_(Outgoing!vars)
  BY OutgoingStep
<1> QED
  BY <1>1, <1>2, SessionInvariant, PTL DEF Spec, OutgoingDelivery, Outgoing!Spec

LEMMA OnceStep ==
    ASSUME CleanSessions, SessionInv, ExactlyOnce, Typed', [Next]_vars
    PROVE  ExactlyOnce'
<1> ApartIds
  BY DEF CleanSessions, ApartIds
<1> DEFINE D == [k \in 1 .. MaxPublishes |-> delivered[k]]
<1>1. /\ published \in Seq(0 .. 2) /\ Len(published) \in Nat /\ DOMAIN published = 1 .. Len(published)
      /\ Len(published) <= MaxPublishes /\ MaxPublishes \in Nat
      /\ DOMAIN published \subseteq 1 .. MaxPublishes
      /\ \A n \in 1 .. MaxPublishes : n > Len(published) => delivered[n] = 0
  <2>1. published \in Seq(0 .. 2) /\ Len(published) <= MaxPublishes /\ MaxPublishes \in Nat
        /\ \A n \in 1 .. MaxPublishes : n > Len(published) => delivered[n] = 0
    BY SessionAssumption DEF SessionInv, Typed, Pooled
  <2>2. Len(published) \in Nat /\ DOMAIN published = 1 .. Len(published)
    BY <2>1, LenProperties
  <2> QED
    BY <2>1, <2>2
<1>2. DOMAIN published' \subseteq 1 .. MaxPublishes
  <2>1. published' \in Seq(0 .. 2) /\ Len(published') <= MaxPublishes
    BY DEF Typed
  <2>2. Len(published') \in Nat /\ DOMAIN published' = 1 .. Len(published')
    BY <2>1, LenProperties
  <2> QED
    BY <1>1, <2>1, <2>2
<1>3. /\ \A n \in 1 .. MaxPublishes : D[n] = delivered[n] /\ D'[n] = delivered'[n]
      /\ DOMAIN D = 1 .. MaxPublishes
  OBVIOUS
<1> HIDE DEF D
<1>4. ASSUME published' = published, D' = D PROVE ExactlyOnce'
  BY <1>1, <1>3, <1>4 DEF ExactlyOnce
<1>5. CASE UNCHANGED Outgoing!vars
  BY <1>4, <1>5 DEF Outgoing!vars, D
<1>6. ASSUME NEW qos \in 0 .. 2, Outgoing!Publish(qos) PROVE ExactlyOnce'
  <2>1. published' = Append(published, qos) /\ D' = D
    BY <1>6 DEF Outgoing!Publish, D
  <2>2. ASSUME NEW n \in DOMAIN published', published'[n] = 2 PROVE delivered'[n] <= 1
    <3>1. /\ n \in 1 .. Len(published) + 1
          /\ n \in 1 .. Len(published) => published'[n] = published[n]
      BY <1>1, <2>1, AppendProperties
    <3>2. n \in 1 .. MaxPublishes /\ delivered'[n] = delivered[n]
      BY <1>2, <1>3, <2>1
    <3>3. CASE n \in 1 .. Len(published)
      BY <1>1, <2>2, <3>1, <3>2, <3>3 DEF ExactlyOnce
    <3>4. CASE n = Len(published) + 1
      BY <1>1, <3>2, <3>4
    <3> QED
      BY <1>1, <3>1, <3>3, <3>4
  <2> QED
    BY <2>2 DEF ExactlyOnce
<1>7. ASSUME NEW n \in DOMAIN published, Outgoing!Deliver(n) PROVE ExactlyOnce'
  <2>1. /\ published[n] # 1 => D[n] = 0
        /\ D' = [D EXCEPT ![n] = D[n] + 1] /\ published' = published
    BY <1>7 DEF Outgoing!Deliver, D
  <2>2. ASSUME NEW k \in DOMAIN published, published[k] = 2 PROVE delivered'[k] <= 1
    <3>1. k \in 1 .. MaxPublishes /\ D'[k] = IF k = n THEN D[n] + 1 ELSE D[k]
      BY <1>1, <1>3, <2>1
    <3>2. CASE k = n
      BY <1>3, <2>1, <2>2, <3>1, <3>2
    <3>3. CASE k # n
      BY <1>3, <2>2, <3>1, <3>3 DEF ExactlyOnce
    <3> QED
      BY <3>2, <3>3
  <2> QED
    BY <2>1, <2>2 DEF ExactlyOnce
<1>8. ASSUME NEW n \in DOMAIN published, Outgoing!Complete(n) \/ Outgoing!Refuse(n)
      PROVE  ExactlyOnce'
  BY <1>4, <1>8 DEF Outgoing!Complete, Outgoing!Refuse, D
<1> QED
  BY <1>5, <1>6, <1>7, <1>8, OutgoingStep DEF Outgoing!Next

\* "Full QoS support" of README.md:33, as far as it goes: while answers come in time and
\* no session is resumed, no publish with QoS 2 reaches the broker's subscribers twice.
THEOREM NeverDeliveredTwice ==
    ASSUME CleanSessions
    PROVE  Spec => []ExactlyOnce
<1> ApartIds
  BY DEF CleanSessions, ApartIds
<1>1. Init => SessionInv /\ ExactlyOnce
  <2> SUFFICES ASSUME Init PROVE SessionInv /\ ExactlyOnce
    OBVIOUS
  <2>1. DOMAIN published = {}
    BY EmptySeq, LenProperties DEF Init
  <2> QED
    BY <2>1, InvInit DEF ExactlyOnce
<1>2. SessionInv /\ ExactlyOnce /\ [Next]_vars => (SessionInv /\ ExactlyOnce)'
  <2> SUFFICES ASSUME SessionInv, ExactlyOnce, [Next]_vars PROVE (SessionInv /\ ExactlyOnce)'
    OBVIOUS
  <2>1. SessionInv'
    BY InvNext, InvStutter
  <2>2. Typed'
    BY <2>1 DEF SessionInv
  <2> QED
    BY <2>1, <2>2, OnceStep
<1> QED
  BY <1>1, <1>2, PTL DEF Spec

-----------------------------------------------------------------------------
(* The delivery promised for the broker's publishes.                        *)

LEMMA IncomingStutter ==
    ASSUME UNCHANGED <<sent, received, settled>>
    PROVE  UNCHANGED Incoming!vars
BY DEF Incoming!vars

LEMMA IncomingPublish ==
    ASSUME NEW qos \in IncomingQos, BrokerPublishes(qos)
    PROVE  Incoming!Next
<1>1. qos \in 0 .. 2
  BY SessionAssumption
<1>2. Len(sent) < MaxIncoming /\ sent' = Append(sent, qos) /\ UNCHANGED <<received, settled>>
  BY DEF BrokerPublishes
<1>3. Incoming!Publish(qos)
  BY <1>2 DEF Incoming!Publish
<1> QED
  BY <1>1, <1>3 DEF Incoming!Next

\* What arrives is given to the application for the first time.
LEMMA IncomingDeliver ==
    ASSUME ApartIds, SessionInv, Typed', ReceivePublish
    PROVE  Incoming!Next
<1>1. Typed /\ Fits /\ connected /\ ~cutOff /\ toClient # <<>> /\ UNCHANGED <<cutOff, sent, settled>>
  BY InvReceivePublish DEF SessionInv, Live, Places, ReceivePublish, Receives
<1>2. PICK p : p = Head(toClient)
  OBVIOUS
<1>3. p \in Arriving /\ p.type = "PUBLISH"
  BY <1>1, <1>2, HeadTyped DEF Arriving, Typed, ReceivePublish, Receives
<1>4. p.n \in DOMAIN sent /\ received[p.n] = 0
  BY <1>1, <1>3 DEF Fits, ToClientFits
<1>5. received' = [received EXCEPT ![p.n] = @ + 1]
  <2>1. ~ReceiveMaximumExceeded
    BY <1>1 DEF ReceiveMaximumExceeded
  <2>2. FirePublishReceived(Head(toClient))
    BY <2>1 DEF ReceivePublish
  <2> QED
    BY <1>2, <2>2 DEF FirePublishReceived, FireEvent
<1>6. Incoming!Deliver(p.n)
  BY <1>1, <1>4, <1>5 DEF Incoming!Deliver
<1> QED
  BY <1>4, <1>6 DEF Incoming!Next

LEMMA IncomingComplete ==
    ASSUME ApartIds, SessionInv, Typed', BrokerSettles
    PROVE  Incoming!Next
<1>1. UNCHANGED <<sent, received>>
  BY DEF BrokerSettles
<1>2. PICK o \in Promised :
         /\ settled' = settled \union {o.n} /\ o.n \in DOMAIN sent
         /\ sent[o.n] # 0 /\ o.n \notin settled /\ received[o.n] > 0
  BY InvBrokerSettles
<1>3. Incoming!Complete(o.n)
  BY <1>1, <1>2 DEF Incoming!Complete
<1> QED
  BY <1>2, <1>3 DEF Incoming!Next

LEMMA IncomingStep ==
    ASSUME CleanSessions, SessionInv, [Next]_vars
    PROVE  [Incoming!Next]_(Incoming!vars)
<1> ApartIds
  BY DEF CleanSessions, ApartIds
<1>1. ASSUME Next PROVE Typed'
  BY <1>1, TypedNext DEF CleanSessions, SessionInv
<1>2. ASSUME NEW qos \in PublishQos, Publish(qos) PROVE UNCHANGED Incoming!vars
  <2>1. UNCHANGED incomingVars
    BY <1>2 DEF Publish
  <2> QED
    BY <2>1, IncomingStutter DEF incomingVars
<1>3. CASE ReceivePublish
  BY <1>1, <1>3, IncomingDeliver DEF Next, Tick, ReceivePacket
<1>4. CASE ReceivePubAck \/ ReceivePubComp \/ ReceivePubRec \/ ReceivePubRel
  <2>1. UNCHANGED incomingVars
    BY <1>4 DEF ReceivePubAck, ReceivePubComp, ReceivePubRec, ReceivePubRel
  <2> QED
    BY <2>1, IncomingStutter DEF incomingVars
<1>5. CASE \/ BeginTick \/ DelayPacket \/ SendPacket \/ EndSend \/ EndReceive
           \/ PendingPublishMessageRetries
  <2>1. UNCHANGED incomingVars
    BY <1>5 DEF BeginTick, DelayPacket, SendPacket, EndSend, EndReceive,
                PendingPublishMessageRetries
  <2> QED
    BY <2>1, IncomingStutter DEF incomingVars
<1>6. CASE TimePasses \/ ConnectionLost
  <2>1. UNCHANGED incomingVars
    BY <1>6 DEF TimePasses, ConnectionLost
  <2> QED
    BY <2>1, IncomingStutter DEF incomingVars
<1>7. ASSUME NEW present \in Resume, Connected(present) PROVE UNCHANGED Incoming!vars
  <2>1. UNCHANGED incomingVars
    BY <1>7 DEF Connected
  <2> QED
    BY <2>1, IncomingStutter DEF incomingVars
<1>8. CASE BrokerAccepts \/ BrokerRefuses \/ BrokerReleases \/ BrokerContinues
  <2>1. UNCHANGED incomingVars
    BY <1>8 DEF BrokerAccepts, BrokerRefuses, BrokerReleases, BrokerContinues
  <2> QED
    BY <2>1, IncomingStutter DEF incomingVars
<1>9. CASE BrokerSettles
  BY <1>1, <1>9, IncomingComplete DEF Next, BrokerReceives
<1>10. ASSUME NEW qos \in IncomingQos, BrokerPublishes(qos) PROVE Incoming!Next
  BY <1>10, IncomingPublish
<1>11. CASE UNCHANGED vars
  BY <1>11, IncomingStutter DEF vars, incomingVars
<1> QED
  BY <1>2, <1>3, <1>4, <1>5, <1>6, <1>7, <1>8, <1>9, <1>10, <1>11
     DEF Next, Tick, ReceivePacket, BrokerReceives

\* What the broker publishes is given to the application as promised, and complete for
\* the broker only then.
THEOREM IncomingDelivered ==
    ASSUME CleanSessions
    PROVE  Spec => IncomingDelivery
<1> ApartIds
  BY DEF CleanSessions, ApartIds
<1>1. Init => Incoming!Init
  BY DEF Init, Incoming!Init
<1>2. SessionInv /\ [Next]_vars => [Incoming!Next]_(Incoming!vars)
  BY IncomingStep
<1> QED
  BY <1>1, <1>2, SessionInvariant, PTL DEF Spec, IncomingDelivery, Incoming!Spec

-----------------------------------------------------------------------------
(* Sessions that are resumed.                                               *)

\* Every new connection resumes the session, and the application has made its
\* publishes before a connection is lost or an answer is late.
ResumedSessions == ApartIds /\ Resume \subseteq {TRUE} /\ ~PublishLate

\* The packets of either side: the client receives a PUBREL and sends a PUBREC and a
\* PUBCOMP under identifiers of the broker only.
ByClient == {p \in Packets : p.type \in {"PUBREC", "PUBCOMP"} => p.id \in BrokerIds}
ByBroker == {p \in Packets :
                p.type = "PUBREL" \/ (p.type = "PUBLISH" /\ p.qos # 0) => p.id \in BrokerIds}
Unfinished == {o \in Outbound : o.id \in BrokerIds}

Parcels ==
    /\ m_sendQueue \in Seq(ByClient) /\ delayed \in Seq(ByClient) /\ toBroker \in Seq(ByClient)
    /\ toClient \in Seq(ByBroker)
    /\ broker \in [received : SUBSET Nat, outbound : SUBSET Unfinished]
    /\ sent \in Seq(0 .. 2)

Made ==
    /\ published \in Seq(0 .. 2) /\ ids \in Seq(Nat)
    /\ Len(ids) = Len(published) /\ Len(published) <= MaxPublishes

\* A message of the list is of the broker, or a publish under its identifier, which no
\* later publish has taken.
Entry(id, n) ==
    IF n = 0 THEN id \in BrokerIds
    ELSE /\ n \in DOMAIN ids /\ id = ids[n] /\ id \in 1 .. MaxPublishes
         /\ \A k \in DOMAIN ids : k > n => ids[k] # id

Entries(ms) ==
    /\ ms \in Seq(Messages)
    /\ \A i \in DOMAIN ms : /\ Entry(ms[i].id, ms[i].n)
                            /\ ms[i].n # 0 => ms[i].status # "WaitingForPubRel"
    /\ \A i, j \in DOMAIN ms : ms[i].n # 0 /\ ms[i].id = ms[j].id => i = j

Lists(ms, n) == \E i \in DOMAIN ms : ms[i].n = n

\* While the application may publish, the first connection is as in a clean session.
Undisturbed == Len(published) < MaxPublishes => SessionInv /\ connected

Remains == Parcels /\ Made /\ Entries(m_messages) /\ NothingForgotten

Remembered == Remains /\ Undisturbed

\* The client's identifiers are none of the broker's.
LEMMA EntryApart ==
    ASSUME ApartIds, NEW id, NEW n, Entry(id, n), id \in BrokerIds
    PROVE  n = 0
BY DEF Entry, ApartIds

\* A list with the same messages, but for what is to be sent of them.
LEMMA EntriesSame ==
    ASSUME ApartIds, NEW ms, Entries(ms), NEW t \in Seq(Messages), DOMAIN t = DOMAIN ms,
           \A i \in DOMAIN ms :
              /\ t[i].id = ms[i].id /\ t[i].n = ms[i].n
              /\ t[i].status \in {ms[i].status, "WaitingForPubComp", "NeedToSendPubComp"}
                    \/ t[i].id \in BrokerIds
    PROVE  Entries(t) /\ \A n : Lists(ms, n) => Lists(t, n)
<1>1. ASSUME NEW i \in DOMAIN t, t[i].n # 0 PROVE t[i].status # "WaitingForPubRel"
  <2>1. /\ Entry(t[i].id, t[i].n) /\ t[i].n = ms[i].n
        /\ ms[i].n # 0 => ms[i].status # "WaitingForPubRel"
    BY DEF Entries
  <2>2. t[i].id \notin BrokerIds
    BY <1>1, <2>1, EntryApart
  <2> QED
    BY <1>1, <2>1, <2>2
<1> QED
  BY <1>1 DEF Entries, Lists

\* A message behind the others.
LEMMA PushShape ==
    ASSUME NEW ms \in Seq(Messages), NEW m \in Messages
    PROVE  LET t == PushMessage(ms, m) IN
           /\ t \in Seq(Messages) /\ Len(t) = Len(ms) + 1
           /\ \A i \in 1 .. Len(ms) :
                 /\ t[i].id = ms[i].id /\ t[i].n = ms[i].n /\ t[i].status = ms[i].status
                 /\ ~InSession(ms, m.id) => t[i] = ms[i]
           /\ t[Len(ms) + 1] = m
<1>1. PICK n \in Nat : ms \in [1 .. n -> Messages]
  BY LenProperties
<1> DEFINE u == [i \in DOMAIN ms |-> IF IsMessage(ms[i], m.id) THEN [ms[i] EXCEPT !.mapped = FALSE]
                                                               ELSE ms[i]]
<1>2. \A x \in Messages : LET y == [x EXCEPT !.mapped = FALSE] IN
         y \in Messages /\ y.id = x.id /\ y.n = x.n /\ y.status = x.status
  BY DEF Messages
<1>3. u \in [1 .. n -> Messages]
  BY <1>1, <1>2
<1>4. \A i \in 1 .. n : /\ u[i].id = ms[i].id /\ u[i].n = ms[i].n /\ u[i].status = ms[i].status
                        /\ ~InSession(ms, m.id) => u[i] = ms[i]
  BY <1>1, <1>2 DEF InSession
<1>5. PushMessage(ms, m) = Append(u, m)
  BY DEF PushMessage
<1> HIDE DEF u
<1>6. u \in Seq(Messages) /\ Len(u) = n /\ Len(ms) = n
  BY <1>1, <1>3, SeqDef, LenProperties
<1>7. PICK t : t = PushMessage(ms, m)
  OBVIOUS
<1>8. /\ t \in Seq(Messages) /\ Len(t) = n + 1
      /\ \A i \in 1 .. n : t[i] = u[i]
      /\ t[n + 1] = m
  BY <1>5, <1>6, <1>7, AppendProperties
<1> QED
  BY <1>4, <1>6, <1>7, <1>8

\* A publish of the broker is kept.
LEMMA EntriesPushed ==
    ASSUME ApartIds, NEW ms, Entries(ms), NEW m \in Messages, m.n = 0, m.id \in BrokerIds
    PROVE  LET t == PushMessage(ms, m) IN Entries(t) /\ \A n : Lists(ms, n) => Lists(t, n)
<1>1. ms \in Seq(Messages)
  BY DEF Entries
<1>2. PICK t : t = PushMessage(ms, m)
  OBVIOUS
<1>3. /\ t \in Seq(Messages) /\ Len(t) = Len(ms) + 1
      /\ \A i \in 1 .. Len(ms) :
            t[i].id = ms[i].id /\ t[i].n = ms[i].n /\ t[i].status = ms[i].status
      /\ t[Len(ms) + 1] = m
  BY <1>1, <1>2, PushShape
<1>4. /\ Len(ms) \in Nat /\ DOMAIN ms = 1 .. Len(ms) /\ DOMAIN t = 1 .. Len(ms) + 1
  BY <1>1, <1>3, LenProperties
<1>5. \A i \in DOMAIN t : i \in DOMAIN ms \/ t[i] = m
  BY <1>3, <1>4
<1>6. \A i \in DOMAIN t : t[i].n # 0 => i \in DOMAIN ms /\ t[i].id \notin BrokerIds
  <2> TAKE i \in DOMAIN t
  <2> HAVE t[i].n # 0
  <2>1. i \in DOMAIN ms
    BY <1>5
  <2>2. Entry(t[i].id, t[i].n)
    BY <1>3, <1>4, <2>1 DEF Entries
  <2> QED
    BY <2>1, <2>2, EntryApart
<1>7. \A i \in DOMAIN t : Entry(t[i].id, t[i].n)
  BY <1>3, <1>4, <1>5 DEF Entries, Entry
<1>8. \A i \in DOMAIN t : t[i].n # 0 => t[i].status # "WaitingForPubRel"
  BY <1>3, <1>4, <1>6 DEF Entries
<1>9. \A i, j \in DOMAIN t : t[i].n # 0 /\ t[i].id = t[j].id => i = j
  <2> TAKE i, j \in DOMAIN t
  <2> HAVE t[i].n # 0 /\ t[i].id = t[j].id
  <2>1. i \in DOMAIN ms /\ t[j] # m
    BY <1>6
  <2>2. j \in DOMAIN ms
    BY <1>5, <2>1
  <2> QED
    BY <1>3, <1>4, <2>1, <2>2 DEF Entries
<1>10. \A n : Lists(ms, n) => Lists(t, n)
  BY <1>3, <1>4 DEF Lists
<1> QED
  BY <1>2, <1>3, <1>7, <1>8, <1>9, <1>10 DEF Entries

\* A message leaves the list: one under the identifier.
LEMMA EntriesErased ==
    ASSUME NEW ms, Entries(ms), NEW id
    PROVE  LET t == EraseMessage(ms, id) IN
           Entries(t) /\ \A n : Lists(ms, n) => Lists(t, n) \/ Entry(id, n)
<1>1. ms \in Seq(Messages) /\ DOMAIN ms = 1 .. Len(ms) /\ Len(ms) \in Nat
  BY LenProperties DEF Entries
<1>2. PICK t : t = EraseMessage(ms, id)
  OBVIOUS
<1>3. CASE t = ms
  BY <1>2, <1>3
<1>4. ASSUME NEW k \in DOMAIN ms, IsMessage(ms[k], id), t \in Seq(Messages),
             Len(t) = Len(ms) - 1,
             \A i \in 1 .. Len(ms) - 1 : t[i] = IF i < k THEN ms[i] ELSE ms[i + 1]
      PROVE  Entries(t) /\ \A n : Lists(ms, n) => Lists(t, n) \/ Entry(id, n)
  <2>1. DOMAIN t = 1 .. Len(ms) - 1
    BY <1>4, LenProperties
  <2> DEFINE at(i) == IF i < k THEN i ELSE i + 1
             back(i) == IF i < k THEN i ELSE i - 1
  <2>2. \A i \in DOMAIN t : at(i) \in DOMAIN ms /\ t[i] = ms[at(i)]
    BY <1>1, <1>4, <2>1
  <2>3. \A i, j \in DOMAIN t : at(i) = at(j) => i = j
    BY <1>1, <2>1
  <2>4. \A j \in DOMAIN ms : j # k => back(j) \in DOMAIN t /\ at(back(j)) = j
    BY <1>1, <2>1
  <2>5. Entry(id, ms[k].n)
    BY <1>4 DEF IsMessage, Entries
  <2> HIDE DEF at, back
  <2>6. Entries(t)
    BY <1>4, <2>2, <2>3 DEF Entries
  <2>7. \A j \in DOMAIN ms : ms[j].n = ms[k].n \/ \E i \in DOMAIN t : t[i] = ms[j]
    BY <2>2, <2>4
  <2>8. \A n : Lists(ms, n) => Lists(t, n) \/ Entry(id, n)
    BY <2>5, <2>7 DEF Lists
  <2> QED
    BY <2>6, <2>8
<1>5. \/ t = ms /\ ~InSession(ms, id)
      \/ \E k \in DOMAIN ms :
            /\ IsMessage(ms[k], id) /\ t \in Seq(Messages) /\ Len(t) = Len(ms) - 1
            /\ \A i \in 1 .. Len(ms) - 1 : t[i] = IF i < k THEN ms[i] ELSE ms[i + 1]
  BY <1>1, <1>2, EraseShape
<1> QED
  BY <1>2, <1>3, <1>4, <1>5

\* The first messages of a list, merged into a new one.
Merged(ms, i, acc) ==
    /\ acc \in Seq(Messages)
    /\ \A x \in DOMAIN acc :
          /\ acc[x].mapped /\ acc[x].status # "WaitingForPubRel"
          /\ \E j \in 1 .. i : acc[x].id = ms[j].id /\ acc[x].n = ms[j].n
    /\ \A x, y \in DOMAIN acc : acc[x].id = acc[y].id => x = y
    /\ \A j \in 1 .. i : ms[j].n # 0 => Lists(acc, ms[j].n)

LEMMA MergedOne ==
    ASSUME NEW ms, Entries(ms), NEW i \in Nat, i + 1 \in DOMAIN ms, NEW acc, Merged(ms, i, acc),
           NEW m \in Messages, m.id = ms[i + 1].id, m.n = ms[i + 1].n, m.mapped,
           m.status # "WaitingForPubRel"
    PROVE  Merged(ms, i + 1, IF InSession(acc, m.id) THEN acc ELSE PushMessage(acc, m))
<1>1. /\ acc \in Seq(Messages) /\ Len(acc) \in Nat /\ DOMAIN acc = 1 .. Len(acc)
      /\ ms \in Seq(Messages) /\ Len(ms) \in Nat /\ DOMAIN ms = 1 .. Len(ms)
  BY LenProperties DEF Merged, Entries
<1>2. /\ \A j \in 1 .. i : j \in 1 .. i + 1 /\ j \in DOMAIN ms /\ j # i + 1
      /\ \A j \in 1 .. i + 1 : j \in 1 .. i \/ j = i + 1
      /\ i + 1 \in 1 .. i + 1
  BY <1>1
<1>3. CASE InSession(acc, m.id)
  <2>1. PICK x \in DOMAIN acc : acc[x].id = m.id
    BY <1>3 DEF InSession, IsMessage
  <2>2. PICK j \in 1 .. i : acc[x].id = ms[j].id
    BY DEF Merged
  <2>3. ms[i + 1].n = 0
    BY <1>2, <2>1, <2>2 DEF Entries
  <2>4. Merged(ms, i + 1, acc)
    BY <1>2, <2>3 DEF Merged
  <2> QED
    BY <1>3, <2>4
<1>4. CASE ~InSession(acc, m.id)
  <2>1. PICK t : t = PushMessage(acc, m)
    OBVIOUS
  <2>2. /\ t \in Seq(Messages) /\ DOMAIN t = 1 .. Len(acc) + 1
        /\ \A x \in 1 .. Len(acc) : t[x] = acc[x]
        /\ t[Len(acc) + 1] = m
    <3>1. /\ t \in Seq(Messages) /\ Len(t) = Len(acc) + 1
          /\ \A x \in 1 .. Len(acc) : t[x] = acc[x]
          /\ t[Len(acc) + 1] = m
      BY <1>1, <1>4, <2>1, PushShape
    <3> QED
      BY <3>1, LenProperties
  <2>3. \A x \in DOMAIN t : (x \in DOMAIN acc /\ t[x] = acc[x]) \/ (x = Len(acc) + 1 /\ t[x] = m)
    BY <1>1, <2>2
  <2>4. /\ \A x \in DOMAIN acc : x \in DOMAIN t /\ t[x] = acc[x]
        /\ Len(acc) + 1 \in DOMAIN t
    BY <1>1, <2>2
  <2>5. \A x \in DOMAIN acc : acc[x].id # m.id
    BY <1>4 DEF InSession, IsMessage, Merged
  <2>6. ASSUME NEW x \in DOMAIN t
        PROVE  /\ t[x].mapped /\ t[x].status # "WaitingForPubRel"
               /\ \E j \in 1 .. i + 1 : t[x].id = ms[j].id /\ t[x].n = ms[j].n
    <3>1. CASE x \in DOMAIN acc /\ t[x] = acc[x]
      BY <1>2, <3>1 DEF Merged
    <3>2. CASE t[x] = m
      BY <1>2, <3>2
    <3> QED
      BY <2>3, <3>1, <3>2
  <2>7. \A x, y \in DOMAIN t : t[x].id = t[y].id => x = y
    BY <2>3, <2>5 DEF Merged
  <2>8. ASSUME NEW j \in 1 .. i + 1, ms[j].n # 0 PROVE Lists(t, ms[j].n)
    <3>1. CASE j \in 1 .. i
      <4>1. PICK x \in DOMAIN acc : acc[x].n = ms[j].n
        BY <2>8, <3>1 DEF Merged, Lists
      <4> QED
        BY <2>4, <4>1 DEF Lists
    <3>2. CASE j = i + 1
      BY <2>2, <2>4, <3>2 DEF Lists
    <3> QED
      BY <1>2, <3>1, <3>2
  <2>9. Merged(ms, i + 1, t)
    BY <2>2, <2>6, <2>7, <2>8 DEF Merged
  <2> QED
    BY <1>4, <2>1, <2>9
<1> QED
  BY <1>3, <1>4

\* A resumed session has the messages of the one before.
LEMMA EntriesRestored ==
    ASSUME NEW ms, Entries(ms)
    PROVE  Entries(Restored(ms)) /\ \A n : n # 0 /\ Lists(ms, n) => Lists(Restored(ms), n)
<1> DEFINE len == Len(ms)
           again == [i \in DOMAIN ms |-> NewMessage(ms[i].id, ms[i].n, ms[i].qos, 0)]
           S == Seq(Messages)
           With(acc, m) == IF InSession(acc, m.id) THEN acc ELSE PushMessage(acc, m)
           F == [i \in Nat |-> [acc \in S |-> IF i \in 1 .. len THEN With(acc, again[i]) ELSE acc]]
           Is(f) == f = [i \in 0 .. len |->
                            IF i = 0 THEN <<>>
                            ELSE IF InSession(f[i - 1], again[i].id) THEN f[i - 1]
                            ELSE PushMessage(f[i - 1], again[i])]
           g == CHOOSE f : Is(f)
<1>1. ms \in Seq(Messages) /\ len \in Nat /\ DOMAIN ms = 1 .. len /\ <<>> \in S
  BY LenProperties, EmptySeq DEF Entries
<1>2. Restored(ms) = g[len]
  BY DEF Restored
<1>3. \A i \in 1 .. len :
         /\ again[i] \in Messages /\ again[i].id = ms[i].id /\ again[i].n = ms[i].n
         /\ again[i].mapped /\ again[i].status # "WaitingForPubRel"
  <2> TAKE i \in 1 .. len
  <2>1. ms[i] \in Messages /\ 0 \in 0 .. RetryInterval
    BY <1>1, ElementOfSeq, SessionAssumption
  <2>2. again[i] = NewMessage(ms[i].id, ms[i].n, ms[i].qos, 0)
    BY <1>1
  <2> HIDE DEF again
  <2> QED
    BY <2>1, <2>2 DEF NewMessage, Messages
<1> HIDE DEF again
<1>4. \A i \in 1 .. len : \A acc \in S : With(acc, again[i]) \in S
  BY <1>3, PushTyped
<1>5. \A i \in Nat : \A acc \in S : F[i][acc] = IF i \in 1 .. len THEN With(acc, again[i]) ELSE acc
  BY Zenon
<1> HIDE DEF S, With
<1>6. F \in [Nat -> [S -> S]]
  BY <1>4
<1> HIDE DEF F
<1>7. \A i \in 1 .. len : i \in Nat /\ i # 0 /\ i - 1 \in 0 .. len
  BY <1>1
<1>8. \E f : Is(f)
  <2>1. PICK f \in [0 .. len -> S] : f[0] = <<>> /\ \A i \in 1 .. len : f[i] = F[i][f[i - 1]]
    <3>1. len \in Nat
      BY <1>1
    <3> HIDE DEF len
    <3>2. ASSUME NEW b \in S
          PROVE  \E f \in [0 .. len -> S] : f[0] = b /\ \A i \in 1 .. len : f[i] = F[i][f[i - 1]]
      BY <1>6, <3>1, FunctionByRecursion
    <3> QED
      BY <1>1, <3>2
  <2>2. \A i \in 1 .. len : f[i] = With(f[i - 1], again[i])
    BY <1>5, <1>7, <2>1
  <2>3. Is(f)
    BY <2>1, <2>2 DEF With
  <2> QED
    BY <2>3
<1>9. Is(g)
  BY <1>8
<1> HIDE DEF g
<1>10. \A i \in 0 .. len : g[i] = IF i = 0 THEN <<>> ELSE With(g[i - 1], again[i])
  <2> DEFINE h == [i \in 0 .. len |->
                            IF i = 0 THEN <<>>
                            ELSE IF InSession(g[i - 1], again[i].id) THEN g[i - 1]
                            ELSE PushMessage(g[i - 1], again[i])]
  <2>1. \A i \in 0 .. len : h[i] = IF i = 0 THEN <<>> ELSE With(g[i - 1], again[i])
    BY DEF With
  <2>2. g = h
    BY <1>9
  <2> HIDE DEF h
  <2> QED
    BY <2>1, <2>2
<1> DEFINE T == {i \in Nat : i \in 0 .. len => Merged(ms, i, g[i])}
<1>11. T = Nat
  <2>1. 0 \in T
    <3>1. g[0] = <<>> /\ DOMAIN <<>> = {} /\ 1 .. 0 = {}
      BY <1>1, <1>10
    <3>2. <<>> \in Seq(Messages)
      BY EmptySeq
    <3> QED
      BY <3>1, <3>2 DEF Merged
  <2>2. ASSUME NEW i \in T PROVE i + 1 \in T
    <3>1. SUFFICES ASSUME i + 1 \in 0 .. len PROVE Merged(ms, i + 1, g[i + 1])
      OBVIOUS
    <3>2. i + 1 \in 1 .. len /\ i + 1 # 0 /\ i + 1 - 1 = i /\ i \in 0 .. len /\ i \in Nat
      BY <3>1
    <3>3. g[i + 1] = With(g[i], again[i + 1])
      BY <1>10, <3>1, <3>2
    <3>4. Merged(ms, i, g[i])
      BY <3>2
    <3>5. i + 1 \in DOMAIN ms
      BY <1>1, <3>2
    <3>6. PICK m \in Messages : m = again[i + 1]
      BY <1>3, <3>2
    <3>7. m.id = ms[i + 1].id /\ m.n = ms[i + 1].n /\ m.mapped /\ m.status # "WaitingForPubRel"
      BY <1>3, <3>2, <3>6
    <3> HIDE DEF T
    <3>8. Merged(ms, i + 1, With(g[i], m))
      BY <3>2, <3>4, <3>5, <3>7, MergedOne DEF With
    <3> QED
      BY <3>3, <3>6, <3>8
  <2> HIDE DEF T
  <2>3. T \in SUBSET Nat
    BY DEF T
  <2> QED
    BY <2>1, <2>2, <2>3, Induction
<1>12. len \in T /\ len \in 0 .. len
  BY <1>1, <1>11
<1>13. Merged(ms, len, g[len])
  BY <1>12
<1>14. PICK t : t = Restored(ms)
  OBVIOUS
<1>15. Merged(ms, len, t)
  BY <1>2, <1>13, <1>14
<1>16. Entries(t)
  BY <1>1, <1>15 DEF Merged, Entries
<1>17. \A n : n # 0 /\ Lists(ms, n) => Lists(t, n)
  BY <1>1, <1>15 DEF Merged, Lists
<1> QED
  BY <1>14, <1>16, <1>17

\* A step that leaves the publishes made: each message it takes off the list is one the
\* application hears of.
LEMMA MessagesStep ==
    ASSUME Made, NothingForgotten, UNCHANGED <<published, ids>>,
           completed \subseteq completed', refused \subseteq refused',
           NEW t, m_messages' = t, Entries(t),
           \A n : n # 0 /\ Lists(m_messages, n) => Lists(t, n) \/ n \in completed' \union refused'
    PROVE  Made' /\ Entries(m_messages)' /\ NothingForgotten'
<1>1. Made'
  BY DEF Made
<1>2. Entries(m_messages)'
  BY DEF Entries, Entry
<1>3. \A n \in DOMAIN published : n # 0
  BY LenProperties DEF Made
<1>4. NothingForgotten'
  <2> SUFFICES ASSUME NEW n \in DOMAIN published, published[n] # 0
               PROVE  n \in completed' \union refused' \/ Lists(t, n)
    BY DEF NothingForgotten, Lists
  <2>1. n \in completed \union refused \/ Lists(m_messages, n)
    BY DEF NothingForgotten, Lists
  <2> QED
    BY <1>3, <2>1
<1> QED
  BY <1>1, <1>2, <1>4

\* A step that leaves the list alone too.
LEMMA MessagesStay ==
    ASSUME Made, Entries(m_messages), NothingForgotten,
           UNCHANGED <<published, ids, completed, refused, m_messages>>
    PROVE  Made' /\ Entries(m_messages)' /\ NothingForgotten'
<1>1. PICK t : t = m_messages
  OBVIOUS
<1> QED
  BY <1>1, MessagesStep

\* The first packets of the queues and what follows them.
LEMMA ParcelHeads ==
    ASSUME Parcels
    PROVE  /\ m_sendQueue # <<>> => Head(m_sendQueue) \in ByClient /\ Tail(m_sendQueue) \in Seq(ByClient)
           /\ toBroker # <<>> => Head(toBroker) \in ByClient /\ Tail(toBroker) \in Seq(ByClient)
           /\ toClient # <<>> => Head(toClient) \in ByBroker /\ Tail(toClient) \in Seq(ByBroker)
BY HeadTyped DEF Parcels

LEMMA ParcelAppends ==
    ASSUME Parcels
    PROVE  /\ \A p \in ByClient : /\ Append(m_sendQueue, p) \in Seq(ByClient)
                                  /\ Append(delayed, p) \in Seq(ByClient)
                                  /\ Append(toBroker, p) \in Seq(ByClient)
           /\ \A p \in ByBroker : Append(toClient, p) \in Seq(ByBroker)
BY AppendProperties DEF Parcels

LEMMA ParcelAnswers ==
    ASSUME NEW id \in Nat
    PROVE  /\ Answer("PUBACK", id) \in ByClient /\ Answer("PUBREL", id) \in ByClient
           /\ id \in BrokerIds => Answer("PUBREC", id) \in ByClient /\ Answer("PUBCOMP", id) \in ByClient
           /\ Answer("PUBACK", id) \in ByBroker /\ Answer("PUBREC", id) \in ByBroker
           /\ Answer("PUBCOMP", id) \in ByBroker
           /\ Failed("PUBACK", id) \in ByBroker /\ Failed("PUBREC", id) \in ByBroker
           /\ id \in BrokerIds => Answer("PUBREL", id) \in ByBroker
BY DEF Answer, Failed, Packet, ByClient, ByBroker, Packets

\* The tick: what changes only where packets wait.
LEMMA RemainsTick ==
    ASSUME ApartIds, Remains,
           BeginTick \/ DelayPacket \/ EndSend \/ EndReceive \/ PendingPublishMessageRetries
    PROVE  Remains'
<1>1. Parcels /\ Made /\ Entries(m_messages) /\ NothingForgotten
  BY DEF Remains
<1>2. UNCHANGED <<clientVars, wireVars, broker, outgoingVars, incomingVars>>
  BY DEF BeginTick, DelayPacket, EndSend, EndReceive, PendingPublishMessageRetries
<1>3. UNCHANGED <<m_messages, toBroker, toClient, broker, published, ids, completed, refused, sent>>
  BY <1>2 DEF clientVars, wireVars, outgoingVars, incomingVars
<1>4. Made' /\ Entries(m_messages)' /\ NothingForgotten'
  BY <1>1, <1>3, MessagesStay
<1>5. m_sendQueue' \in Seq(ByClient) /\ delayed' \in Seq(ByClient)
  <2>1. CASE BeginTick \/ EndReceive
    BY <1>1, <2>1 DEF BeginTick, EndReceive, queueVars, Parcels
  <2>2. CASE DelayPacket
    <3>1. Head(m_sendQueue) \in ByClient /\ Tail(m_sendQueue) \in Seq(ByClient)
      BY <1>1, <2>2, ParcelHeads DEF DelayPacket
    <3> QED
      BY <1>1, <2>2, <3>1, ParcelAppends DEF DelayPacket
  <2>3. CASE EndSend
    BY <1>1, <2>3, EmptySeq DEF EndSend, Parcels
  <2>4. CASE PendingPublishMessageRetries
    <3>1. m_sendQueue' = m_sendQueue \o FlattenSeq([i \in Due |-> Retry(m_messages[i])])
          /\ delayed' = delayed
      BY <2>4 DEF PendingPublishMessageRetries, RetryMessages
    <3>2. m_messages \in Seq(Messages)
      BY <1>1 DEF Entries
    <3>3. ASSUME NEW i \in DOMAIN m_messages PROVE Retry(m_messages[i]) \in Seq(ByClient)
      <4>1. PICK m \in Messages : m = m_messages[i]
        BY <3>2, ElementOfSeq, LenProperties
      <4>2. m.status = "WaitingForPubRel" => m.id \in BrokerIds
        BY <1>1, <4>1 DEF Entries, Entry
      <4>3. m.id \in Nat /\ m.n \in Nat /\ m.qos \in 0 .. 2
        BY SessionAssumption DEF Messages
      <4>4. Packet("PUBLISH", m.id, m.n, m.qos) \in ByClient
        BY <4>3 DEF Packet, ByClient, Packets
      <4>5. \A p \in ByClient : <<p>> \in Seq(ByClient)
        OBVIOUS
      <4>6. <<>> \in Seq(ByClient)
        BY EmptySeq
      <4>7. \/ Retry(m) \in {<<Packet("PUBLISH", m.id, m.n, m.qos)>>, <<Answer("PUBREL", m.id)>>, <<>>}
            \/ m.status = "WaitingForPubRel" /\ Retry(m) = <<Answer("PUBREC", m.id)>>
        BY Zenon DEF Retry
      <4>8. Retry(m) \in Seq(ByClient)
        BY <4>2, <4>3, <4>4, <4>5, <4>6, <4>7, ParcelAnswers
      <4> QED
        BY <4>1, <4>8
    <3>4. PICK new : new = FlattenSeq([i \in Due |-> Retry(m_messages[i])])
      OBVIOUS
    <3>5. new \in Seq(ByClient)
      BY <3>2, <3>3, <3>4, RetriesFlat
    <3> QED
      BY <1>1, <3>1, <3>4, <3>5, ConcatProperties DEF Parcels
  <2> QED
    BY <2>1, <2>2, <2>3, <2>4
<1>6. Parcels'
  BY <1>1, <1>3, <1>5 DEF Parcels
<1> QED
  BY <1>4, <1>6 DEF Remains

\* The status a message gets when its packet is sent or received.
LEMMA RemainsUpdate ==
    ASSUME ApartIds, Made, Entries(m_messages), NothingForgotten,
           UNCHANGED <<published, ids, completed, refused>>,
           NEW id, NEW status \in Statuses, UpdateMessage(id, status),
           status \in {"WaitingForPubComp", "NeedToSendPubComp"} \/ id \in BrokerIds
    PROVE  Made' /\ Entries(m_messages)' /\ NothingForgotten'
<1>1. m_messages \in Seq(Messages)
  BY DEF Entries
<1>2. CASE ~InSession(m_messages, id)
  BY <1>2, MessagesStay DEF UpdateMessage
<1>3. CASE InSession(m_messages, id)
  <2>1. m_messages' \in Seq(Messages)
    BY <1>1, UpdateTyped
  <2> DEFINE new(x) == [x EXCEPT !.status = status, !.retryIn = RetryInterval]
  <2>2. \A x \in Messages : new(x).id = x.id /\ new(x).n = x.n /\ new(x).status = status
    BY DEF Messages
  <2>3. m_messages' = [i \in DOMAIN m_messages |->
                IF IsMessage(m_messages[i], id) THEN new(m_messages[i]) ELSE m_messages[i]]
    BY <1>3 DEF UpdateMessage
  <2> HIDE DEF new
  <2>4. PICK t : t = m_messages'
    OBVIOUS
  <2>5. \A i \in DOMAIN m_messages : m_messages[i] \in Messages
    BY <1>1, ElementOfSeq, LenProperties
  <2>6. DOMAIN t = DOMAIN m_messages /\ t \in Seq(Messages)
    BY <2>1, <2>3, <2>4
  <2>7. \A i \in DOMAIN m_messages :
           /\ t[i].id = m_messages[i].id /\ t[i].n = m_messages[i].n
           /\ t[i].status = m_messages[i].status \/ (t[i].status = status /\ t[i].id = id)
    BY <2>2, <2>3, <2>4, <2>5 DEF IsMessage
  <2>8. Entries(t) /\ \A n : Lists(m_messages, n) => Lists(t, n)
    BY <2>6, <2>7, EntriesSame
  <2> QED
    BY <2>4, <2>8, MessagesStep
<1> QED
  BY <1>2, <1>3

LEMMA KnownEntry ==
    ASSUME Made, NEW id, NEW n, n # 0, Entry(id, n)
    PROVE  n \in Known(id)
<1>1. \A k \in DOMAIN ids : k \in Nat
  BY LenProperties DEF Made
<1> QED
  BY <1>1 DEF Known, Entry

\* A message that leaves the list is the broker's, or one the application hears of.
LEMMA RemainsRemove ==
    ASSUME ApartIds, Made, Entries(m_messages), NothingForgotten,
           UNCHANGED <<published, ids>>,
           completed \subseteq completed', refused \subseteq refused',
           NEW id, m_messages' = EraseMessage(m_messages, id),
           id \in BrokerIds \/ Known(id) \subseteq completed' \union refused'
    PROVE  Made' /\ Entries(m_messages)' /\ NothingForgotten'
<1>1. PICK t : t = EraseMessage(m_messages, id)
  OBVIOUS
<1>2. Entries(t) /\ \A n : Lists(m_messages, n) => Lists(t, n) \/ Entry(id, n)
  BY <1>1, EntriesErased
<1>3. \A n : n # 0 /\ Entry(id, n) => n \in completed' \union refused'
  BY EntryApart, KnownEntry
<1>4. \A n : n # 0 /\ Lists(m_messages, n) => Lists(t, n) \/ n \in completed' \union refused'
  BY <1>2, <1>3
<1> QED
  BY <1>1, <1>2, <1>4, MessagesStep

LEMMA RemainsSendPacket ==
    ASSUME ApartIds, Remains, SendPacket
    PROVE  Remains'
<1>1. Parcels /\ Made /\ Entries(m_messages) /\ NothingForgotten
  BY DEF Remains
<1>2. PICK p \in ByClient : p = Head(m_sendQueue) /\ Tail(m_sendQueue) \in Seq(ByClient)
  BY <1>1, ParcelHeads DEF SendPacket
<1>3. /\ AfterSent(p) /\ toBroker' = Append(toBroker, p) /\ m_sendQueue' = Tail(m_sendQueue)
      /\ UNCHANGED <<delayed, toClient, broker, published, ids, completed, refused, sent>>
  BY <1>2 DEF SendPacket, outgoingVars, incomingVars
<1>4. Parcels'
  BY <1>1, <1>2, <1>3, ParcelAppends DEF Parcels
<1>5. Made' /\ Entries(m_messages)' /\ NothingForgotten'
  <2>1. CASE p.type = "PUBREC"
    <3>1. UpdateMessage(p.id, "WaitingForPubRel")
      BY <1>3, <2>1 DEF AfterSent
    <3>2. p.id \in BrokerIds
      BY <2>1 DEF ByClient
    <3> QED
      BY <1>1, <1>3, <3>1, <3>2, RemainsUpdate DEF Statuses
  <2>2. CASE p.type = "PUBREL"
    <3>1. UpdateMessage(p.id, "WaitingForPubComp")
      BY <1>3, <2>2 DEF AfterSent
    <3> QED
      BY <1>1, <1>3, <3>1, RemainsUpdate DEF Statuses
  <2>3. CASE p.type = "PUBCOMP"
    <3>1. m_messages' = EraseMessage(m_messages, p.id)
      BY <1>3, <2>3 DEF AfterSent, RemoveMessage
    <3>2. p.id \in BrokerIds
      BY <2>3 DEF ByClient
    <3> QED
      BY <1>1, <1>3, <3>1, <3>2, RemainsRemove
  <2>4. CASE p.type \notin {"PUBREC", "PUBREL", "PUBCOMP"}
    <3>1. UNCHANGED m_messages
      BY <1>3, <2>4 DEF AfterSent
    <3> QED
      BY <1>1, <1>3, <3>1, MessagesStay
  <2> QED
    BY <2>1, <2>2, <2>3, <2>4
<1> QED
  BY <1>4, <1>5 DEF Remains

LEMMA RemainsLose ==
    ASSUME Remains, LoseConnection,
           UNCHANGED <<m_messages, broker, published, ids, completed, refused, sent>>
    PROVE  Remains'
<1>1. Parcels /\ Made /\ Entries(m_messages) /\ NothingForgotten
  BY DEF Remains
<1>2. Made' /\ Entries(m_messages)' /\ NothingForgotten'
  BY <1>1, MessagesStay
<1>3. m_sendQueue' = <<>> /\ toBroker' = <<>> /\ toClient' = <<>> /\ UNCHANGED delayed
  BY DEF LoseConnection
<1>4. /\ m_sendQueue' \in Seq(ByClient) /\ toBroker' \in Seq(ByClient)
      /\ toClient' \in Seq(ByBroker)
  BY <1>3, EmptySeq
<1>5. Parcels'
  BY <1>1, <1>3, <1>4 DEF Parcels
<1> QED
  BY <1>2, <1>5 DEF Remains

LEMMA RemainsReceivePublish ==
    ASSUME ApartIds, Remains, ReceivePublish
    PROVE  Remains'
<1>1. Parcels /\ Made /\ Entries(m_messages) /\ NothingForgotten
  BY DEF Remains
<1>2. PICK p \in ByBroker : p = Head(toClient) /\ Tail(toClient) \in Seq(ByBroker)
  BY <1>1, ParcelHeads DEF ReceivePublish, Receives
<1>3. /\ p.type = "PUBLISH" /\ p.id \in Nat /\ p.qos \in 0 .. 2
      /\ p.qos # 0 => p.id \in BrokerIds
      /\ UNCHANGED <<broker, published, ids, completed, refused, sent>>
  BY <1>2 DEF ReceivePublish, Receives, ByBroker, Packets, outgoingVars
<1>4. CASE ReceiveMaximumExceeded
  BY <1>3, <1>4, RemainsLose DEF ReceiveMaximumExceeded
<1>5. CASE FirePublishReceived(p)
  <2>1. AcknowledgePublish(p) /\ toClient' = Tail(toClient) /\ UNCHANGED <<toBroker, delayed>>
    BY <1>5 DEF FirePublishReceived, TakePacket
  <2>2. m_sendQueue' \in Seq(ByClient) /\ Made' /\ Entries(m_messages)' /\ NothingForgotten'
    <3>1. CASE p.qos = 0
      <4>1. UNCHANGED <<m_sendQueue, m_messages>>
        BY <2>1, <3>1 DEF AcknowledgePublish
      <4> QED
        BY <1>1, <1>3, <4>1, MessagesStay DEF Parcels
    <3>2. CASE p.qos = 1
      <4>1. m_sendQueue' = Append(m_sendQueue, Answer("PUBACK", p.id)) /\ UNCHANGED m_messages
        BY <2>1, <3>2 DEF AcknowledgePublish, AddToQueue
      <4>2. m_sendQueue' \in Seq(ByClient)
        BY <1>1, <1>3, <4>1, ParcelAppends, ParcelAnswers
      <4> QED
        BY <1>1, <1>3, <4>1, <4>2, MessagesStay
    <3>3. CASE p.qos = 2
      <4>1. /\ m_sendQueue' = Append(m_sendQueue, Answer("PUBREC", p.id))
            /\ m_messages' = PushMessage(m_messages, NewMessage(p.id, 0, 0, RetryInterval))
        BY <2>1, <3>3 DEF AcknowledgePublish, AddToQueue
      <4>2. p.id \in BrokerIds
        BY <1>3, <3>3
      <4>3. m_sendQueue' \in Seq(ByClient)
        BY <1>1, <1>3, <4>1, <4>2, ParcelAppends, ParcelAnswers
      <4>4. PICK m : m = NewMessage(p.id, 0, 0, RetryInterval)
        OBVIOUS
      <4>5. m \in Messages /\ m.n = 0 /\ m.id = p.id
        <5>1. p.id \in Nat \ {0}
          BY <4>2, ConstantTypes
        <5>2. RetryInterval \in 0 .. RetryInterval /\ 0 \in 0 .. MaxPublishes /\ 0 \in 0 .. 2
          BY SessionAssumption
        <5> QED
          BY <4>4, <5>1, <5>2 DEF NewMessage, Messages
      <4>6. PICK t : t = PushMessage(m_messages, m)
        OBVIOUS
      <4>7. Entries(t) /\ \A n : Lists(m_messages, n) => Lists(t, n)
        BY <1>1, <4>2, <4>5, <4>6, EntriesPushed
      <4> QED
        BY <1>1, <1>3, <4>1, <4>3, <4>4, <4>6, <4>7, MessagesStep
    <3> QED
      BY <1>3, <3>1, <3>2, <3>3
  <2>3. Parcels'
    BY <1>1, <1>2, <1>3, <2>1, <2>2 DEF Parcels
  <2> QED
    BY <2>2, <2>3 DEF Remains
<1>6. ReceiveMaximumExceeded \/ FirePublishReceived(p)
  BY <1>2 DEF ReceivePublish
<1> QED
  BY <1>4, <1>5, <1>6

LEMMA RemainsReceiveAnswer ==
    ASSUME ApartIds, Remains, ReceivePubAck \/ ReceivePubComp \/ ReceivePubRec \/ ReceivePubRel
    PROVE  Remains'
<1>1. Parcels /\ Made /\ Entries(m_messages) /\ NothingForgotten
  BY DEF Remains
<1>2. PICK p \in ByBroker : p = Head(toClient) /\ Tail(toClient) \in Seq(ByBroker)
  BY <1>1, ParcelHeads DEF ReceivePubAck, ReceivePubComp, ReceivePubRec, ReceivePubRel, Receives
<1>3. /\ toClient' = Tail(toClient) /\ UNCHANGED <<toBroker, delayed, broker, published, ids, sent>>
  BY DEF ReceivePubAck, ReceivePubComp, ReceivePubRec, ReceivePubRel, TakePacket,
         outgoingVars, incomingVars
<1>4. p.id \in Nat
  BY DEF ByBroker, Packets
<1>5. m_sendQueue' \in Seq(ByClient) /\ Made' /\ Entries(m_messages)' /\ NothingForgotten'
  <2>1. CASE EndPublish(p)
    <3>1. /\ m_messages' = EraseMessage(m_messages, p.id) /\ UNCHANGED m_sendQueue
          /\ completed \subseteq completed' /\ refused \subseteq refused'
          /\ Known(p.id) \subseteq completed' \union refused'
      BY <2>1 DEF EndPublish, RemoveMessage, Report
    <3> QED
      BY <1>1, <1>3, <3>1, RemainsRemove DEF Parcels
  <2>2. CASE /\ m_sendQueue' = Append(m_sendQueue, Answer("PUBREL", p.id))
             /\ UNCHANGED <<m_messages, completed, refused>>
    <3>1. m_sendQueue' \in Seq(ByClient)
      BY <1>1, <1>4, <2>2, ParcelAppends, ParcelAnswers
    <3> QED
      BY <1>1, <1>3, <2>2, <3>1, MessagesStay
  <2>3. CASE ReceivePubRel
    <3>1. /\ UpdateMessage(p.id, "NeedToSendPubComp") /\ UNCHANGED <<completed, refused>>
          /\ m_sendQueue' = Append(m_sendQueue, Answer("PUBCOMP", p.id)) /\ p.type = "PUBREL"
      BY <1>2, <2>3 DEF ReceivePubRel, Receives, AddToQueue, outgoingVars
    <3>2. p.id \in BrokerIds
      BY <3>1 DEF ByBroker
    <3>3. m_sendQueue' \in Seq(ByClient)
      BY <1>1, <1>4, <3>1, <3>2, ParcelAppends, ParcelAnswers
    <3>4. Made' /\ Entries(m_messages)' /\ NothingForgotten'
      BY <1>1, <1>3, <3>1, RemainsUpdate DEF Statuses
    <3> QED
      BY <3>3, <3>4
  <2>4. \/ EndPublish(p) \/ ReceivePubRel
        \/ /\ m_sendQueue' = Append(m_sendQueue, Answer("PUBREL", p.id))
           /\ UNCHANGED <<m_messages, completed, refused>>
    BY <1>2 DEF ReceivePubAck, ReceivePubComp, ReceivePubRec, AddToQueue
  <2> QED
    BY <2>1, <2>2, <2>3, <2>4
<1>6. Parcels'
  BY <1>1, <1>2, <1>3, <1>5 DEF Parcels
<1> QED
  BY <1>5, <1>6 DEF Remains

LEMMA RemainsTimePasses ==
    ASSUME ApartIds, Remains, TimePasses
    PROVE  Remains'
<1>1. Parcels /\ Made /\ Entries(m_messages) /\ NothingForgotten
  BY DEF Remains
<1>2. m_messages \in Seq(Messages) /\ RetryInterval \in Nat
  BY <1>1, SessionAssumption DEF Entries
<1>3. PICK n \in Nat : m_messages \in [1 .. n -> Messages]
  BY <1>2, LenProperties
<1> DEFINE later(m) == [m EXCEPT !.retryIn = IF @ > 0 THEN @ - 1 ELSE 0]
<1>4. \A m \in Messages : /\ later(m) \in Messages /\ later(m).id = m.id /\ later(m).n = m.n
                          /\ later(m).status = m.status
  <2> TAKE m \in Messages
  <2>1. m.retryIn \in 0 .. RetryInterval
    BY DEF Messages
  <2>2. (IF m.retryIn > 0 THEN m.retryIn - 1 ELSE 0) \in 0 .. RetryInterval
    BY <1>2, <2>1
  <2> QED
    BY <2>2 DEF Messages
<1>5. m_messages' = [i \in DOMAIN m_messages |-> later(m_messages[i])]
  BY DEF TimePasses
<1> HIDE DEF later
<1>6. PICK t : t = [i \in DOMAIN m_messages |-> later(m_messages[i])]
  OBVIOUS
<1>7. t \in [1 .. n -> Messages] /\ DOMAIN t = DOMAIN m_messages
      /\ \A i \in DOMAIN m_messages : /\ t[i].id = m_messages[i].id /\ t[i].n = m_messages[i].n
                                      /\ t[i].status = m_messages[i].status
  BY <1>3, <1>4, <1>6
<1>8. t \in Seq(Messages)
  BY <1>7, SeqDef
<1>9. Entries(t) /\ \A k : Lists(m_messages, k) => Lists(t, k)
  BY <1>1, <1>7, <1>8, EntriesSame
<1>10. UNCHANGED <<m_sendQueue, delayed, toBroker, toClient, broker, sent, published, ids,
                  completed, refused>>
  BY DEF TimePasses, queueVars, wireVars, outgoingVars, incomingVars
<1>11. Made' /\ Entries(m_messages)' /\ NothingForgotten'
  BY <1>1, <1>5, <1>6, <1>9, <1>10, MessagesStep
<1>12. Parcels'
  BY <1>1, <1>10 DEF Parcels
<1> QED
  BY <1>11, <1>12 DEF Remains

\* What the broker has not finished comes again in the order of its publishes.
LEMMA ResentTyped ==
    ASSUME Parcels
    PROVE  Resent(broker) \in Seq(ByBroker)
<1> DEFINE unfinished(n) == {o \in broker.outbound : o.n = n}
           again(n) == IF unfinished(n) = {} THEN <<>>
                       ELSE <<Again(CHOOSE o \in unfinished(n) : TRUE)>>
<1>1. \A o \in broker.outbound : Again(o) \in ByBroker
  <2> TAKE o \in broker.outbound
  <2>1. o \in Unfinished
    BY DEF Parcels
  <2>2. /\ o.id \in Nat /\ o.n \in Nat /\ o.qos \in 0 .. 2 /\ o.id \in BrokerIds
    BY <2>1 DEF Unfinished, Outbound
  <2>3. Packet("PUBLISH", o.id, o.n, o.qos) \in ByBroker
    BY <2>2 DEF Packet, ByBroker, Packets
  <2>4. Answer("PUBREL", o.id) \in ByBroker
    BY <2>2, ParcelAnswers
  <2> QED
    BY <2>3, <2>4, Zenon DEF Again
<1>2. \A n : again(n) \in Seq(ByBroker)
  <2> TAKE n
  <2>1. CASE unfinished(n) = {}
    BY <2>1, EmptySeq
  <2>2. CASE unfinished(n) # {}
    <3>1. PICK o \in unfinished(n) : again(n) = <<Again(o)>>
      BY <2>2
    <3>2. Again(o) \in ByBroker
      BY <1>1
    <3>3. \A p \in ByBroker : <<p>> \in Seq(ByBroker)
      OBVIOUS
    <3> QED
      BY <3>1, <3>2, <3>3
  <2> QED
    BY <2>1, <2>2
<1>3. PICK seqs : seqs = [n \in DOMAIN sent |-> again(n)]
  OBVIOUS
<1>4. Resent(broker) = FlattenSeq(seqs)
  BY <1>3 DEF Resent
<1> HIDE DEF again, unfinished
<1>5. DOMAIN sent = 1 .. Len(sent) /\ Len(sent) \in Nat
  BY LenProperties DEF Parcels
<1>6. seqs \in [1 .. Len(sent) -> Seq(ByBroker)]
  BY <1>2, <1>3, <1>5
<1>7. seqs \in Seq(Seq(ByBroker)) /\ <<>> \in Seq(ByBroker)
  BY <1>5, <1>6, SeqDef, EmptySeq
<1>8. FlattenSeq(seqs) \in Seq(ByBroker)
  BY <1>7, FlattenSeqAppend
<1> QED
  BY <1>4, <1>8

\* A new connection that resumes the session.
LEMMA RemainsConnected ==
    ASSUME Remains, Connected(TRUE)
    PROVE  Remains'
<1>1. Parcels /\ Made /\ Entries(m_messages) /\ NothingForgotten
  BY DEF Remains
<1>2. /\ m_messages' = Restored(m_messages) /\ toClient' = Resent(broker)
      /\ UNCHANGED <<broker, m_sendQueue, delayed, toBroker, published, ids, completed, refused, sent>>
  BY DEF Connected, MessagesAfterConnect, queueVars, outgoingVars, incomingVars
<1>3. toClient' \in Seq(ByBroker)
  BY <1>1, <1>2, ResentTyped
<1>4. Parcels'
  BY <1>1, <1>2, <1>3 DEF Parcels
<1>5. PICK t : t = Restored(m_messages)
  OBVIOUS
<1>6. Entries(t) /\ \A n : n # 0 /\ Lists(m_messages, n) => Lists(t, n)
  BY <1>1, <1>5, EntriesRestored
<1>7. Made' /\ Entries(m_messages)' /\ NothingForgotten'
  BY <1>1, <1>2, <1>5, <1>6, MessagesStep
<1> QED
  BY <1>4, <1>7 DEF Remains

\* The broker.
LEMMA RemainsBrokerReads ==
    ASSUME Remains, BrokerReceives
    PROVE  Remains'
<1> DEFINE Brokers == [received : SUBSET Nat, outbound : SUBSET Unfinished]
<1>1. Parcels /\ Made /\ Entries(m_messages) /\ NothingForgotten
  BY DEF Remains
<1>2. /\ toBroker # <<>> /\ toBroker' = Tail(toBroker)
      /\ UNCHANGED <<clientVars, queueVars, published, ids, completed, refused, sent>>
  BY DEF BrokerReceives, BrokerAccepts, BrokerRefuses, BrokerReleases, BrokerSettles,
         BrokerContinues, ReachesBroker, BrokerTakes, outgoingVars, incomingVars
<1>3. PICK p \in ByClient : p = Head(toBroker) /\ toBroker' \in Seq(ByClient)
  BY <1>1, <1>2, ParcelHeads
<1>4. Made' /\ Entries(m_messages)' /\ NothingForgotten'
  BY <1>1, <1>2, MessagesStay DEF clientVars
<1>5. /\ p.id \in Nat /\ p.qos \in 0 .. 2 /\ broker \in Brokers
      /\ broker.received \in SUBSET Nat /\ broker.outbound \in SUBSET Unfinished
  BY <1>1 DEF ByClient, Packets, Parcels
<1>6. /\ \A R \in SUBSET Nat : [broker EXCEPT !.received = R] \in Brokers
      /\ \A O \in SUBSET Unfinished : [broker EXCEPT !.outbound = O] \in Brokers
  BY <1>5
<1>7. ASSUME broker' \in Brokers, toClient' \in Seq(ByBroker) PROVE Remains'
  <2>1. Parcels'
    BY <1>1, <1>2, <1>3, <1>7 DEF Parcels, queueVars
  <2> QED
    BY <1>4, <2>1 DEF Remains
<1>8. toClient \in Seq(ByBroker) /\ \A a \in ByBroker : Append(toClient, a) \in Seq(ByBroker)
  BY <1>1, ParcelAppends DEF Parcels
<1> HIDE DEF Brokers
<1>9. CASE BrokerAccepts
  <2>1. broker' = broker \/ broker' = [broker EXCEPT !.received = broker.received \union {p.id}]
    BY <1>3, <1>9 DEF BrokerAccepts
  <2>2. broker.received \union {p.id} \in SUBSET Nat
    BY <1>5
  <2>3. toClient' \in {toClient, Append(toClient, Answer("PUBACK", p.id)),
                       Append(toClient, Answer("PUBREC", p.id))}
    <3>1. CASE p.qos = 0
      <4>1. Head(toBroker).qos = 0
        BY <1>3, <3>1
      <4>2. (CASE Head(toBroker).qos = 0 -> UNCHANGED toClient
               [] Head(toBroker).qos = 1 -> BrokerAnswers(Answer("PUBACK", Head(toBroker).id))
               [] Head(toBroker).qos = 2 -> BrokerAnswers(Answer("PUBREC", Head(toBroker).id)))
        BY <1>9 DEF BrokerAccepts
      <4>3. Head(toBroker).qos # 1 /\ Head(toBroker).qos # 2
        BY <4>1
      <4>4. UNCHANGED toClient
        BY <4>1, <4>2, <4>3, Zenon
      <4> QED
        BY <4>4
    <3>2. CASE p.qos = 1
      BY <1>3, <1>9, <3>2 DEF BrokerAccepts, BrokerAnswers
    <3>3. CASE p.qos = 2
      BY <1>3, <1>9, <3>3 DEF BrokerAccepts, BrokerAnswers
    <3> QED
      BY <1>5, <3>1, <3>2, <3>3
  <2>4. toClient' \in Seq(ByBroker)
    BY <1>5, <1>8, <2>3, ParcelAnswers
  <2>5. broker' \in Brokers
    BY <1>5, <1>6, <2>1, <2>2
  <2> QED
    BY <1>7, <2>4, <2>5
<1>10. CASE BrokerRefuses
  <2>1. /\ toClient' = Append(toClient, Failed(IF p.qos = 1 THEN "PUBACK" ELSE "PUBREC", p.id))
        /\ UNCHANGED broker
    BY <1>3, <1>10 DEF BrokerRefuses, BrokerAnswers
  <2>2. Failed(IF p.qos = 1 THEN "PUBACK" ELSE "PUBREC", p.id) \in ByBroker
    BY <1>5, ParcelAnswers
  <2> QED
    BY <1>5, <1>7, <1>8, <2>1, <2>2
<1>11. CASE BrokerReleases
  <2>1. /\ broker' = [broker EXCEPT !.received = broker.received \ {p.id}]
        /\ toClient' = Append(toClient, Answer("PUBCOMP", p.id))
    BY <1>3, <1>11 DEF BrokerReleases, BrokerAnswers
  <2>2. broker.received \ {p.id} \in SUBSET Nat
    BY <1>5
  <2>3. broker' \in Brokers
    BY <1>6, <2>1, <2>2
  <2> QED
    BY <1>5, <1>7, <1>8, <2>1, <2>3, ParcelAnswers
<1>12. CASE BrokerSettles
  <2>1. broker' = [broker EXCEPT !.outbound = broker.outbound \ Acknowledged] /\ UNCHANGED toClient
    BY <1>12 DEF BrokerSettles
  <2>2. broker.outbound \ Acknowledged \in SUBSET Unfinished
    BY <1>5
  <2>3. broker' \in Brokers
    BY <1>6, <2>1, <2>2
  <2> QED
    BY <1>7, <1>8, <2>1, <2>3
<1>13. CASE BrokerContinues
  <2> DEFINE new == (broker.outbound \ Acknowledged)
                      \union {[o EXCEPT !.released = TRUE] : o \in Acknowledged}
  <2>1. /\ broker' = [broker EXCEPT !.outbound = new]
        /\ toClient' = Append(toClient, Answer("PUBREL", p.id))
        /\ p.type = "PUBREC"
    BY <1>3, <1>13 DEF BrokerContinues, BrokerAnswers, ReachesBroker
  <2>2. p.id \in BrokerIds
    BY <2>1 DEF ByClient
  <2>3. \A o \in Unfinished : [o EXCEPT !.released = TRUE] \in Unfinished
    BY DEF Unfinished, Outbound
  <2>4. new \in SUBSET Unfinished
    BY <1>5, <2>3 DEF Acknowledged
  <2> HIDE DEF new
  <2>5. broker' \in Brokers
    BY <1>6, <2>1, <2>4
  <2> QED
    BY <1>5, <1>7, <1>8, <2>1, <2>2, <2>5, ParcelAnswers
<1> QED
  BY <1>9, <1>10, <1>11, <1>12, <1>13 DEF BrokerReceives

LEMMA RemainsBrokerPublishes ==
    ASSUME Remains, NEW qos \in IncomingQos, BrokerPublishes(qos)
    PROVE  Remains'
<1>1. Parcels /\ Made /\ Entries(m_messages) /\ NothingForgotten
  BY DEF Remains
<1>2. PICK id \in IF qos = 0 THEN {0} ELSE BrokerIds \ {o.id : o \in broker.outbound} :
         /\ toClient' = Append(toClient, Packet("PUBLISH", id, Len(sent) + 1, qos))
         /\ broker' = IF qos = 0 THEN broker
                      ELSE [broker EXCEPT !.outbound = broker.outbound \union
                              {[id |-> id, n |-> Len(sent) + 1, qos |-> qos, released |-> FALSE]}]
  BY DEF BrokerPublishes, BrokerAnswers
<1>3. /\ sent' = Append(sent, qos)
      /\ UNCHANGED <<clientVars, queueVars, toBroker, published, ids, completed, refused>>
  BY DEF BrokerPublishes, outgoingVars
<1>4. qos \in 0 .. 2 /\ sent \in Seq(0 .. 2) /\ Len(sent) \in Nat
  <2>1. qos \in 0 .. 2
    BY ConstantTypes
  <2>2. sent \in Seq(0 .. 2) /\ Len(sent) \in Nat
    BY <1>1, LenProperties DEF Parcels
  <2> QED
    BY <2>1, <2>2
<1>5. (qos = 0 /\ id = 0) \/ (qos # 0 /\ id \in BrokerIds /\ id \in Nat \ {0})
  BY <1>2, ConstantTypes, Zenon
<1>6. Packet("PUBLISH", id, Len(sent) + 1, qos) \in ByBroker
  BY <1>4, <1>5 DEF Packet, ByBroker, Packets
<1>7. toClient' \in Seq(ByBroker)
  BY <1>1, <1>2, <1>6, ParcelAppends
<1>8. sent' \in Seq(0 .. 2)
  BY <1>3, <1>4, AppendProperties
<1>9. broker' \in [received : SUBSET Nat, outbound : SUBSET Unfinished]
  <2>1. broker \in [received : SUBSET Nat, outbound : SUBSET Unfinished]
    BY <1>1 DEF Parcels
  <2>2. CASE qos = 0
    BY <1>2, <2>1, <2>2
  <2>3. CASE qos # 0
    <3>1. [id |-> id, n |-> Len(sent) + 1, qos |-> qos, released |-> FALSE] \in Unfinished
      BY <1>4, <1>5, <2>3 DEF Unfinished, Outbound
    <3> QED
      BY <1>2, <2>1, <2>3, <3>1
  <2> QED
    BY <2>2, <2>3
<1>10. Parcels'
  BY <1>1, <1>3, <1>7, <1>8, <1>9 DEF Parcels, queueVars
<1>11. Made' /\ Entries(m_messages)' /\ NothingForgotten'
  BY <1>1, <1>3, MessagesStay DEF clientVars
<1> QED
  BY <1>10, <1>11 DEF Remains

-----------------------------------------------------------------------------
(* Before the first loss.                                                   *)

LEMMA RemainsPublish ==
    ASSUME ApartIds, Remains, SessionInv, SessionInv', connected',
           NEW qos \in PublishQos, Publish(qos)
    PROVE  Remains'
<1> DEFINE n == Len(published) + 1
           id == IF qos = 0 THEN 0 ELSE NextId(m_packetIdPool)
<1>1. Parcels /\ Made /\ Entries(m_messages) /\ NothingForgotten
  BY DEF Remains
<1>2. /\ published \in Seq(0 .. 2) /\ Len(published) \in Nat /\ ids \in Seq(Nat)
      /\ Len(ids) = Len(published) /\ Len(published) < MaxPublishes /\ MaxPublishes \in Nat
      /\ DOMAIN published = 1 .. Len(published) /\ qos \in 0 .. 2
  BY <1>1, LenProperties, SessionAssumption, ConstantTypes DEF Made, Publish
<1>3. /\ published' = Append(published, qos) /\ ids' = Append(ids, id)
      /\ m_sendQueue' = Append(m_sendQueue, Packet("PUBLISH", id, n, qos))
      /\ UNCHANGED <<delayed, toBroker, toClient, broker, completed, refused, sent>>
  BY DEF Publish, AddToQueue, wireVars, incomingVars
<1>4. Typed' /\ Pooled' /\ Listed' /\ Owned' /\ Matched'
  BY DEF SessionInv, Live
<1>5. Made'
  BY <1>4 DEF Typed, Made
<1>6. id \in Nat
  <2>1. m_packetIdPool \in Pool
    BY DEF SessionInv, Typed
  <2>2. m_packetIdPool.m_nextId \in Nat
    BY <2>1 DEF Pool
  <2> QED
    BY <2>1, <2>2, PoolGet
<1>7. Parcels'
  <2>1. Packet("PUBLISH", id, n, qos) \in ByClient
    BY <1>2, <1>6 DEF Packet, ByClient, Packets
  <2>2. m_sendQueue' \in Seq(ByClient)
    BY <1>1, <1>3, <2>1, ParcelAppends
  <2> QED
    BY <1>1, <1>3, <2>2 DEF Parcels
<1>8. m_messages \in Seq(Messages) /\ DOMAIN m_messages = 1 .. Len(m_messages)
      /\ Len(m_messages) \in Nat
  BY <1>1, LenProperties DEF Entries
<1>9. PICK t : t = m_messages'
  OBVIOUS
<1>10. t \in Seq(Messages) /\ DOMAIN t = 1 .. Len(t)
  BY <1>4, <1>9, LenProperties DEF Typed
<1>11. /\ \A i \in DOMAIN m_messages :
             i \in DOMAIN t /\ t[i].n = m_messages[i].n /\ t[i].status = m_messages[i].status
       /\ \A i \in DOMAIN t : i \in DOMAIN m_messages \/ t[i].status # "WaitingForPubRel"
       /\ qos # 0 => Lists(t, n)
  <2>1. CASE qos = 0
    <3>1. t = m_messages
      BY <1>9, <2>1 DEF Publish
    <3> QED
      BY <2>1, <3>1
  <2>2. CASE qos # 0
    <3>1. PICK m : m = NewMessage(id, n, qos, RetryInterval)
      OBVIOUS
    <3>2. t = PushMessage(m_messages, m) /\ m.n = n /\ m.status # "WaitingForPubRel"
      BY <1>9, <2>2, <3>1 DEF Publish, NewMessage
    <3>3. m \in Messages
      <4>1. id \in Nat \ {0}
        <5>1. m_packetIdPool \in Pool
          BY DEF SessionInv, Typed
        <5>2. m_packetIdPool.m_nextId \in Nat
          BY <5>1 DEF Pool
        <5> QED
          BY <2>2, <5>1, <5>2, PoolGet
      <4>2. RetryInterval \in 0 .. RetryInterval /\ n \in 0 .. MaxPublishes
        BY <1>2, SessionAssumption
      <4> QED
        BY <1>2, <3>1, <4>1, <4>2 DEF NewMessage, Messages
    <3>4. /\ Len(t) = Len(m_messages) + 1
          /\ \A i \in 1 .. Len(m_messages) :
                t[i].n = m_messages[i].n /\ t[i].status = m_messages[i].status
          /\ t[Len(m_messages) + 1] = m
      BY <1>8, <3>2, <3>3, PushShape
    <3>5. /\ \A i \in DOMAIN m_messages : i \in DOMAIN t
          /\ \A i \in DOMAIN t : i \in DOMAIN m_messages \/ i = Len(m_messages) + 1
          /\ Len(m_messages) + 1 \in DOMAIN t
      BY <1>8, <1>10, <3>4
    <3> HIDE DEF n
    <3> QED
      BY <1>8, <3>2, <3>4, <3>5 DEF Lists
  <2> QED
    BY <2>1, <2>2
<1>12. Entries(m_messages)'
  <2>1. ASSUME NEW i \in DOMAIN t
        PROVE  /\ IF t[i].n = 0 THEN t[i].id \in BrokerIds
                  ELSE /\ t[i].n \in DOMAIN ids' /\ t[i].id = ids'[t[i].n]
                       /\ t[i].id \in 1 .. MaxPublishes
                       /\ \A k \in DOMAIN ids' : k > t[i].n => ids'[k] # t[i].id
    <3>1. PICK m : m = [id |-> t[i].id, n |-> t[i].n]
      OBVIOUS
    <3>2. m \in Kept' /\ m.id = t[i].id /\ m.n = t[i].n
      BY <1>9, <3>1 DEF Kept, KeptOf
    <3>3. CASE m.n = 0
      <4>1. m \in Foreign'
        BY <3>2, <3>3 DEF Foreign
      <4>2. m.id \in BrokerIds
        BY <1>4, <4>1 DEF Matched, Listed
      <4> QED
        BY <3>2, <3>3, <4>2
    <3>4. CASE m.n # 0
      <4>1. m \in Own'
        BY <3>2, <3>4 DEF Own
      <4>2. /\ m.n \in DOMAIN published' /\ m.id = ids'[m.n] /\ m.id \in UsedIds(m_packetIdPool')
            /\ \A k \in DOMAIN ids' : k > m.n => ids'[k] # m.id
        BY <1>4, <4>1 DEF Owned
      <4>3. DOMAIN ids' = DOMAIN published'
        BY <1>5, LenProperties DEF Made
      <4>4. m.id \in 1 .. MaxPublishes
        <5>1. /\ Len(published') \in Nat /\ Len(published') <= MaxPublishes
              /\ m_packetIdPool'.m_nextId \in Nat
          BY <1>4, LenProperties DEF Typed, Pool
        <5>2. m_packetIdPool'.m_nextId <= Len(published') + 1
          BY <1>4 DEF Pooled
        <5>3. 1 .. m_packetIdPool'.m_nextId - 1 \subseteq 1 .. MaxPublishes
          BY <1>2, <5>1, <5>2
        <5> QED
          BY <4>2, <5>3 DEF UsedIds
      <4> QED
        BY <3>2, <3>4, <4>2, <4>3, <4>4
    <3> QED
      BY <3>3, <3>4
  <2>2. \A i \in DOMAIN t : t[i].n # 0 => t[i].status # "WaitingForPubRel"
    BY <1>1, <1>11 DEF Entries
  <2>3. \A i, j \in DOMAIN t : t[i].id = t[j].id => i = j
    BY <1>4, <1>9 DEF Listed, Tidy
  <2> QED
    BY <1>9, <1>10, <2>1, <2>2, <2>3 DEF Entries, Entry
<1>13. NothingForgotten'
  <2>1. /\ DOMAIN published' = 1 .. Len(published) + 1
        /\ \A k \in 1 .. Len(published) : published'[k] = published[k]
        /\ published'[Len(published) + 1] = qos
    BY <1>2, <1>3, AppendProperties, LenProperties
  <2>2. \A k \in DOMAIN published' : k \in DOMAIN published \/ k = n
    BY <1>2, <2>1
  <2>3. \A k : Lists(m_messages, k) => Lists(t, k)
    BY <1>11 DEF Lists
  <2>4. ASSUME NEW k \in DOMAIN published', published'[k] # 0
        PROVE  k \in completed' \union refused' \/ Lists(t, k)
    <3>1. CASE k \in DOMAIN published
      <4>1. published[k] # 0
        BY <1>2, <2>1, <2>4, <3>1
      <4>2. k \in completed \union refused \/ Lists(m_messages, k)
        BY <1>1, <3>1, <4>1 DEF NothingForgotten, Lists
      <4> QED
        BY <1>3, <2>3, <4>2
    <3>2. CASE k = n
      <4>1. qos # 0
        BY <2>1, <2>4, <3>2
      <4> QED
        BY <1>11, <3>2, <4>1
    <3> QED
      BY <2>2, <3>1, <3>2
  <2> QED
    BY <1>9, <2>4 DEF NothingForgotten, Lists
<1> QED
  BY <1>5, <1>7, <1>12, <1>13 DEF Remains

\* While the application may publish, nothing is lost or late: the steps are those of a
\* clean session.
LEMMA UndisturbedStep ==
    ASSUME ResumedSessions, SessionInv, connected, Len(published) < MaxPublishes, Next
    PROVE  SessionInv' /\ connected'
<1>1. ApartIds /\ Typed /\ ~MayDisturb
  <2>1. Len(published) \in Nat /\ MaxPublishes \in Nat
    BY LenProperties, SessionAssumption DEF SessionInv, Typed
  <2> QED
    BY <2>1 DEF ResumedSessions, MayDisturb, SessionInv
<1>2. ASSUME NEW qos \in PublishQos, Publish(qos) PROVE SessionInv' /\ connected'
  <2>1. Typed'
    BY <1>1, <1>2, TypedPublish
  <2>2. SessionInv'
    BY <1>1, <1>2, <2>1, InvPublish
  <2> QED
    BY <1>2, <2>2 DEF Publish
<1>3. CASE BeginTick \/ DelayPacket \/ EndSend \/ EndReceive \/ PendingPublishMessageRetries
  <2>1. Typed'
    BY <1>1, <1>3, TypedSend, TypedOthers
  <2>2. SessionInv'
    BY <1>1, <1>3, <2>1, InvTick
  <2> QED
    BY <1>3, <2>2 DEF BeginTick, DelayPacket, EndSend, EndReceive,
                      PendingPublishMessageRetries, clientVars
<1>4. CASE SendPacket
  <2>1. Typed'
    BY <1>1, <1>4, TypedSend
  <2>2. SessionInv'
    BY <1>1, <1>4, <2>1, InvSendPacket
  <2> QED
    BY <1>4, <2>2 DEF SendPacket
<1>5. CASE ReceivePublish
  <2>1. Typed'
    BY <1>1, <1>5, TypedReceivePublish
  <2>2. SessionInv'
    BY <1>1, <1>5, <2>1, InvReceivePublish
  <2>3. ~cutOff'
    BY <2>2 DEF SessionInv, Places
  <2>4. ~ReceiveMaximumExceeded
    BY <2>3 DEF ReceiveMaximumExceeded
  <2>5. UNCHANGED connected
    BY <1>5, <2>4 DEF ReceivePublish, FirePublishReceived
  <2> QED
    BY <2>2, <2>5
<1>6. CASE ReceivePubAck \/ ReceivePubComp \/ ReceivePubRec \/ ReceivePubRel
  <2>1. Typed'
    BY <1>1, <1>6, TypedReceiveAnswer
  <2>2. SessionInv'
    BY <1>1, <1>6, <2>1, InvReceiveAnswer
  <2> QED
    BY <1>6, <2>2 DEF ReceivePubAck, ReceivePubComp, ReceivePubRec, ReceivePubRel
<1>7. CASE TimePasses \/ ConnectionLost
  BY <1>1, <1>7 DEF TimePasses, ConnectionLost
<1>8. ASSUME NEW present \in Resume, Connected(present) PROVE FALSE
  BY <1>8 DEF Connected
<1>9. CASE BrokerReceives
  <2>1. Typed'
    BY <1>1, <1>9, TypedBrokerReads, TypedBrokerSettles DEF BrokerReceives
  <2>2. SessionInv'
    BY <1>1, <1>9, <2>1, InvBrokerAccepts, InvBrokerAnswers, InvBrokerSettles DEF BrokerReceives
  <2> QED
    BY <1>9, <2>2 DEF BrokerReceives, BrokerAccepts, BrokerRefuses, BrokerReleases,
                      BrokerSettles, BrokerContinues, clientVars
<1>10. ASSUME NEW qos \in IncomingQos, BrokerPublishes(qos) PROVE SessionInv' /\ connected'
  <2>1. Typed'
    BY <1>1, <1>10, TypedBrokerPublishes
  <2>2. SessionInv'
    BY <1>1, <1>10, <2>1, InvBrokerPublishes
  <2> QED
    BY <1>10, <2>2 DEF BrokerPublishes, clientVars
<1> QED
  BY <1>2, <1>3, <1>4, <1>5, <1>6, <1>7, <1>8, <1>9, <1>10 DEF Next, Tick, ReceivePacket

LEMMA RememberedNext ==
    ASSUME ResumedSessions, Remembered, Next
    PROVE  Remembered'
<1>1. ApartIds /\ Remains /\ Undisturbed /\ Resume \subseteq {TRUE}
  BY DEF ResumedSessions, Remembered
<1>2. Remains' /\ (UNCHANGED published \/ Len(published) < MaxPublishes)
  <2>1. ASSUME NEW qos \in PublishQos, Publish(qos) PROVE Remains' /\ Len(published) < MaxPublishes
    <3>1. Next /\ Len(published) < MaxPublishes
      BY <2>1 DEF Next, Publish
    <3>2. SessionInv /\ connected
      BY <1>1, <3>1 DEF Undisturbed
    <3>3. SessionInv' /\ connected'
      BY <3>1, <3>2, UndisturbedStep
    <3> QED
      BY <1>1, <2>1, <3>1, <3>2, <3>3, RemainsPublish
  <2>2. CASE Tick
    <3>1. Remains'
      BY <1>1, <2>2, RemainsTick, RemainsSendPacket, RemainsReceivePublish, RemainsReceiveAnswer
         DEF Tick, ReceivePacket
    <3>2. UNCHANGED published
      BY <2>2 DEF Tick, BeginTick, DelayPacket, SendPacket, EndSend, ReceivePacket, EndReceive,
                  PendingPublishMessageRetries, ReceivePublish, ReceivePubAck, ReceivePubComp,
                  ReceivePubRec, ReceivePubRel, outgoingVars
    <3> QED
      BY <3>1, <3>2
  <2>3. CASE TimePasses
    BY <1>1, <2>3, RemainsTimePasses DEF TimePasses, outgoingVars
  <2>4. CASE ConnectionLost
    <3>1. LoseConnection
          /\ UNCHANGED <<m_messages, broker, published, ids, completed, refused, sent>>
      BY <2>4 DEF ConnectionLost, outgoingVars, incomingVars
    <3> QED
      BY <1>1, <3>1, RemainsLose
  <2>5. ASSUME NEW present \in Resume, Connected(present) PROVE Remains' /\ UNCHANGED published
    <3>1. Connected(TRUE)
      BY <1>1, <2>5
    <3>2. UNCHANGED published
      BY <3>1 DEF Connected, outgoingVars
    <3> QED
      BY <1>1, <3>1, <3>2, RemainsConnected
  <2>6. CASE BrokerReceives
    <3>1. UNCHANGED published
      BY <2>6 DEF BrokerReceives, BrokerAccepts, BrokerRefuses, BrokerReleases, BrokerSettles,
                  BrokerContinues, outgoingVars
    <3> QED
      BY <1>1, <2>6, <3>1, RemainsBrokerReads
  <2>7. ASSUME NEW qos \in IncomingQos, BrokerPublishes(qos) PROVE Remains' /\ UNCHANGED published
    BY <1>1, <2>7, RemainsBrokerPublishes DEF BrokerPublishes, outgoingVars
  <2> QED
    BY <2>1, <2>2, <2>3, <2>4, <2>5, <2>6, <2>7 DEF Next
<1>3. Undisturbed'
  <2> SUFFICES ASSUME Len(published') < MaxPublishes PROVE SessionInv' /\ connected'
    BY DEF Undisturbed
  <2>1. Len(published) < MaxPublishes
    BY <1>2
  <2>2. SessionInv /\ connected
    BY <1>1, <2>1 DEF Undisturbed
  <2> QED
    BY <2>1, <2>2, UndisturbedStep
<1> QED
  BY <1>2, <1>3 DEF Remembered

LEMMA RememberedInit ==
    ASSUME ApartIds, Init
    PROVE  Remembered
<1>1. SessionInv /\ connected
  BY InvInit DEF Init
<1>2. /\ m_messages = <<>> /\ m_sendQueue = <<>> /\ delayed = <<>> /\ toBroker = <<>>
      /\ toClient = <<>> /\ published = <<>> /\ sent = <<>> /\ broker = NewBroker
  BY DEF Init
<1>3. /\ m_messages \in Seq(Messages) /\ m_sendQueue \in Seq(ByClient) /\ delayed \in Seq(ByClient)
      /\ toBroker \in Seq(ByClient) /\ toClient \in Seq(ByBroker) /\ sent \in Seq(0 .. 2)
      /\ DOMAIN m_messages = {} /\ DOMAIN published = {}
  BY <1>2, EmptySeq
<1>4. Parcels
  BY <1>2, <1>3 DEF Parcels, NewBroker
<1>5. Made
  BY <1>1 DEF SessionInv, Typed, Made
<1>6. Entries(m_messages) /\ NothingForgotten
  BY <1>3 DEF Entries, NothingForgotten
<1> QED
  BY <1>1, <1>4, <1>5, <1>6 DEF Remembered, Remains, Undisturbed

LEMMA RememberedStutter ==
    ASSUME Remembered, UNCHANGED vars
    PROVE  Remembered'
<1>1. Parcels /\ Made /\ Entries(m_messages) /\ NothingForgotten
  BY DEF Remembered, Remains
<1>2. UNCHANGED <<m_messages, m_sendQueue, delayed, toBroker, toClient, broker, sent,
                  published, ids, completed, refused, connected>>
  BY DEF vars, clientVars, queueVars, wireVars, outgoingVars, incomingVars
<1>3. Made' /\ Entries(m_messages)' /\ NothingForgotten'
  BY <1>1, <1>2, MessagesStay
<1>4. Parcels'
  BY <1>1, <1>2 DEF Parcels
<1>5. Undisturbed'
  BY <1>2, InvStutter DEF Remembered, Undisturbed
<1> QED
  BY <1>3, <1>4, <1>5 DEF Remembered, Remains

\* The session remembers every publish above QoS 0 whose outcome the application does not
\* know, over any number of connections lost and however late the answers are, as long as
\* each connection resumes it and the application published before the first loss: a publish
\* made later may take an identifier that clearQueue gave back while the session used it.
THEOREM PublishesRemembered ==
    ASSUME ResumedSessions
    PROVE  Spec => []NothingForgotten
<1>1. Init => Remembered
  BY RememberedInit DEF ResumedSessions
<1>2. Remembered /\ [Next]_vars => Remembered'
  BY RememberedNext, RememberedStutter
<1>3. Remembered => NothingForgotten
  BY DEF Remembered, Remains
<1> QED
  BY <1>1, <1>2, <1>3, PTL DEF Spec
=============================================================================
