---------------------------- MODULE RequestsProofs ----------------------------
(***************************************************************************)
(* What holds of subscriptions and of the pool they share, for every size  *)
(* of the pool and every number of requests, connections and stray         *)
(* answers: every step is a step of the pool, a SUBACK is reported with the *)
(* topics of its own subscription, and the identifiers of subscriptions    *)
(* are returned.                                                           *)
(***************************************************************************)
EXTENDS Requests, PacketIdPoolProofs, SequenceTheorems

-----------------------------------------------------------------------------
(* The inductive invariant.                                                 *)

CallKinds == Kinds \union {"none", "publish", "disconnect"}
Events == {"answer", "disconnect", "reconnect", "connect"}
Request == [kind : Kinds, id : 0 .. MaxPacketId, request : Nat]
Call == [kind : CallKinds, id : 0 .. MaxPacketId, request : Nat]
Composer == [kind : Kinds \union {"disconnect"}, id : 0 .. MaxPacketId, request : Nat]

\* The steps a callback may interrupt.
Resumed == {"idle", "sent", "receive", "redirect", "closed", "events"}

\* Every variable has its type.
ControlTyped ==
    /\ m_connectionStatus \in {"DISCONNECTED", "CONNECTED", "RECONNECTING"}
    /\ m_mutex \in Threads \union {None} /\ queueMutex \in Threads \union {None}
    /\ pc \in [Threads -> Steps] /\ resume \in [Threads -> Resumed]

DataTyped ==
    /\ pending \in [Kinds -> Seq(Request)] /\ batch \in Seq(Composer)
    /\ broker \subseteq Request /\ received \in Seq(Request)
    /\ m_events \in Seq(Events)
    /\ call \in [Threads -> Call]
    /\ requests \in Nat /\ strays \in Nat
    /\ holder \in [PacketIds -> {"none"} \union Kinds]

\* A thread makes the call its step belongs to.
CallsMatch ==
    \A t \in Threads :
          /\ pc[t] \in {"identify", "push"} => call[t].kind \in Kinds
          /\ pc[t] = "add" => call[t].kind # "none"
          /\ pc[t] = "lock" => call[t].kind = "disconnect"
          /\ crashed = "no" /\ pc[t] = "push" => call[t].id \in 1 .. PoolSize - 1

\* A request is pending with those of its kind, with an identifier of the pool.
PendingMatch ==
    \A k \in Kinds : \A i \in DOMAIN pending[k] :
        pending[k][i].kind = k /\ pending[k][i].id \in 1 .. PoolSize - 1

Typed == ControlTyped /\ DataTyped /\ CallsMatch /\ PendingMatch

\* A redirection is made under the client's mutex, so that no disconnect comes between
\* its event and the change of the status.
RedirectionLocked ==
    /\ pc["tick"] = "redirect" \/ resume["tick"] = "redirect" =>
          m_mutex = "tick" /\ m_connectionStatus # "DISCONNECTED"
    /\ resume["tick"] = "redirect" =>
          \/ pc["tick"] \in {"callback", "identify", "push", "lock"}
          \/ pc["tick"] = "add" /\ call["tick"].kind # "disconnect"

\* Only a client that is disconnected cancels and clears, but where a redirection failed;
\* one that is redirected has received nothing.
EndingIsDisconnected ==
    /\ \A t \in Threads : pc[t] \in {"cancel", "clear"} => m_connectionStatus = "DISCONNECTED"
    /\ pc["app"] \notin {"abandon", "failed"}
    /\ pc["tick"] \in {"abandon", "failed"} => m_connectionStatus # "CONNECTED"
    /\ \/ m_connectionStatus = "RECONNECTING" \/ pc["tick"] \in {"redirect", "abandon", "failed"}
       \/ resume["tick"] = "redirect"
       => received = <<>>

\* The subscription requests that have no answer yet.
Subs == pending["subscribe"]

\* The threads whose request has an identifier and is not queued.
Identified == {t \in Threads : pc[t] \in {"push", "add"} /\ call[t].kind \in Kinds}

Owns(request) == request.id \in m_usedIds /\ holder[request.id] = request.kind

\* A subscription that was pushed is pending.
Pushed(request) ==
    request.kind = "subscribe" => \E i \in DOMAIN Subs : Subs[i] = request

\* Nothing else on the way has the same identifier.
AloneInFlight ==
    /\ \A t, u \in Identified : call[t].id = call[u].id => t = u
    /\ \A i, j \in Queued : batch[i].id = batch[j].id => i = j
    /\ \A a, b \in broker : a.id = b.id => a = b
    /\ \A i, j \in DOMAIN received : received[i].id = received[j].id => i = j
    /\ \A t \in Identified : \A i \in Queued : call[t].id # batch[i].id
    /\ \A t \in Identified : \A b \in broker : call[t].id # b.id
    /\ \A t \in Identified : \A i \in DOMAIN received : call[t].id # received[i].id
    /\ \A i \in Queued : \A b \in broker : batch[i].id # b.id
    /\ \A i \in Queued : \A j \in DOMAIN received : batch[i].id # received[j].id
    /\ \A b \in broker : \A i \in DOMAIN received : b.id # received[i].id

\* While there is a connection, or a redirection to one.
Connected ==
    /\ \A t \in Identified : Owns(call[t]) /\ (pc[t] = "add" => Pushed(call[t]))
    /\ \A i \in Queued : Owns(batch[i]) /\ Pushed(batch[i])
    /\ \A b \in broker : Owns(b) /\ Pushed(b)
    /\ \A i \in DOMAIN received : Owns(received[i]) /\ Pushed(received[i])
    /\ \A i \in DOMAIN Subs : Owns(Subs[i])
    /\ \A t \in Identified : \A i \in DOMAIN Subs : pc[t] = "push" => Subs[i].id # call[t].id
    /\ AloneInFlight

\* A thread cancels the queue before clearState, or is at clearState.
Clearing == \E t \in Threads : pc[t] = "clear" \/ (pc[t] = "cancel" /\ m_mutex = t)

\* After one: what a failed redirection left pending keeps its identifier.
Disconnected ==
    /\ \A t \in Threads : call[t].kind \notin Kinds
    /\ broker = {}
    /\ (\A t \in Threads : pc[t] # "cancel") => Queued = {}
    /\ \A t \in Threads : pc[t] = "cancel" => m_mutex = t \/ Queued = {}
    /\ \/ Clearing
       \/ Subs = <<>>
       \/ received = <<>> /\ \A i \in DOMAIN Subs : Owns(Subs[i])

\* A redirection that failed with nothing on the way.
Abandoned ==
    pc["tick"] \in {"abandon", "failed"} =>
        Queued = {} /\ broker = {} /\ \A t \in Threads : call[t].kind \notin Kinds

\* At any time: what is in use for a subscription is pending or about to be.
Accounted ==
    /\ \A i, j \in DOMAIN Subs : Subs[i].id = Subs[j].id => i = j
    /\ \A id \in m_usedIds : holder[id] = "subscribe" =>
          \/ \E i \in DOMAIN Subs : Subs[i].id = id
          \/ \E t \in Threads :
                pc[t] = "push" /\ call[t].kind = "subscribe" /\ call[t].id = id
    /\ \A i \in DOMAIN received, j \in DOMAIN Subs :
          received[i].kind = "subscribe" /\ received[i].id = Subs[j].id => received[i] = Subs[j]
    /\ "subscribe" \notin misreported

Tracked ==
    /\ Accounted
    /\ IF m_connectionStatus = "DISCONNECTED" THEN Disconnected ELSE Connected

RequestsInv ==
    /\ PoolInv /\ Typed /\ RedirectionLocked /\ EndingIsDisconnected /\ SubscriptionsMatch
    /\ crashed = "no" /\ strays = 0 /\ cutOff = {} => Tracked /\ Abandoned

-----------------------------------------------------------------------------
(* The operators.                                                           *)

\* getId returns an identifier that was not in use, or the process ends.
LEMMA NextIdIsFree ==
    ASSUME PoolInv, GetId
    PROVE  /\ NextId \in 1 .. PoolSize
           /\ crashed' = "no" =>
                 /\ NextId \in 1 .. PoolSize - 1 /\ NextId \notin m_usedIds
                 /\ m_usedIds' = m_usedIds \union {NextId}
<1>1. CASE GetReleasedId
  <2>1. /\ m_availableIds # <<>> /\ NextId = Head(m_availableIds)
        /\ NextId \in 1 .. PoolSize - 1 /\ NextId = m_availableIds[1]
        /\ 1 \in DOMAIN m_availableIds
      BY <1>1, PoolAssumption, SMT DEF GetReleasedId, NextId, PoolInv, TypeOK
  <2>2. NextId \in Released
      BY <2>1 DEF Released
  <2>3. NextId \notin m_usedIds
      BY <2>1, <2>2, SMT DEF PoolInv
  <2> QED
      BY <1>1, <2>1, <2>3, PoolAssumption, SMT DEF GetReleasedId, HandOut, Flip
<1>2. CASE GetFreshId
  <2>1. m_availableIds = <<>> /\ NextId = m_nextId /\ m_nextId \in 1 .. PoolSize
      BY <1>2 DEF GetFreshId, NextId, PoolInv, TypeOK
  <2>2. m_nextId < PoolSize => m_nextId \notin m_usedIds
      BY <2>1, PoolAssumption, SMT DEF PoolInv
  <2> QED
      BY <1>2, <2>1, <2>2, PoolAssumption, SMT DEF GetFreshId, HandOut, Flip
<1> QED
    BY <1>1, <1>2 DEF GetId

\* Releasing an identifier, in use or not, is a step of the pool, after which it is not
\* in use.
LEMMA ReleasesIsAStep ==
    ASSUME PoolInv, crashed = "no", NEW id \in 0 .. MaxPacketId, Releases(id)
    PROVE  /\ [Next]_vars
           /\ crashed' = "no" => m_usedIds' = m_usedIds \ {id}
<1>1. 0 \notin m_usedIds /\ m_usedIds \subseteq 1 .. PoolSize - 1
    BY PoolAssumption, SMT DEF PoolInv, TypeOK
<1>2. CASE ReleaseId(id)
    BY <1>1, <1>2, SMT DEF Next, ReleaseId
<1>3. CASE UNCHANGED vars /\ id \notin m_usedIds
    BY <1>3 DEF vars
<1> QED
    BY <1>1, <1>2, <1>3 DEF Releases

\* A request is erased from the pending ones and the others keep their order.
LEMMA WithoutOne ==
    ASSUME NEW R, NEW s \in Seq(R), NEW i \in DOMAIN s
    PROVE  /\ Without(s, i) \in Seq(R)
           /\ Len(Without(s, i)) = Len(s) - 1
           /\ \A j \in 1 .. Len(s) - 1 : Without(s, i)[j] = IF j < i THEN s[j] ELSE s[j + 1]
<1> DEFINE front == SubSeq(s, 1, i - 1)
           back == SubSeq(s, i + 1, Len(s))
<1>1. i \in 1 .. Len(s) /\ Len(s) \in Nat
    BY SMT
<1>2. /\ front \in Seq(R) /\ Len(front) = i - 1
      /\ \A j \in 1 .. i - 1 : front[j] = s[j]
    BY <1>1, SMT
<1>3. /\ back \in Seq(R) /\ Len(back) = Len(s) - i
      /\ \A j \in 1 .. Len(s) - i : back[j] = s[j + i]
    BY <1>1, SMT
<1>4. Without(s, i) = front \o back
    BY DEF Without
<1> HIDE DEF front, back
<1>5. /\ front \o back \in Seq(R) /\ Len(front \o back) = Len(front) + Len(back)
      /\ \A j \in 1 .. Len(front) + Len(back) :
             (front \o back)[j] = IF j <= Len(front) THEN front[j] ELSE back[j - Len(front)]
    BY <1>2, <1>3, ConcatProperties
<1>6. Len(Without(s, i)) = Len(s) - 1
    BY <1>1, <1>2, <1>3, <1>4, <1>5
<1>7. ASSUME NEW j \in 1 .. Len(s) - 1
      PROVE  Without(s, i)[j] = IF j < i THEN s[j] ELSE s[j + 1]
  <2>1. (front \o back)[j] = IF j <= i - 1 THEN front[j] ELSE back[j - (i - 1)]
    <3>1. j \in 1 .. Len(front) + Len(back)
      BY <1>1, <1>2, <1>3
    <3>2. (front \o back)[j] = IF j <= Len(front) THEN front[j] ELSE back[j - Len(front)]
      BY <1>5, <3>1, Zenon
    <3> QED
      BY <1>2, <3>2, Zenon
  <2>2. CASE j < i
    BY <1>1, <1>2, <1>4, <2>1, <2>2
  <2>3. CASE ~(j < i)
    <3>1. j - (i - 1) \in 1 .. Len(s) - i /\ (j - (i - 1)) + i = j + 1
      BY <1>1, <2>3
    <3>2. back[j - (i - 1)] = s[(j - (i - 1)) + i]
      BY <1>3, <3>1
    <3> QED
      BY <1>1, <1>4, <2>1, <2>3, <3>1, <3>2
  <2> QED
    BY <2>2, <2>3
<1> QED
    BY <1>4, <1>5, <1>6, <1>7

\* What remains was there.
LEMMA OthersRemain ==
    ASSUME NEW R, NEW s \in Seq(R), NEW i \in DOMAIN s, NEW j \in DOMAIN Without(s, i)
    PROVE  \E m \in DOMAIN s : m # i /\ Without(s, i)[j] = s[m]
<1> DEFINE w == Without(s, i)
<1>1. /\ w \in Seq(R) /\ Len(w) = Len(s) - 1
      /\ \A m \in 1 .. Len(s) - 1 : w[m] = IF m < i THEN s[m] ELSE s[m + 1]
    BY WithoutOne
<1>2. j \in DOMAIN w
    OBVIOUS
<1> HIDE DEF w
<1>3. j \in 1 .. Len(s) - 1 /\ i \in 1 .. Len(s) /\ Len(s) \in Nat /\ DOMAIN s = 1 .. Len(s)
    BY <1>1, <1>2, SMT
<1>4. \E m \in DOMAIN s : m # i /\ w[j] = s[m]
  <2>1. CASE j < i
      BY <1>1, <1>3, <2>1, SMT
  <2>2. CASE ~(j < i)
    <3>1. j + 1 \in DOMAIN s /\ j + 1 # i /\ w[j] = s[j + 1]
        BY <1>1, <1>3, <2>2, SMT
    <3> QED
        BY <3>1
  <2> QED
      BY <2>1, <2>2
<1> QED
    BY <1>4 DEF w

-----------------------------------------------------------------------------
(* Types, and the thread a mutex belongs to.                                *)

\* The types hold at the start.
LEMMA InitTyped == RequestsInit => Typed
<1> SUFFICES ASSUME RequestsInit PROVE Typed
    OBVIOUS
<1> USE DEF RequestsInit
<1>1. ControlTyped
    BY SMT DEF ControlTyped, Threads, Steps, Resumed
<1>2. DataTyped
    BY PoolAssumption, SMT DEF DataTyped, NoCall, Call, CallKinds, Kinds, PacketIds
<1>3. CallsMatch /\ PendingMatch
    BY SMT DEF CallsMatch, PendingMatch
<1> QED
    BY <1>1, <1>2, <1>3 DEF Typed

\* The status, the mutexes and the steps of the threads.
LEMMA ControlStep ==
    ASSUME ControlTyped, RequestsNext
    PROVE  ControlTyped'
<1> USE DEF ControlTyped, Goes, Steps, Resumed
<1>1. ASSUME NEW t \in Threads, NEW kind \in Kinds, RequestBegins(t, kind) PROVE ControlTyped'
    BY <1>1, SMT DEF RequestBegins, lockVars
<1>2. ASSUME NEW t \in Threads, PublishBegins(t) \/ DisconnectBegins(t) PROVE ControlTyped'
    BY <1>2, SMT DEF PublishBegins, DisconnectBegins, lockVars
<1>3. ASSUME NEW t \in Threads, RequestIdentified(t) \/ RequestPushes(t) PROVE ControlTyped'
    BY <1>3, SMT DEF RequestIdentified, RequestPushes, lockVars
<1>4. ASSUME NEW t \in Threads, AddToQueue(t) \/ CallbackReturns(t) PROVE ControlTyped'
    BY <1>4, SMT DEF AddToQueue, CallbackReturns, Returns, lockVars
<1>5. ASSUME NEW t \in Threads, InternalDisconnect(t) PROVE ControlTyped'
    BY <1>5, SMT DEF InternalDisconnect, Returns, Ends
<1>6. ASSUME NEW t \in Threads, CancelComposer(t) PROVE ControlTyped'
    BY <1>6, SMT DEF CancelComposer, AfterCancelling
<1>7. ASSUME NEW t \in Threads, ClearState(t) PROVE ControlTyped'
    BY <1>7, SMT DEF ClearState, Unlocks, Dispatch, AfterDisconnect
<1>8. ASSUME ConnectionLost \/ TickSendPackets \/ TickUnconnected PROVE ControlTyped'
    BY <1>8, SMT DEF ConnectionLost, TickSendPackets, TickUnconnected, Ends, lockVars, Threads
<1>9. ASSUME BatchSent \/ AllReceived \/ RedirectionStarted \/ InvokeEvents PROVE ControlTyped'
    BY <1>9, SMT DEF BatchSent, AllReceived, RedirectionStarted, InvokeEvents, Unlocks, lockVars, Threads
<1>10. ASSUME AnswerReceived PROVE ControlTyped'
    BY <1>10, SMT DEF AnswerReceived, Dispatch, lockVars, Threads
<1>11. ASSUME RedirectionReceived PROVE ControlTyped'
    BY <1>11, SMT DEF RedirectionReceived, Dispatch, Threads
<1>12. ASSUME Connect \/ ConnectFails PROVE ControlTyped'
    BY <1>12, SMT DEF Connect, ConnectFails, lockVars, threadVars, Threads
<1>13. ASSUME NEW answer, BrokerSends(answer) PROVE ControlTyped'
    BY <1>13, SMT DEF BrokerSends, lockVars, threadVars
<1>14. ASSUME NextAddress \/ RedirectionSocketFails PROVE ControlTyped'
    BY <1>14, SMT DEF NextAddress, RedirectionSocketFails, Dispatch, lockVars, Threads
<1>15. ASSUME RedirectionFails \/ RedirectionFailed \/ ClosingTold PROVE ControlTyped'
  <2>1. CASE RedirectionFails
      BY <2>1, SMT DEF RedirectionFails, lockVars, Threads
  <2>2. CASE RedirectionFailed
      BY <2>2, SMT DEF RedirectionFailed, Dispatch, lockVars, Threads
  <2>3. CASE ClosingTold
      BY <2>3, SMT DEF ClosingTold, Dispatch, lockVars, Threads
  <2> QED
      BY <1>15, <2>1, <2>2, <2>3
<1> HIDE DEF ControlTyped
<1> QED
    BY <1>1, <1>2, <1>3, <1>4, <1>5, <1>6, <1>7, <1>8, <1>9, <1>10, <1>11, <1>12, <1>13, <1>14,
       <1>15
    DEF RequestsNext, ThreadStep, TickStep, BrokerAnswers, BrokerAnswersUnasked
\* Dispatching an event defers it.
LEMMA EventAppended ==
    ASSUME DataTyped, NEW event \in Events
    PROVE  Append(m_events, event) \in Seq(Events)
BY AppendProperties DEF DataTyped

\* What is pending, queued, with the broker and received.
LEMMA DataStep ==
    ASSUME PoolInv, Typed, RequestsNext
    PROVE  DataTyped'
<1> USE DEF DataTyped
<1> DataTyped /\ ControlTyped /\ CallsMatch
    BY DEF Typed
<1>1. ASSUME NEW t \in Threads, NEW kind \in Kinds, RequestBegins(t, kind) PROVE DataTyped'
  <2>1. [kind |-> kind, id |-> 0, request |-> requests'] \in Call /\ requests' \in Nat
      BY <1>1, PoolAssumption, SMT DEF RequestBegins, Call, CallKinds
  <2> QED
      BY <1>1, <2>1, SMT DEF RequestBegins, queueVars, wireVars
<1>2. ASSUME NEW t \in Threads, PublishBegins(t) \/ DisconnectBegins(t) PROVE DataTyped'
  <2>1. /\ [NoCall EXCEPT !.kind = "publish"] \in Call
        /\ [NoCall EXCEPT !.kind = "disconnect"] \in Call
      BY PoolAssumption, SMT DEF Call, CallKinds, NoCall
  <2>2. call' \in [Threads -> Call]
      BY <1>2, <2>1 DEF PublishBegins, DisconnectBegins
  <2>3. requests' \in Nat
      BY <1>2, SMT DEF PublishBegins, DisconnectBegins
  <2> QED
      BY <1>2, <2>2, <2>3 DEF PublishBegins, DisconnectBegins, queueVars, wireVars
<1>3. ASSUME NEW t \in Threads, RequestIdentified(t) PROVE DataTyped'
  <2>1. NextId \in 1 .. PoolSize
      BY <1>3, NextIdIsFree DEF RequestIdentified
  <2>2. NextId \in PacketIds /\ NextId \in 0 .. MaxPacketId
      BY <2>1, PoolAssumption, SMT DEF PacketIds
  <2>3. call[t].kind \in Kinds
      BY <1>3 DEF RequestIdentified, CallsMatch
  <2>4. call' \in [Threads -> Call]
    <3>1. [call[t] EXCEPT !.id = NextId] \in Call
      <4>1. call[t] \in Call
          OBVIOUS
      <4> QED
          BY ONLY <2>2, <4>1, SMT DEF Call
    <3>2. call' = [call EXCEPT ![t] = [call[t] EXCEPT !.id = NextId]]
        BY <1>3 DEF RequestIdentified
    <3> QED
        BY <3>1, <3>2
  <2>5. holder' \in [PacketIds -> {"none"} \union Kinds]
      BY <1>3, <2>2, <2>3 DEF RequestIdentified
  <2> QED
      BY <1>3, <2>4, <2>5 DEF RequestIdentified, queueVars, wireVars, countVars
<1>4. ASSUME NEW t \in Threads, RequestPushes(t) PROVE DataTyped'
  <2>1. call[t] \in Request /\ call[t].kind \in Kinds
      BY <1>4, SMT DEF RequestPushes, CallsMatch, Call, Request
  <2>2. Append(pending[call[t].kind], call[t]) \in Seq(Request)
      BY <2>1, AppendProperties
  <2>3. pending' \in [Kinds -> Seq(Request)]
      BY <1>4, <2>1, <2>2 DEF RequestPushes
  <2> QED
      BY <1>4, <2>3 DEF RequestPushes, queueVars, wireVars, countVars
<1>5. ASSUME NEW t \in Threads, AddToQueue(t) PROVE DataTyped'
  <2>1. NoCall \in Call /\ call[t] \in Call /\ call[t].kind # "none"
      BY <1>5, PoolAssumption, SMT DEF AddToQueue, CallsMatch, NoCall, Call, CallKinds
  <2>2. call[t].kind # "publish" => call[t] \in Composer
      BY <2>1, SMT DEF Call, CallKinds, Composer
  <2>3. batch' \in Seq(Composer)
      BY <1>5, <2>2, SMT DEF AddToQueue
  <2> QED
      BY <1>5, <2>1, <2>3, SMT DEF AddToQueue, wireVars, countVars
<1>6. ASSUME NEW t \in Threads, InternalDisconnect(t) PROVE DataTyped'
  <2>1. NoCall \in Call
      BY PoolAssumption, SMT DEF NoCall, Call, CallKinds
  <2> QED
      BY <1>6, <2>1 DEF InternalDisconnect, Ends, queueVars
<1>7. ASSUME NEW t \in Threads, CancelComposer(t) PROVE DataTyped'
  <2>1. batch' \in Seq(Composer)
      BY <1>7, HeadTailProperties DEF CancelComposer
  <2> QED
      BY <1>7, <2>1 DEF CancelComposer, wireVars, countVars
<1>8. ASSUME NEW t \in Threads, ClearState(t) PROVE DataTyped'
  <2>1. m_events' \in Seq(Events)
      BY <1>8, EventAppended DEF ClearState, Dispatch, Events
  <2>2. pending' \in [Kinds -> Seq(Request)]
    <3>1. "subscribe" \in Kinds /\ Subs \in Seq(Request)
        BY DEF Kinds, Subs
    <3>2. Subs # <<>> => Tail(Subs) \in Seq(Request)
        BY <3>1, HeadTailProperties
    <3> QED
        BY <1>8, <3>1, <3>2 DEF ClearState, Subs
  <2> QED
      BY <1>8, <2>1, <2>2 DEF ClearState, queueVars, wireVars, countVars
<1>9. ASSUME NEW t \in Threads, CallbackReturns(t) PROVE DataTyped'
    BY <1>9 DEF CallbackReturns, queueVars, wireVars, countVars
<1>10. ASSUME ConnectionLost \/ TickUnconnected \/ BatchSent \/ AllReceived \/ RedirectionStarted
       PROVE  DataTyped'
  <2>1. CASE ConnectionLost
      BY <2>1, SMT DEF ConnectionLost, Ends, queueVars
  <2>2. CASE TickUnconnected \/ BatchSent
      BY <2>2, SMT DEF TickUnconnected, BatchSent, queueVars, wireVars, countVars
  <2>3. CASE AllReceived \/ RedirectionStarted
      BY <2>3, SMT DEF AllReceived, RedirectionStarted, queueVars, wireVars, countVars
  <2> QED
      BY <1>10, <2>1, <2>2, <2>3
<1>11. ASSUME TickSendPackets PROVE DataTyped'
  <2> DEFINE sent == {batch[i] : i \in DOMAIN batch}
  <2>1. ASSUME ~\E c \in sent : c.kind = "disconnect" PROVE sent \subseteq Request
    <3>1. ASSUME NEW i \in DOMAIN batch PROVE batch[i] \in Request
      <4>1. batch[i] \in Composer /\ batch[i].kind # "disconnect"
          BY <2>1, SMT
      <4> QED
          BY <4>1, SMT DEF Composer, Request
    <3> QED
        BY <3>1
  <2>2. broker' \subseteq Request
      BY <1>11, <2>1 DEF TickSendPackets, Ends
  <2> QED
      BY <1>11, <2>2, SMT DEF TickSendPackets
<1>12. ASSUME InvokeEvents PROVE DataTyped'
  <2>1. m_events' \in Seq(Events)
    <3>1. m_events # <<>> => Tail(m_events) \in Seq(Events)
        BY HeadTailProperties
    <3> QED
        BY <1>12, <3>1 DEF InvokeEvents
  <2> QED
      BY <1>12, <2>1 DEF InvokeEvents, queueVars, wireVars, countVars
<1>13. ASSUME AnswerReceived PROVE DataTyped'
  <2>1. m_events' \in Seq(Events)
      BY <1>13, EventAppended DEF AnswerReceived, Dispatch, Events
  <2>3. received' \in Seq(Request)
      BY <1>13, HeadTailProperties DEF AnswerReceived
  <2>2. pending' \in [Kinds -> Seq(Request)]
    <3> DEFINE k == Head(received).kind
    <3>1. CASE UNCHANGED pending
        BY <3>1
    <3>2. ASSUME NEW i \in DOMAIN pending[k], pending' = [pending EXCEPT ![k] = Without(@, i)]
          PROVE  pending' \in [Kinds -> Seq(Request)]
      <4>1. Head(received) \in Request
          BY <1>13, SMT DEF AnswerReceived
      <4>2. k \in Kinds /\ pending[k] \in Seq(Request)
          BY <4>1 DEF Request
      <4>3. Without(pending[k], i) \in Seq(Request)
          BY <4>2, WithoutOne
      <4> QED
          BY <3>2, <4>2, <4>3
    <3> QED
        BY <1>13, <3>1, <3>2 DEF AnswerReceived, PendingOf
  <2> QED
      BY <1>13, <2>1, <2>2, <2>3 DEF AnswerReceived, queueVars, countVars
<1>14. ASSUME RedirectionReceived PROVE DataTyped'
  <2>1. m_events' \in Seq(Events) /\ received' \in Seq(Request)
      BY <1>14, EventAppended, EmptySeq DEF RedirectionReceived, Dispatch, Events
  <2> QED
      BY <1>14, <2>1 DEF RedirectionReceived, queueVars
<1>15. ASSUME Connect \/ ConnectFails PROVE DataTyped'
    BY <1>15, EmptySeq DEF Connect, ConnectFails, queueVars, wireVars, threadVars, countVars
<1>16. ASSUME BrokerAnswers PROVE DataTyped'
    BY <1>16, SMT DEF BrokerAnswers, BrokerSends, queueVars, threadVars
<1>17. ASSUME BrokerAnswersUnasked PROVE DataTyped'
  <2>1. PICK kind \in Kinds, id \in PacketIds :
           /\ BrokerSends([kind |-> kind, id |-> id, request |-> 0])
           /\ strays' = strays + 1
           /\ UNCHANGED broker
      BY <1>17 DEF BrokerAnswersUnasked
  <2>2. [kind |-> kind, id |-> id, request |-> 0] \in Request
      BY PoolAssumption, SMT DEF Request, PacketIds
  <2>3. received' \in Seq(Request)
      BY <2>1, <2>2, SMT DEF BrokerSends
  <2> QED
      BY <2>1, <2>3, SMT DEF BrokerSends, queueVars, threadVars
<1>18. ASSUME \/ NextAddress \/ RedirectionFails \/ RedirectionFailed \/ ClosingTold
              \/ RedirectionSocketFails
       PROVE  DataTyped'
  <2>1. m_events' \in Seq(Events) /\ received' \in Seq(Request)
      BY <1>18, EventAppended, EmptySeq DEF NextAddress, RedirectionFails, RedirectionFailed,
         ClosingTold, RedirectionSocketFails, Dispatch, Events, wireVars
  <2>2. broker' \subseteq Request /\ UNCHANGED <<pending, batch, call, requests, strays, holder>>
      BY <1>18 DEF NextAddress, RedirectionFails, RedirectionFailed, ClosingTold,
         RedirectionSocketFails, AttemptOver, queueVars, wireVars, countVars
  <2> QED
      BY <2>1, <2>2
<1> HIDE DEF DataTyped
<1> QED
    BY <1>1, <1>2, <1>3, <1>4, <1>5, <1>6, <1>7, <1>8, <1>9, <1>10, <1>11, <1>12, <1>13, <1>14,
       <1>15, <1>16, <1>17, <1>18
    DEF RequestsNext, ThreadStep, TickStep
\* Nothing goes on after the process has ended.
LEMMA StepsAreAlive == RequestsNext => crashed = "no"
BY DEF RequestsNext, ThreadStep, TickStep, RequestBegins, PublishBegins, DisconnectBegins, MayCall,
   RequestIdentified, GetId, GetReleasedId, GetFreshId, RequestPushes, AddToQueue,
   InternalDisconnect, CancelComposer, ClearState, CallbackReturns, ConnectionLost,
   TickSendPackets, TickUnconnected, BatchSent, AnswerReceived, AllReceived, RedirectionReceived,
   RedirectionStarted, NextAddress, RedirectionFails, RedirectionFailed, ClosingTold,
   RedirectionSocketFails, AttemptOver, InvokeEvents, Connect, ConnectFails, BrokerAnswers,
   BrokerAnswersUnasked, BrokerSends

\* A thread makes the call its step belongs to.
LEMMA CallsStep ==
    ASSUME PoolInv, Typed, RequestsNext
    PROVE  CallsMatch'
<1> USE DEF CallsMatch
<1>a. ControlTyped /\ DataTyped /\ CallsMatch /\ crashed = "no"
    BY StepsAreAlive DEF Typed
<1>b. pc \in [Threads -> Steps] /\ call \in [Threads -> Call] /\ resume \in [Threads -> Resumed]
    BY <1>a DEF ControlTyped, DataTyped
<1>c. \A t \in Threads : resume[t] \notin {"identify", "push", "add", "lock"}
    BY <1>b, SMT DEF Resumed
<1>d. "tick" \in Threads
    BY DEF Threads
<1>1. ASSUME NEW t \in Threads, NEW kind \in Kinds, RequestBegins(t, kind) PROVE CallsMatch'
    BY <1>1, <1>a, <1>b, SMT DEF RequestBegins, Goes
<1>2. ASSUME NEW t \in Threads, PublishBegins(t) PROVE CallsMatch'
    BY <1>2, <1>a, <1>b, SMT DEF PublishBegins, Goes, NoCall
<1>3. ASSUME NEW t \in Threads, DisconnectBegins(t) PROVE CallsMatch'
    BY <1>3, <1>a, <1>b, SMT DEF DisconnectBegins, Goes, NoCall
<1>4. ASSUME NEW t \in Threads, RequestIdentified(t) PROVE CallsMatch'
  <2>1. crashed' = "no" => NextId \in 1 .. PoolSize - 1
      BY <1>4, NextIdIsFree DEF RequestIdentified
  <2> QED
      BY <1>4, <1>a, <1>b, <2>1, SMT DEF RequestIdentified, Goes, Call
<1>5. ASSUME NEW t \in Threads, RequestPushes(t) PROVE CallsMatch'
    BY <1>5, <1>a, <1>b, SMT DEF RequestPushes, Goes, Kinds
<1>6. ASSUME NEW t \in Threads, AddToQueue(t) PROVE CallsMatch'
    BY <1>6, <1>a, <1>b, <1>c, SMT DEF AddToQueue, Goes, Returns
<1>7. ASSUME NEW t \in Threads, InternalDisconnect(t) PROVE CallsMatch'
    BY <1>7, <1>a, <1>b, <1>c, SMT DEF InternalDisconnect, Goes, Returns
<1>8. ASSUME NEW t \in Threads, CancelComposer(t) PROVE CallsMatch'
    BY <1>8, <1>a, <1>b, SMT DEF CancelComposer, AfterCancelling, Goes, vars
<1>9. ASSUME NEW t \in Threads, ClearState(t) PROVE CallsMatch'
    BY <1>9, <1>a, <1>b, SMT DEF ClearState, Dispatch, AfterDisconnect, Goes
<1>10. ASSUME NEW t \in Threads, CallbackReturns(t) PROVE CallsMatch'
    BY <1>10, <1>a, <1>b, <1>c, SMT DEF CallbackReturns, Goes, Returns
<1>11. ASSUME ConnectionLost \/ TickUnconnected \/ BatchSent \/ AllReceived \/ RedirectionStarted
              \/ ConnectFails
       PROVE  CallsMatch'
    BY <1>11, <1>a, <1>b, <1>d, SMT DEF ConnectionLost, TickUnconnected, BatchSent, AllReceived,
       RedirectionStarted, ConnectFails, Goes, vars
<1>12. ASSUME TickSendPackets PROVE CallsMatch'
    BY <1>12, <1>a, <1>b, <1>d, SMT DEF TickSendPackets, Goes
<1>13. ASSUME InvokeEvents PROVE CallsMatch'
    BY <1>13, <1>a, <1>b, <1>d, SMT DEF InvokeEvents, Goes
<1>e. ASSUME NEW event, NEW next \in {"receive", "redirect", "closed", "events"},
             Dispatch("tick", event, next), UNCHANGED call
      PROVE  CallsMatch'
  <2>1. PICK step \in {"receive", "redirect", "closed", "events", "callback"} :
           pc' = [pc EXCEPT !["tick"] = step]
      BY <1>e DEF Dispatch, Goes
  <2>2. /\ \A t \in Threads : pc'[t] = pc[t] \/ pc'[t] \notin {"identify", "push", "add", "lock"}
        /\ PoolSize' = PoolSize
      BY <1>b, <2>1, SMT
  <2> QED
      BY <1>a, <1>e, <2>2
<1>14. ASSUME AnswerReceived \/ RedirectionReceived PROVE CallsMatch'
  <2>1. CASE AnswerReceived /\ UNCHANGED pc
      BY <2>1, <1>a DEF AnswerReceived
  <2> QED
      BY <1>14, <1>e, <2>1 DEF AnswerReceived, RedirectionReceived
<1>15. ASSUME Connect PROVE CallsMatch'
    BY <1>15, <1>a DEF Connect, threadVars
<1>16. ASSUME NEW answer, BrokerSends(answer) PROVE CallsMatch'
    BY <1>16, <1>a DEF BrokerSends, threadVars
<1>17. ASSUME NextAddress \/ RedirectionSocketFails \/ RedirectionFailed PROVE CallsMatch'
    BY <1>17, <1>e DEF NextAddress, RedirectionSocketFails, RedirectionFailed
<1>18. ASSUME RedirectionFails PROVE CallsMatch'
    BY <1>18, <1>a, <1>b, <1>d, SMT DEF RedirectionFails, Goes
<1>19. ASSUME ClosingTold PROVE CallsMatch'
  <2>1. CASE Goes("tick", "events")
      BY <1>19, <1>a, <1>b, <1>d, <2>1, SMT DEF ClosingTold, Goes
  <2> QED
      BY <1>19, <1>e, <2>1 DEF ClosingTold
<1> HIDE DEF CallsMatch
<1> QED
    BY <1>1, <1>2, <1>3, <1>4, <1>5, <1>6, <1>7, <1>8, <1>9, <1>10, <1>11, <1>12, <1>13, <1>14,
       <1>15, <1>16, <1>17, <1>18, <1>19
    DEF RequestsNext, ThreadStep, TickStep, BrokerAnswers, BrokerAnswersUnasked

\* The pending requests are changed by a push, by clearState and by an answer.
LEMMA PendingStep ==
    ASSUME PoolInv, Typed, RequestsNext
    PROVE  PendingMatch'
<1> USE DEF PendingMatch
<1>a. DataTyped /\ CallsMatch /\ PendingMatch /\ crashed = "no"
    BY StepsAreAlive DEF Typed
<1>b. pending \in [Kinds -> Seq(Request)]
    BY <1>a DEF DataTyped
<1>1. ASSUME NEW t \in Threads, RequestPushes(t) PROVE PendingMatch'
  <2>1. /\ call[t].kind \in Kinds /\ call[t].id \in 1 .. PoolSize - 1
        /\ pending' = [pending EXCEPT ![call[t].kind] = Append(@, call[t])]
      BY <1>1, <1>a DEF RequestPushes, CallsMatch
  <2> QED
      BY <1>a, <1>b, <2>1, SMT
<1>2. ASSUME NEW t \in Threads, ClearState(t) PROVE PendingMatch'
  <2>1. CASE UNCHANGED pending
      BY <2>1, <1>a
  <2>2. CASE Subs # <<>> /\ pending' = [pending EXCEPT !["subscribe"] = Tail(@)]
    <3>1. "subscribe" \in Kinds /\ Subs \in Seq(Request)
        BY <1>b DEF Kinds, Subs
    <3>2. /\ Tail(Subs) \in Seq(Request)
          /\ \A i \in DOMAIN Tail(Subs) : i + 1 \in DOMAIN Subs /\ Tail(Subs)[i] = Subs[i + 1]
        BY <2>2, <3>1, SMT
    <3> QED
        BY <1>a, <1>b, <2>2, <3>1, <3>2 DEF Subs
  <2> QED
      BY <1>2, <2>1, <2>2 DEF ClearState, Subs
<1>3. ASSUME AnswerReceived PROVE PendingMatch'
  <2> DEFINE k == Head(received).kind
  <2>1. CASE UNCHANGED pending
      BY <2>1, <1>a
  <2>2. ASSUME NEW i \in DOMAIN pending[k], pending' = [pending EXCEPT ![k] = Without(@, i)]
        PROVE  PendingMatch'
    <3>1. k \in Kinds /\ pending[k] \in Seq(Request)
      <4>1. Head(received) \in Request
          BY <1>3, <1>a, HeadTailProperties DEF AnswerReceived, DataTyped
      <4> QED
          BY <1>b, <4>1 DEF Request
    <3>2. \A j \in DOMAIN Without(pending[k], i) : \E m \in DOMAIN pending[k] :
             Without(pending[k], i)[j] = pending[k][m]
        BY <3>1, OthersRemain
    <3> QED
        BY <1>a, <1>b, <2>2, <3>1, <3>2
  <2> QED
      BY <1>3, <2>1, <2>2 DEF AnswerReceived, PendingOf
<1>4. CASE UNCHANGED pending
    BY <1>4, <1>a
<1>5. ASSUME NEW t \in Threads,
             \/ \E kind \in Kinds : RequestBegins(t, kind)
             \/ PublishBegins(t) \/ DisconnectBegins(t) \/ RequestIdentified(t) \/ AddToQueue(t)
             \/ InternalDisconnect(t) \/ CancelComposer(t) \/ CallbackReturns(t)
      PROVE  UNCHANGED pending
    BY <1>5 DEF RequestBegins, PublishBegins, DisconnectBegins, RequestIdentified, AddToQueue,
       InternalDisconnect, CancelComposer, CallbackReturns
<1>6. ASSUME \/ ConnectionLost \/ TickSendPackets \/ TickUnconnected \/ BatchSent \/ AllReceived
             \/ RedirectionStarted \/ InvokeEvents \/ RedirectionReceived \/ Connect
             \/ NextAddress \/ RedirectionFails \/ RedirectionFailed \/ ClosingTold
             \/ RedirectionSocketFails \/ ConnectFails \/ BrokerAnswers \/ BrokerAnswersUnasked
      PROVE  UNCHANGED pending
    BY <1>6 DEF ConnectionLost, TickSendPackets, TickUnconnected, BatchSent, AllReceived,
       RedirectionStarted, InvokeEvents, RedirectionReceived, NextAddress, RedirectionFails,
       RedirectionFailed, ClosingTold, RedirectionSocketFails, Connect, ConnectFails,
       BrokerAnswers, BrokerAnswersUnasked, BrokerSends
<1> HIDE DEF PendingMatch
<1> QED
    BY <1>1, <1>2, <1>3, <1>4, <1>5, <1>6 DEF RequestsNext, ThreadStep, TickStep
\* Steps of the composition keep the types, and so do steps of other components.
LEMMA TypedStep ==
    ASSUME PoolInv, Typed, [RequestsNext]_requestsVars
    PROVE  Typed'
<1>1. CASE RequestsNext
    BY <1>1, ControlStep, DataStep, CallsStep, PendingStep DEF Typed
<1>2. CASE UNCHANGED requestsVars
    BY <1>2 DEF requestsVars, vars, lockVars, queueVars, wireVars, threadVars, countVars, Typed,
       ControlTyped, DataTyped, CallsMatch, PendingMatch
<1> QED
    BY <1>1, <1>2

-----------------------------------------------------------------------------
(* The pool: getId and releaseId are all that is done to it.                *)

\* Every step is a step of the pool or none.
LEMMA PoolStep ==
    ASSUME PoolInv, Typed, [RequestsNext]_requestsVars
    PROVE  [Next]_vars
<1>1. ASSUME NEW t \in Threads, RequestIdentified(t) PROVE [Next]_vars
    BY <1>1 DEF RequestIdentified, Next
<1>2. ASSUME NEW t \in Threads, CancelComposer(t) PROVE [Next]_vars
  <2>1. CASE batch # <<>> /\ Releases(Head(batch).id)
    <3>1. Head(batch) \in Composer
        BY <2>1, HeadTailProperties DEF Typed, DataTyped
    <3>2. Head(batch).id \in 0 .. MaxPacketId
        BY <3>1 DEF Composer
    <3> QED
        BY <1>2, <2>1, <3>2, ReleasesIsAStep DEF CancelComposer
  <2> QED
      BY <1>2, <2>1 DEF CancelComposer
<1>3. ASSUME NEW t \in Threads, ClearState(t) PROVE [Next]_vars
  <2>1. CASE Subs # <<>> /\ Releases(Head(Subs).id)
    <3>1. "subscribe" \in Kinds /\ Subs \in Seq(Request)
        BY DEF Kinds, Subs, Typed, DataTyped
    <3>2. Head(Subs) \in Request
        BY <2>1, <3>1, HeadTailProperties
    <3>3. Head(Subs).id \in 0 .. MaxPacketId
        BY <3>2 DEF Request
    <3> QED
        BY <1>3, <2>1, <3>3, ReleasesIsAStep DEF ClearState
  <2> QED
      BY <1>3, <2>1 DEF ClearState, Subs
<1>4. ASSUME AnswerReceived PROVE [Next]_vars
  <2>1. Head(received) \in Request
      BY <1>4, HeadTailProperties DEF AnswerReceived, Typed, DataTyped
  <2>2. Head(received).id \in 0 .. MaxPacketId
      BY <2>1 DEF Request
  <2> QED
      BY <1>4, <2>2, ReleasesIsAStep DEF AnswerReceived
<1>5. ASSUME NEW t \in Threads,
             \/ \E kind \in Kinds : RequestBegins(t, kind)
             \/ PublishBegins(t) \/ DisconnectBegins(t) \/ RequestPushes(t) \/ AddToQueue(t)
             \/ InternalDisconnect(t) \/ CallbackReturns(t)
      PROVE  UNCHANGED vars
    BY <1>5 DEF RequestBegins, PublishBegins, DisconnectBegins, RequestPushes, AddToQueue,
       InternalDisconnect, CallbackReturns
<1>6. ASSUME \/ ConnectionLost \/ TickSendPackets \/ TickUnconnected \/ BatchSent \/ AllReceived
             \/ RedirectionStarted \/ InvokeEvents \/ RedirectionReceived \/ Connect
             \/ NextAddress \/ RedirectionFails \/ RedirectionFailed \/ ClosingTold
             \/ RedirectionSocketFails \/ ConnectFails \/ BrokerAnswers \/ BrokerAnswersUnasked
      PROVE  UNCHANGED vars
    BY <1>6 DEF ConnectionLost, TickSendPackets, TickUnconnected, BatchSent, AllReceived,
       RedirectionStarted, InvokeEvents, RedirectionReceived, NextAddress, RedirectionFails,
       RedirectionFailed, ClosingTold, RedirectionSocketFails, Connect, ConnectFails,
       BrokerAnswers, BrokerAnswersUnasked, BrokerSends
<1>7. CASE UNCHANGED requestsVars
    BY <1>7 DEF requestsVars
<1> QED
    BY <1>1, <1>2, <1>3, <1>4, <1>5, <1>6, <1>7 DEF RequestsNext, ThreadStep, TickStep

\* The pool and the types of what is made of it are kept together.
LEMMA RequestsTyped == RequestsSpec => [](PoolInv /\ Typed)
<1>1. RequestsInit => PoolInv /\ Typed
    BY InitPoolInv, InitTyped DEF RequestsInit
<1>2. PoolInv /\ Typed /\ [RequestsNext]_requestsVars => (PoolInv /\ Typed)'
    BY PoolStep, TypedStep, NextPoolInv
<1> QED
    BY <1>1, <1>2, PTL DEF RequestsSpec

\* The client's subscriptions, callbacks and disconnects use the pool as PacketIdPool
\* says it is used: whatever they do to it is getId or releaseId.
THEOREM RequestsUseThePool == RequestsSpec => Spec
<1>1. RequestsInit => Init
    BY DEF RequestsInit
<1>2. PoolInv /\ Typed /\ [RequestsNext]_requestsVars => [Next]_vars
    BY PoolStep
<1> QED
    BY <1>1, <1>2, RequestsTyped, PTL DEF RequestsSpec, Spec

\* No identifier is given to two requests at once, whatever threads and callbacks make
\* them and whatever the broker answers.
THEOREM RequestsNeverShareAnId == RequestsSpec => []NeverIssuedTwice
BY RequestsUseThePool, PoolNeverIssuesTwice, PTL

\* getId ends the process only when every identifier is in use: the client loses none.
THEOREM RequestsExhaustion == RequestsSpec => []ExhaustedOnlyWhenAllInUse
BY RequestsUseThePool, PoolExhaustion, PTL

\* The types, and that a request is pending with an identifier of the pool.
THEOREM RequestsTypeCorrect == RequestsSpec => []RequestsTypeOK
<1>1. PoolInv /\ Typed => RequestsTypeOK
  <2> SUFFICES ASSUME PoolInv, Typed PROVE RequestsTypeOK
      OBVIOUS
  <2>1. \A i \in DOMAIN m_events : m_events[i] \in {"answer", "disconnect", "reconnect", "connect"}
      BY SMT DEF Typed, DataTyped, Events
  <2>2. resume \in [Threads -> Steps]
      BY SMT DEF Typed, ControlTyped, Resumed, Steps
  <2> QED
      BY <2>1, <2>2 DEF RequestsTypeOK, Typed, ControlTyped, PendingMatch
<1> QED
    BY <1>1, RequestsTyped, PTL
-----------------------------------------------------------------------------
(* The end of a connection.                                                 *)

\* No disconnect comes between the event of a redirection and its start: the mutex is
\* held, and a callback that asked for it would wait.
LEMMA RedirectionStep ==
    ASSUME Typed, RedirectionLocked, RequestsNext
    PROVE  RedirectionLocked'
<1> USE DEF RedirectionLocked
<1>a. ControlTyped /\ DataTyped /\ CallsMatch /\ "tick" \in Threads /\ None # "tick" /\ None # "app"
    BY RequestsAssumption DEF Typed, Threads
<1>b. /\ pc \in [Threads -> Steps] /\ call \in [Threads -> Call]
      /\ resume \in [Threads -> Resumed]
    BY <1>a DEF ControlTyped, DataTyped
<1>1. ASSUME NEW t \in Threads, NEW kind \in Kinds, RequestBegins(t, kind)
      PROVE  RedirectionLocked'
    BY <1>1, <1>a, <1>b, SMT DEF RequestBegins, MayCall, OtherIdle, Goes, lockVars, Threads
<1>2. ASSUME NEW t \in Threads, PublishBegins(t) PROVE RedirectionLocked'
    BY <1>2, <1>a, <1>b, SMT DEF PublishBegins, MayCall, OtherIdle, Goes, lockVars, NoCall, Threads
<1>3. ASSUME NEW t \in Threads, DisconnectBegins(t) PROVE RedirectionLocked'
    BY <1>3, <1>a, <1>b, SMT DEF DisconnectBegins, MayCall, OtherIdle, Goes, lockVars, NoCall, Threads
<1>4. ASSUME NEW t \in Threads, RequestIdentified(t) PROVE RedirectionLocked'
    BY <1>4, <1>a, <1>b, SMT DEF RequestIdentified, Goes, lockVars, Threads
<1>5. ASSUME NEW t \in Threads, RequestPushes(t) PROVE RedirectionLocked'
    BY <1>5, <1>a, <1>b, SMT DEF RequestPushes, Goes, lockVars, Threads
<1>6. ASSUME NEW t \in Threads, AddToQueue(t) PROVE RedirectionLocked'
    BY <1>6, <1>a, <1>b, SMT DEF AddToQueue, Goes, Returns, Threads, NoCall
<1>7. ASSUME NEW t \in Threads, InternalDisconnect(t) PROVE RedirectionLocked'
    BY <1>7, <1>a, <1>b, SMT DEF InternalDisconnect, Goes, Returns, Threads
<1>8. ASSUME NEW t \in Threads, CancelComposer(t) PROVE RedirectionLocked'
    BY <1>8, <1>a, <1>b, SMT DEF CancelComposer, AfterCancelling, Goes, Threads
<1>9. ASSUME NEW t \in Threads, ClearState(t) PROVE RedirectionLocked'
    BY <1>9, <1>a, <1>b, SMT DEF ClearState, Unlocks, Dispatch, AfterDisconnect, Goes, Threads
<1>10. ASSUME NEW t \in Threads, CallbackReturns(t) PROVE RedirectionLocked'
    BY <1>10, <1>a, <1>b, SMT DEF CallbackReturns, Goes, Returns, lockVars, Threads
<1>11. ASSUME ConnectionLost \/ TickUnconnected \/ BatchSent \/ AllReceived \/ RedirectionStarted
              \/ ConnectFails \/ TickSendPackets
       PROVE  RedirectionLocked'
    BY <1>11, <1>a, <1>b, SMT DEF ConnectionLost, TickUnconnected, BatchSent, AllReceived,
       RedirectionStarted, ConnectFails, TickSendPackets, Goes, lockVars, Threads
<1>12. ASSUME InvokeEvents PROVE RedirectionLocked'
    BY <1>12, <1>a, <1>b, SMT DEF InvokeEvents, Unlocks, Goes, lockVars
<1>13. ASSUME AnswerReceived \/ RedirectionReceived PROVE RedirectionLocked'
    BY <1>13, <1>a, <1>b, SMT DEF AnswerReceived, RedirectionReceived, Dispatch, Goes, lockVars
<1>14. ASSUME Connect PROVE RedirectionLocked'
    BY <1>14, <1>a, <1>b DEF Connect, threadVars, lockVars
<1>15. ASSUME NEW answer, BrokerSends(answer) PROVE RedirectionLocked'
    BY <1>15, <1>a, <1>b DEF BrokerSends, threadVars, lockVars
<1>16. ASSUME NextAddress \/ RedirectionSocketFails PROVE RedirectionLocked'
    BY <1>16, <1>a, <1>b, SMT DEF NextAddress, RedirectionSocketFails, Dispatch, Goes, lockVars
<1>17. ASSUME RedirectionFails \/ RedirectionFailed \/ ClosingTold PROVE RedirectionLocked'
    BY <1>17, <1>a, <1>b, SMT DEF RedirectionFails, RedirectionFailed, ClosingTold, Dispatch, Goes,
       lockVars
<1> HIDE DEF RedirectionLocked
<1> QED
    BY <1>1, <1>2, <1>3, <1>4, <1>5, <1>6, <1>7, <1>8, <1>9, <1>10, <1>11, <1>12, <1>13, <1>14,
       <1>15, <1>16, <1>17
    DEF RequestsNext, ThreadStep, TickStep, BrokerAnswers, BrokerAnswersUnasked

\* Composers are cancelled and the state is cleared after the status has changed, and no
\* connection is made meanwhile.
LEMMA EndingStep ==
    ASSUME Typed, RedirectionLocked, EndingIsDisconnected, RequestsNext
    PROVE  EndingIsDisconnected'
<1> USE DEF EndingIsDisconnected
<1>a. ControlTyped /\ received \in Seq(Request) /\ Threads = {"app", "tick"} /\ RedirectionLocked
    BY DEF Typed, DataTyped, Threads
<1>b. pc \in [Threads -> Steps] /\ resume \in [Threads -> Resumed]
    BY <1>a DEF ControlTyped
<1>c. \A t \in Threads : resume[t] \notin {"cancel", "clear", "abandon", "failed"}
    BY <1>b, SMT DEF Resumed
<1>1. ASSUME NEW t \in Threads, NEW kind \in Kinds, RequestBegins(t, kind)
      PROVE  EndingIsDisconnected'
    BY <1>1, <1>a, <1>b, SMT DEF RequestBegins, Goes, wireVars
<1>2. ASSUME NEW t \in Threads, PublishBegins(t) \/ DisconnectBegins(t)
      PROVE  EndingIsDisconnected'
    BY <1>2, <1>a, <1>b, SMT DEF PublishBegins, DisconnectBegins, Goes, wireVars
<1>12. ASSUME NEW t \in Threads, RequestIdentified(t) \/ RequestPushes(t)
      PROVE  EndingIsDisconnected'
    BY <1>12, <1>a, <1>b, SMT DEF RequestIdentified, RequestPushes, Goes, wireVars
<1>3. ASSUME NEW t \in Threads, AddToQueue(t) \/ CallbackReturns(t) PROVE EndingIsDisconnected'
    BY <1>3, <1>a, <1>b, <1>c, SMT DEF AddToQueue, CallbackReturns, Returns, Goes, wireVars
<1>4. ASSUME NEW t \in Threads, InternalDisconnect(t) PROVE EndingIsDisconnected'
    BY <1>4, <1>a, <1>b, <1>c, SMT DEF InternalDisconnect, Ends, Returns, Goes
<1>5. ASSUME NEW t \in Threads, CancelComposer(t) PROVE EndingIsDisconnected'
    BY <1>5, <1>a, <1>b, SMT DEF CancelComposer, AfterCancelling, Goes, wireVars
<1>6. ASSUME NEW t \in Threads, ClearState(t) PROVE EndingIsDisconnected'
    BY <1>6, <1>a, <1>b, SMT DEF ClearState, Dispatch, AfterDisconnect, Goes, wireVars
<1>7. ASSUME ConnectionLost \/ TickSendPackets \/ ConnectFails PROVE EndingIsDisconnected'
    BY <1>7, <1>a, <1>b, SMT DEF ConnectionLost, TickSendPackets, ConnectFails, Ends, Goes
<1>8. ASSUME TickUnconnected \/ BatchSent \/ AllReceived \/ InvokeEvents
      PROVE  EndingIsDisconnected'
    BY <1>8, <1>a, <1>b, SMT DEF TickUnconnected, BatchSent, AllReceived, InvokeEvents, Goes,
       wireVars
<1>9. ASSUME AnswerReceived PROVE EndingIsDisconnected'
    BY <1>9, <1>a, <1>b, SMT DEF AnswerReceived, Dispatch, Goes
<1>13. ASSUME RedirectionReceived PROVE EndingIsDisconnected'
    BY <1>13, <1>a, <1>b, SMT DEF RedirectionReceived, Dispatch, Goes
<1>10. ASSUME RedirectionStarted PROVE EndingIsDisconnected'
    BY <1>10, <1>a, <1>b, SMT DEF RedirectionStarted, RedirectionLocked, Goes, wireVars
<1>11. ASSUME Connect PROVE EndingIsDisconnected'
    BY <1>11, <1>a, <1>b, SMT DEF Connect, threadVars
<1>14. ASSUME NEW answer, BrokerSends(answer) PROVE EndingIsDisconnected'
    BY <1>14, <1>a DEF BrokerSends, threadVars, RedirectionLocked
<1>15. ASSUME NextAddress \/ RedirectionSocketFails PROVE EndingIsDisconnected'
    BY <1>15, <1>a, <1>b, SMT DEF NextAddress, RedirectionSocketFails, AttemptOver, Dispatch, Goes
<1>16. ASSUME RedirectionFails PROVE EndingIsDisconnected'
    BY <1>16, <1>a, <1>b, SMT DEF RedirectionFails, AttemptOver, Goes
<1>17. ASSUME RedirectionFailed \/ ClosingTold PROVE EndingIsDisconnected'
    BY <1>17, <1>a, <1>b, SMT DEF RedirectionFailed, ClosingTold, Dispatch, Goes, wireVars
<1> HIDE DEF EndingIsDisconnected
<1> QED
    BY <1>1, <1>2, <1>3, <1>4, <1>5, <1>6, <1>7, <1>8, <1>9, <1>10, <1>11, <1>12, <1>13, <1>14,
       <1>15, <1>16, <1>17
    DEF RequestsNext, ThreadStep, TickStep, BrokerAnswers, BrokerAnswersUnasked
-----------------------------------------------------------------------------
(* Requests and their answers.                                              *)

\* What the steps of a connection that move no request keep: some requests may be lost
\* on the way, with the connection a redirection leaves.
LEMMA StaysConnected ==
    ASSUME Accounted, Connected,
           UNCHANGED <<pending, m_usedIds, holder, misreported>>, batch' = batch \/ Queued' = {},
           broker' \subseteq broker, received' = received \/ received' = <<>>,
           \A t \in Threads :
              /\ pc'[t] \in {"push", "add"} /\ call'[t].kind \in Kinds =>
                    pc'[t] = pc[t] /\ call'[t] = call[t]
              /\ pc[t] = "push" => pc'[t] = "push" /\ call'[t] = call[t]
    PROVE  Accounted' /\ Connected'
<1>1. \A t \in Identified' : t \in Identified /\ pc'[t] = pc[t] /\ call'[t] = call[t]
    BY DEF Identified
<1>2. Subs' = Subs /\ \A i \in Queued' : i \in Queued /\ batch'[i] = batch[i]
    BY DEF Subs, Queued
<1>3. \A request : (Owns(request) => request.id \in m_usedIds' /\ holder'[request.id] = request.kind)
    BY DEF Owns
<1>4. Accounted'
    BY <1>2, SMT DEF Accounted
<1>5. AloneInFlight'
    BY <1>1, <1>2, SMT DEF Connected, AloneInFlight
<1>6. Connected'
    BY <1>1, <1>2, <1>3, <1>5, SMT DEF Connected, Owns, Pushed
<1> QED
    BY <1>4, <1>6

\* What the steps of a client without connection keep.
LEMMA StaysDisconnected ==
    ASSUME Accounted, Disconnected,
           UNCHANGED <<pending, broker, m_usedIds, holder, misreported>>,
           batch' = batch \/ Queued' = {},
           received' = received \/ received' = <<>>,
           \A t \in Threads :
              /\ call'[t].kind \notin Kinds
              /\ pc'[t] = "cancel" => pc[t] = "cancel"
              /\ pc[t] = "cancel" /\ pc'[t] # "cancel" => Queued' = {} /\ m_mutex # t
              /\ pc[t] = "clear" => pc'[t] = "clear"
              /\ pc[t] = "cancel" /\ m_mutex = t => m_mutex' = t
    PROVE  Accounted' /\ Disconnected'
<1>1. Subs' = Subs /\ (Queued' = Queued \/ Queued' = {})
    BY DEF Subs, Queued
<1>2. Accounted'
    BY <1>1, SMT DEF Accounted, Disconnected, Kinds
<1>3. Clearing => Clearing'
    BY DEF Clearing
<1>4. Disconnected'
    BY <1>1, <1>3, SMT DEF Disconnected, Owns
<1> QED
    BY <1>2, <1>4

\* A connection ends: no call is in the middle, the composers will be cancelled, or no
\* request is among them, and clearState follows.
LEMMA ConnectionEnds ==
    ASSUME Accounted, ~Straddles, m_connectionStatus' = "DISCONNECTED", broker' = {},
           NEW t \in Threads,
           UNCHANGED <<pending, received, m_usedIds, holder, misreported>>,
           \A u \in Threads : call'[u].kind \notin Kinds \/ call'[u] = call[u],
           \/ pc'[t] = "cancel" /\ m_mutex' = t
           \/ pc'[t] = "clear" /\ Queued' = {},
           \A u \in Threads \ {t} : pc'[u] # "cancel"
    PROVE  Accounted' /\ Disconnected'
<1>1. \A u \in Threads : call[u].kind \notin Kinds
    BY DEF Straddles
<1>2. Subs' = Subs
    BY DEF Subs
<1>3. Accounted'
    BY <1>1, <1>2, SMT DEF Accounted, Kinds
<1>4. pc'[t] # "cancel" => Queued' = {}
    OBVIOUS
<1>5. Disconnected'
    BY <1>1, <1>4, SMT DEF Disconnected, Clearing
<1> QED
    BY <1>3, <1>5

\* A request gets its identifier.
LEMMA IdentifiedTracked ==
    ASSUME PoolInv, Typed, Accounted, Connected, NEW t \in Threads, RequestIdentified(t),
           crashed' = "no"
    PROVE  Accounted' /\ Connected'
<1>1. /\ NextId \notin m_usedIds /\ m_usedIds' = m_usedIds \union {NextId}
      /\ NextId \in PacketIds
    BY NextIdIsFree, PoolAssumption, SMT DEF RequestIdentified, PacketIds
<1>2. /\ call' = [call EXCEPT ![t] = [call[t] EXCEPT !.id = NextId]]
      /\ pc' = [pc EXCEPT ![t] = "push"]
      /\ holder' = [holder EXCEPT ![NextId] = call[t].kind]
      /\ call \in [Threads -> Call] /\ pc \in [Threads -> Steps]
      /\ holder \in [PacketIds -> {"none"} \union Kinds]
      /\ pc[t] = "identify" /\ call[t].kind \in Kinds
    BY DEF RequestIdentified, Goes, Typed, ControlTyped, DataTyped, CallsMatch
<1>3. /\ call[t] \in Call
      /\ call'[t].id = NextId /\ call'[t].kind = call[t].kind /\ pc'[t] = "push"
      /\ \A u \in Threads \ {t} : call'[u] = call[u] /\ pc'[u] = pc[u]
      /\ holder'[NextId] = call[t].kind
      /\ \A id \in PacketIds \ {NextId} : holder'[id] = holder[id]
    BY <1>1, <1>2, SMT DEF Call
<1>4. Identified' = Identified \union {t} /\ t \notin Identified
    BY <1>2, <1>3, SMT DEF Identified
<1>5. /\ Subs' = Subs /\ Queued' = Queued
      /\ UNCHANGED <<batch, broker, received, misreported>>
    BY DEF Subs, Queued, RequestIdentified, queueVars, wireVars
<1>6. m_usedIds \subseteq PacketIds
    BY PoolAssumption, SMT DEF PoolInv, TypeOK, PacketIds
<1>7. ASSUME NEW request, Owns(request)
      PROVE  /\ request.id # NextId
             /\ request.id \in m_usedIds' /\ holder'[request.id] = request.kind
    BY <1>1, <1>3, <1>6, <1>7 DEF Owns
<1>8. Accounted'
  <2>1. ASSUME NEW id \in m_usedIds', holder'[id] = "subscribe"
        PROVE  \/ \E i \in DOMAIN Subs : Subs[i].id = id
               \/ \E u \in Threads :
                     pc'[u] = "push" /\ call'[u].kind = "subscribe" /\ call'[u].id = id
    <3>1. CASE id = NextId
        BY <1>3, <2>1, <3>1
    <3>2. CASE id # NextId
      <4>1. id \in m_usedIds /\ holder[id] = "subscribe"
          BY <1>1, <1>3, <1>6, <2>1, <3>2
      <4> QED
          BY <1>2, <1>3, <4>1 DEF Accounted
    <3> QED
        BY <3>1, <3>2
  <2> QED
      BY <1>5, <2>1 DEF Accounted
<1>9. AloneInFlight'
  <2>1. /\ \A u \in Identified : call[u].id # NextId
        /\ \A i \in Queued : batch[i].id # NextId
        /\ \A b \in broker : b.id # NextId
        /\ \A i \in DOMAIN received : received[i].id # NextId
      BY <1>7 DEF Connected
  <2>2. AloneInFlight
      BY DEF Connected
  <2>3. \A u \in Identified' : u = t \/ (u \in Identified /\ call'[u] = call[u])
    <3>1. Identified \subseteq Threads
        BY DEF Identified
    <3> QED
        BY <1>3, <1>4, <3>1
  <2>4. call'[t].id = NextId
      BY <1>3
  <2>5. \A u, v \in Identified' : call'[u].id = call'[v].id => u = v
      BY <2>1, <2>2, <2>3, <2>4 DEF AloneInFlight
  <2>6. \A u \in Identified' :
           /\ \A i \in Queued : call'[u].id # batch[i].id
           /\ \A b \in broker : call'[u].id # b.id
           /\ \A i \in DOMAIN received : call'[u].id # received[i].id
      BY <2>1, <2>2, <2>3, <2>4 DEF AloneInFlight
  <2> QED
      BY <1>5, <2>2, <2>5, <2>6 DEF AloneInFlight
<1>10. Connected'
  <2>1. \A i \in DOMAIN Subs : Subs[i].id # NextId
      BY <1>7 DEF Connected
  <2>2. \A u \in Identified' :
           /\ call'[u].id \in m_usedIds' /\ holder'[call'[u].id] = call'[u].kind
           /\ pc'[u] = "add" => Pushed(call'[u])
           /\ \A i \in DOMAIN Subs : pc'[u] = "push" => Subs[i].id # call'[u].id
    <3> SUFFICES ASSUME NEW u \in Identified'
                 PROVE  /\ call'[u].id \in m_usedIds' /\ holder'[call'[u].id] = call'[u].kind
                        /\ pc'[u] = "add" => Pushed(call'[u])
                        /\ \A i \in DOMAIN Subs : pc'[u] = "push" => Subs[i].id # call'[u].id
        OBVIOUS
    <3>1. CASE u = t
        BY <1>1, <1>3, <2>1, <3>1
    <3>2. CASE u # t
      <4>1. u \in Identified /\ call'[u] = call[u] /\ pc'[u] = pc[u]
          BY <1>3, <1>4, <3>2 DEF Identified
      <4>2. Owns(call[u])
          BY <4>1 DEF Connected
      <4> QED
          BY <1>7, <4>1, <4>2 DEF Connected
    <3> QED
        BY <3>1, <3>2
  <2>3. /\ \A i \in Queued : batch[i].id \in m_usedIds' /\ holder'[batch[i].id] = batch[i].kind
        /\ \A b \in broker : b.id \in m_usedIds' /\ holder'[b.id] = b.kind
        /\ \A i \in DOMAIN received :
              received[i].id \in m_usedIds' /\ holder'[received[i].id] = received[i].kind
        /\ \A i \in DOMAIN Subs : Subs[i].id \in m_usedIds' /\ holder'[Subs[i].id] = Subs[i].kind
      BY <1>7 DEF Connected
  <2> QED
      BY <1>5, <1>9, <2>2, <2>3 DEF Connected, Owns, Pushed
<1> QED
    BY <1>8, <1>10

\* It is pushed.
LEMMA PushedTracked ==
    ASSUME Typed, Accounted, Connected, NEW t \in Threads, RequestPushes(t)
    PROVE  Accounted' /\ Connected'
<1> DEFINE k == call[t].kind
<1>1. /\ call \in [Threads -> Call] /\ pc \in [Threads -> Steps]
      /\ pending \in [Kinds -> Seq(Request)]
      /\ pc[t] = "push" /\ k \in Kinds /\ pc' = [pc EXCEPT ![t] = "add"]
      /\ pending' = [pending EXCEPT ![k] = Append(@, call[t])]
      /\ call' = call
    BY DEF RequestPushes, Goes, Typed, ControlTyped, DataTyped, CallsMatch
<1>2. /\ call[t] \in Call /\ call[t] \in Request
    BY <1>1, SMT DEF Call, Request
<1>3. /\ \A u \in Threads \ {t} : pc'[u] = pc[u]
      /\ pc'[t] = "add"
      /\ Identified' = Identified /\ t \in Identified
    BY <1>1, SMT DEF Identified
<1>4. /\ Queued' = Queued
      /\ UNCHANGED <<batch, broker, received, misreported, m_usedIds, holder>>
    BY DEF Queued, RequestPushes, queueVars, wireVars, vars
<1>5. \A request : Owns(request) => request.id \in m_usedIds' /\ holder'[request.id] = request.kind
    BY <1>4 DEF Owns
<1>6. AloneInFlight'
    BY <1>1, <1>3, <1>4 DEF Connected, AloneInFlight
<1>7. CASE k # "subscribe"
  <2>1. Subs' = Subs
      BY <1>1, <1>7 DEF Subs, Kinds
  <2>2. Accounted'
      BY <1>1, <1>3, <1>4, <1>7, <2>1 DEF Accounted
  <2>3. Connected'
      BY <1>1, <1>3, <1>4, <1>5, <1>6, <1>7, <2>1 DEF Connected, Owns, Pushed
  <2> QED
      BY <2>2, <2>3
<1>8. CASE k = "subscribe"
  <2>1. Subs \in Seq(Request) /\ Subs' = Append(Subs, call[t])
      BY <1>1, <1>8 DEF Subs
  <2>2. /\ DOMAIN Subs = 1 .. Len(Subs) /\ Len(Subs) \in Nat
        /\ DOMAIN Subs' = 1 .. Len(Subs) + 1
        /\ \A i \in DOMAIN Subs : i \in DOMAIN Subs' /\ Subs'[i] = Subs[i]
        /\ Subs'[Len(Subs) + 1] = call[t]
      BY <2>1, <1>2, SMT
  <2>3. \A i \in DOMAIN Subs' : i \in DOMAIN Subs \/ i = Len(Subs) + 1
      BY <2>2, SMT
  <2>4. Len(Subs) + 1 \in DOMAIN Subs'
      BY <2>2, SMT
  <2>5. /\ \A i \in DOMAIN Subs : Subs[i].id # call[t].id
        /\ \A i \in DOMAIN received : received[i].id # call[t].id
        /\ Owns(call[t])
      BY <1>1, <1>3 DEF Connected, AloneInFlight
  <2> DEFINE last == Len(Subs) + 1
  <2> HIDE DEF last
  <2>6. /\ \A i \in DOMAIN Subs' : i \in DOMAIN Subs \/ i = last
        /\ last \in DOMAIN Subs' /\ Subs'[last] = call[t]
      BY <2>2, <2>3, <2>4 DEF last
  <2>7. Accounted'
    <3>1. \A i, j \in DOMAIN Subs' : Subs'[i].id = Subs'[j].id => i = j
        BY <2>2, <2>5, <2>6 DEF Accounted
    <3>2. ASSUME NEW id \in m_usedIds', holder'[id] = "subscribe"
          PROVE  \/ \E i \in DOMAIN Subs' : Subs'[i].id = id
                 \/ \E u \in Threads :
                       pc'[u] = "push" /\ call'[u].kind = "subscribe" /\ call'[u].id = id
        BY <1>1, <1>3, <1>4, <2>2, <2>6, <3>2 DEF Accounted
    <3>3. \A i \in DOMAIN received', j \in DOMAIN Subs' :
             received'[i].kind = "subscribe" /\ received'[i].id = Subs'[j].id =>
                received'[i] = Subs'[j]
        BY <1>4, <2>2, <2>5, <2>6 DEF Accounted
    <3> QED
        BY <1>4, <3>1, <3>2, <3>3 DEF Accounted
  <2>8. \A request : Pushed(request) =>
           (request.kind = "subscribe" => \E i \in DOMAIN Subs' : Subs'[i] = request)
      BY <2>2 DEF Pushed
  <2>9. Connected'
    <3>1. \A u \in Identified' : Owns(call[u])' /\ (pc'[u] = "add" => Pushed(call[u])')
        BY <1>1, <1>3, <1>4, <2>6, <2>8 DEF Connected, Owns, Pushed
    <3>2. /\ \A i \in Queued' : Owns(batch[i])' /\ Pushed(batch[i])'
          /\ \A b \in broker' : (b.id \in m_usedIds' /\ holder'[b.id] = b.kind)
                 /\ (b.kind = "subscribe" => \E i \in DOMAIN Subs' : Subs'[i] = b)
          /\ \A i \in DOMAIN received' : Owns(received[i])' /\ Pushed(received[i])'
        BY <1>4, <2>8 DEF Connected, Owns, Pushed
    <3>3. \A i \in DOMAIN Subs' : Owns(Subs[i])'
        BY <1>4, <2>2, <2>5, <2>6 DEF Connected, Owns
    <3>4. \A u \in Identified' : \A i \in DOMAIN Subs' : pc'[u] = "push" => Subs'[i].id # call'[u].id
      <4>1. \A u \in Identified : u # t => call[u].id # call[t].id
          BY <1>3 DEF Connected, AloneInFlight
      <4> QED
          BY <1>1, <1>3, <2>2, <2>6, <4>1 DEF Connected
    <3> QED
        BY <1>6, <3>1, <3>2, <3>3, <3>4 DEF Connected, Owns, Pushed
  <2> QED
      BY <2>7, <2>9
<1> QED
    BY <1>7, <1>8

\* It is queued.
LEMMA QueuedTracked ==
    ASSUME Typed, Accounted, Connected, NEW t \in Threads, AddToQueue(t)
    PROVE  Accounted' /\ Connected'
<1>1. /\ call \in [Threads -> Call] /\ pc \in [Threads -> Steps]
      /\ resume \in [Threads -> Resumed] /\ batch \in Seq(Composer)
      /\ pc[t] = "add" /\ pc' = [pc EXCEPT ![t] = resume[t]]
      /\ call' = [call EXCEPT ![t] = NoCall]
      /\ batch' = IF call[t].kind = "publish" THEN batch ELSE Append(batch, call[t])
      /\ call[t].kind # "none"
    BY DEF AddToQueue, Returns, Goes, Typed, ControlTyped, DataTyped, CallsMatch
<1>2. /\ pc'[t] \notin {"push", "add"} /\ call'[t] = NoCall
      /\ \A u \in Threads \ {t} : pc'[u] = pc[u] /\ call'[u] = call[u]
    BY <1>1, SMT DEF Resumed
<1>3. /\ Identified' = Identified \ {t} /\ Identified \subseteq Threads
      /\ \A u \in Identified' : u \in Identified /\ u # t /\ pc'[u] = pc[u] /\ call'[u] = call[u]
    BY <1>2, SMT DEF Identified
<1>4. /\ Subs' = Subs
      /\ UNCHANGED <<broker, received, misreported, m_usedIds, holder>>
    BY DEF Subs, AddToQueue, wireVars, vars
<1>5. \A request : (Owns(request) => request.id \in m_usedIds' /\ holder'[request.id] = request.kind)
    BY <1>4 DEF Owns
<1>6. Accounted'
    BY <1>1, <1>2, <1>4, SMT DEF Accounted
<1>7. CASE call[t].kind \notin Kinds
  <2>1. Queued' = Queued /\ \A i \in Queued : batch'[i] = batch[i]
    <3>1. CASE call[t].kind = "publish"
        BY <1>1, <3>1 DEF Queued
    <3>2. CASE call[t].kind # "publish"
      <4>1. call[t] \in Composer
          BY <1>1, <3>2, SMT DEF Call, CallKinds, Composer
      <4>2. /\ DOMAIN batch' = DOMAIN batch \union {Len(batch) + 1}
            /\ \A i \in DOMAIN batch : batch'[i] = batch[i]
            /\ batch'[Len(batch) + 1] = call[t]
          BY <1>1, <3>2, <4>1, SMT
      <4> QED
          BY <1>7, <4>2 DEF Queued
    <3> QED
        BY <3>1, <3>2
  <2>2. AloneInFlight'
      BY <1>3, <1>4, <2>1 DEF AloneInFlight, Connected
  <2> QED
      BY <1>3, <1>4, <1>5, <1>6, <2>1, <2>2 DEF Connected, Owns, Pushed
<1>8. CASE call[t].kind \in Kinds
  <2> DEFINE last == Len(batch) + 1
  <2>1. call[t].kind # "publish" /\ t \in Identified
      BY <1>1, <1>8, SMT DEF Kinds, Identified
  <2>2. call[t] \in Composer
      BY <1>1, <2>1, SMT DEF Call, CallKinds, Composer
  <2>3. /\ DOMAIN batch' = DOMAIN batch \union {last} /\ last \notin DOMAIN batch
        /\ \A i \in DOMAIN batch : batch'[i] = batch[i]
        /\ batch'[last] = call[t]
      BY <1>1, <2>1, <2>2, SMT
  <2> HIDE DEF last
  <2>4. /\ Queued' = Queued \union {last} /\ last \notin Queued /\ batch'[last] = call[t]
        /\ \A i \in Queued : batch'[i] = batch[i]
      BY <1>8, <2>3 DEF Queued
  <2>5. Owns(call[t]) /\ Pushed(call[t])
      BY <1>1, <2>1 DEF Connected
  <2>6. /\ \A u \in Identified' : call'[u].id # call[t].id
        /\ \A i \in Queued : batch[i].id # call[t].id
        /\ \A b \in broker : call[t].id # b.id
        /\ \A i \in DOMAIN received : call[t].id # received[i].id
      BY <1>3, <2>1 DEF Connected, AloneInFlight
  <2>7. AloneInFlight'
    <3>1. AloneInFlight
        BY DEF Connected
    <3>2. \A i, j \in Queued' : batch'[i].id = batch'[j].id => i = j
        BY <2>4, <2>6, <3>1 DEF AloneInFlight
    <3>3. \A i \in Queued' :
             /\ \A u \in Identified' : call'[u].id # batch'[i].id
             /\ \A b \in broker : batch'[i].id # b.id
             /\ \A j \in DOMAIN received : batch'[i].id # received[j].id
        BY <1>3, <2>4, <2>6, <3>1 DEF AloneInFlight
    <3> QED
        BY <1>3, <1>4, <3>1, <3>2, <3>3 DEF AloneInFlight
  <2>8. \A i \in Queued' : Owns(batch'[i]) /\ Pushed(batch'[i])
      BY <2>4, <2>5 DEF Connected
  <2> QED
      BY <1>3, <1>4, <1>5, <1>6, <2>7, <2>8 DEF Connected, Owns, Pushed
<1> QED
    BY <1>7, <1>8

\* It is sent: the broker has it.
LEMMA SentTracked ==
    ASSUME Typed, Accounted, Connected, TickSendPackets, m_connectionStatus' = m_connectionStatus
    PROVE  Accounted' /\ Connected'
<1> DEFINE sent == {batch[i] : i \in DOMAIN batch}
<1>1. /\ m_connectionStatus # "DISCONNECTED"
      /\ pc \in [Threads -> Steps] /\ "tick" \in Threads /\ pc["tick"] = "idle"
      /\ batch \in Seq(Composer)
    BY DEF TickSendPackets, Typed, ControlTyped, DataTyped, Threads
<1>2. /\ ~\E c \in sent : c.kind = "disconnect"
      /\ batch' = <<>> /\ broker' = broker \union sent
      /\ pc' = [pc EXCEPT !["tick"] = "receive"] /\ call' = call
    BY <1>1 DEF TickSendPackets, Ends, Goes
<1>3. /\ Identified' = Identified
      /\ \A u \in Threads : pc[u] \in {"push", "add"} \/ pc'[u] \in {"push", "add"} => pc'[u] = pc[u]
    BY <1>1, <1>2, SMT DEF Identified
<1>4. Queued = DOMAIN batch /\ Queued' = {}
  <2>1. \A i \in DOMAIN batch : batch[i] \in Composer /\ batch[i].kind # "disconnect"
      BY <1>1, <1>2, ElementOfSeq, LenProperties
  <2>2. \A i \in DOMAIN batch : batch[i].kind \in Kinds
      BY <2>1 DEF Composer
  <2>3. DOMAIN batch' = {}
      BY <1>2, SMT
  <2> QED
      BY <2>2, <2>3 DEF Queued
<1>5. \A b \in broker' : b \in broker \/ \E i \in Queued : b = batch[i]
    BY <1>2, <1>4
<1>6. Subs' = Subs /\ UNCHANGED <<received, misreported, m_usedIds, holder>>
    BY DEF Subs, TickSendPackets, vars
<1>7. Accounted'
    BY <1>2, <1>3, <1>6, SMT DEF Accounted
<1>8. AloneInFlight'
  <2>1. AloneInFlight
      BY DEF Connected
  <2>2. \A a, b \in broker' : a.id = b.id => a = b
      BY <1>5, <2>1 DEF AloneInFlight
  <2>3. \A b \in broker' :
           /\ \A u \in Identified : call[u].id # b.id
           /\ \A i \in DOMAIN received : b.id # received[i].id
      BY <1>5, <2>1 DEF AloneInFlight
  <2> QED
      BY <1>2, <1>3, <1>4, <1>6, <2>1, <2>2, <2>3 DEF AloneInFlight
<1>9. \A b \in broker' : Owns(b) /\ Pushed(b)
    BY <1>5 DEF Connected
<1>10. \A t \in Identified : t \in Threads /\ pc'[t] = pc[t]
    BY <1>3 DEF Identified
<1> QED
    BY <1>2, <1>3, <1>4, <1>6, <1>7, <1>8, <1>9, <1>10 DEF Connected, Owns, Pushed

\* It is answered.
LEMMA BrokerAnswersTracked ==
    ASSUME Typed, Accounted, Connected, BrokerAnswers
    PROVE  Accounted' /\ Connected'
<1>1. PICK request \in broker :
         /\ received' = Append(received, request) /\ broker' = broker \ {request}
         /\ UNCHANGED <<vars, pending, queueVars, threadVars, holder, misreported>>
    BY DEF BrokerAnswers, BrokerSends
<1> DEFINE last == Len(received) + 1
<1>2. received \in Seq(Request) /\ request \in Request
    BY <1>1 DEF Typed, DataTyped
<1>3. /\ DOMAIN received' = DOMAIN received \union {last} /\ last \notin DOMAIN received
      /\ \A i \in DOMAIN received : received'[i] = received[i]
      /\ received'[last] = request
    BY <1>1, <1>2, SMT
<1> HIDE DEF last
<1>4. /\ Subs' = Subs /\ Queued' = Queued /\ Identified' = Identified
      /\ UNCHANGED <<pc, call, batch, misreported, m_usedIds, holder>>
    BY <1>1 DEF Subs, Queued, Identified, vars, queueVars, threadVars
<1>5. Owns(request) /\ Pushed(request)
    BY <1>1 DEF Connected
<1>6. \A j \in DOMAIN Subs : request.kind = "subscribe" /\ request.id = Subs[j].id => request = Subs[j]
    BY <1>5 DEF Accounted, Pushed
<1>7. Accounted'
    BY <1>3, <1>4, <1>6 DEF Accounted
<1>8. AloneInFlight'
  <2>1. AloneInFlight
      BY DEF Connected
  <2>2. /\ \A b \in broker' : b \in broker /\ b.id # request.id
        /\ \A i \in DOMAIN received : received[i].id # request.id
        /\ \A t \in Identified : call[t].id # request.id
        /\ \A i \in Queued : batch[i].id # request.id
      BY <1>1, <2>1 DEF AloneInFlight
  <2>3. \A i, j \in DOMAIN received' : received'[i].id = received'[j].id => i = j
      BY <1>3, <2>1, <2>2 DEF AloneInFlight
  <2>4. \A i \in DOMAIN received' :
           /\ \A t \in Identified : call[t].id # received'[i].id
           /\ \A j \in Queued : batch[j].id # received'[i].id
           /\ \A b \in broker' : b.id # received'[i].id
      BY <1>3, <2>1, <2>2 DEF AloneInFlight
  <2> QED
      BY <1>4, <2>1, <2>2, <2>3, <2>4 DEF AloneInFlight
<1>9. \A i \in DOMAIN received' : Owns(received'[i]) /\ Pushed(received'[i])
    BY <1>3, <1>5 DEF Connected
<1> QED
    BY <1>1, <1>4, <1>7, <1>8, <1>9 DEF Connected, Owns, Pushed

\* A composer that is no request's is cancelled: nothing is released.
LEMMA NoRequestCancelled ==
    ASSUME Typed, Queued = {}, NEW t \in Threads, CancelComposer(t)
    PROVE  Queued' = {} /\ UNCHANGED vars
<1>1. batch \in Seq(Composer)
    BY DEF Typed, DataTyped
<1>2. CASE batch = <<>>
  <2>1. batch' = batch /\ UNCHANGED vars
      BY <1>2 DEF CancelComposer
  <2> QED
      BY <2>1 DEF Queued
<1>3. CASE batch # <<>>
  <2>1. /\ batch' = Tail(batch) /\ Head(batch) = batch[1] /\ 1 \in DOMAIN batch
        /\ \A i \in DOMAIN Tail(batch) : i + 1 \in DOMAIN batch /\ Tail(batch)[i] = batch[i + 1]
      BY <1>1, <1>3, SMT DEF CancelComposer
  <2>2. Head(batch).kind \notin Kinds
      BY <2>1 DEF Queued
  <2>3. Queued' = {}
      BY <2>1 DEF Queued
  <2> QED
      BY <1>3, <2>2, <2>3 DEF CancelComposer
<1> QED
    BY <1>2, <1>3

\* A composer is cancelled.
LEMMA CancelTracked ==
    ASSUME PoolInv, Typed, EndingIsDisconnected, Accounted, Disconnected, Abandoned,
           NEW t \in Threads, CancelComposer(t), crashed' = "no"
    PROVE  Accounted' /\ Disconnected'
<1>1. /\ pc \in [Threads -> Steps] /\ batch \in Seq(Composer) /\ pc[t] \in {"cancel", "abandon"}
      /\ crashed = "no"
    BY DEF CancelComposer, Typed, ControlTyped, DataTyped
<1>2. /\ Subs' = Subs
      /\ UNCHANGED <<pending, broker, received, misreported, holder, call, m_mutex>>
    BY DEF Subs, CancelComposer, wireVars, countVars
<1>3. \A u \in Threads : call[u].kind \notin Kinds
    BY DEF Disconnected
<1>4. CASE Queued = {} /\ ~(pc[t] = "cancel" /\ m_mutex = t)
  <2>1. Queued' = {} /\ UNCHANGED m_usedIds
      BY <1>4, NoRequestCancelled DEF vars
  <2>2. \A u \in Threads :
           /\ pc'[u] = "cancel" => pc[u] = "cancel"
           /\ pc[u] = "cancel" /\ pc'[u] # "cancel" => u = t
           /\ pc[u] = "clear" => pc'[u] = "clear"
      BY <1>1, SMT DEF CancelComposer, AfterCancelling, Goes
  <2> QED
      BY <1>2, <1>3, <1>4, <2>1, <2>2, StaysDisconnected
<1>5. CASE pc[t] = "cancel" /\ m_mutex = t
  <2>1. m_usedIds' \subseteq m_usedIds
    <3>1. CASE batch # <<>> /\ Releases(Head(batch).id)
      <4>1. Head(batch) \in Composer
          BY <1>1, <3>1, HeadTailProperties
      <4>2. Head(batch).id \in 0 .. MaxPacketId
          BY <4>1 DEF Composer
      <4> QED
          BY <1>1, <3>1, <4>2, ReleasesIsAStep
    <3>2. CASE UNCHANGED vars
        BY <3>2 DEF vars
    <3> QED
        BY <3>1, <3>2 DEF CancelComposer
  <2>2. Accounted'
      BY <1>2, <1>3, <2>1, SMT DEF Accounted, Kinds
  <2>3. CASE UNCHANGED pc
    <3>1. pc'[t] = "cancel" /\ m_mutex' = t
        BY <1>2, <1>5, <2>3
    <3>2. \A u \in Threads : pc'[u] = "cancel" => m_mutex' = u \/ Queued' = {}
      <4>1. \A u \in Threads : pc[u] = "cancel" => m_mutex = u \/ Queued = {}
          BY DEF Disconnected
      <4>2. Queued = {} => Queued' = {}
          BY NoRequestCancelled
      <4> QED
          BY <1>2, <2>3, <4>1, <4>2
    <3> QED
        BY <1>2, <1>3, <2>2, <3>1, <3>2 DEF Disconnected, Clearing
  <2>4. CASE batch' = <<>> /\ pc' = [pc EXCEPT ![t] = "clear"]
    <3>1. Queued' = {}
        BY <2>4, SMT DEF Queued
    <3>2. pc'[t] = "clear"
        BY <1>1, <2>4
    <3> QED
        BY <1>2, <1>3, <2>2, <3>1, <3>2 DEF Disconnected, Clearing
  <2> QED
      BY <1>5, <2>2, <2>3, <2>4 DEF CancelComposer, AfterCancelling, Goes
<1>6. pc[t] = "abandon" => Queued = {}
    BY <1>1 DEF EndingIsDisconnected, Abandoned, Threads
<1>7. pc[t] = "cancel" => m_mutex = t \/ Queued = {}
    BY DEF Disconnected
<1> QED
    BY <1>1, <1>4, <1>5, <1>6, <1>7

\* A pending subscription is cleared, or all are.
LEMMA ClearTracked ==
    ASSUME PoolInv, Typed, Accounted, Disconnected, NEW t \in Threads, ClearState(t),
           crashed' = "no"
    PROVE  Accounted' /\ Disconnected'
<1>1. /\ pc \in [Threads -> Steps] /\ pc[t] = "clear" /\ crashed = "no"
      /\ pending \in [Kinds -> Seq(Request)] /\ "subscribe" \in Kinds
      /\ Subs \in Seq(Request)
    BY DEF ClearState, Typed, ControlTyped, DataTyped, Subs, Kinds
<1>2. /\ Queued' = Queued
      /\ UNCHANGED <<batch, broker, received, misreported, holder, call>>
    BY DEF Queued, ClearState, queueVars, wireVars, countVars
<1>3. \A u \in Threads : call[u].kind \notin Kinds
    BY DEF Disconnected
<1>4. CASE /\ Subs # <<>> /\ Releases(Head(Subs).id)
           /\ Subs' = Tail(Subs) /\ UNCHANGED <<m_mutex, pc>>
  <2>1. Head(Subs) \in Request
      BY <1>1, <1>4, HeadTailProperties
  <2>2. Head(Subs).id \in 0 .. MaxPacketId
      BY <2>1 DEF Request
  <2>3. m_usedIds' = m_usedIds \ {Head(Subs).id}
      BY <1>1, <1>4, <2>2, ReleasesIsAStep
  <2>4. /\ Head(Subs) = Subs[1]
        /\ \A i \in DOMAIN Subs' : i + 1 \in DOMAIN Subs /\ Subs'[i] = Subs[i + 1]
        /\ \A i \in DOMAIN Subs : i # 1 => i - 1 \in DOMAIN Subs' /\ Subs'[i - 1] = Subs[i]
        /\ DOMAIN Subs \subseteq Nat /\ DOMAIN Subs' \subseteq Nat
      BY <1>1, <1>4, SMT
  <2>5. \A i, j \in DOMAIN Subs' : Subs'[i].id = Subs'[j].id => i = j
    <3> SUFFICES ASSUME NEW i \in DOMAIN Subs', NEW j \in DOMAIN Subs', Subs'[i].id = Subs'[j].id
                 PROVE  i = j
        OBVIOUS
    <3>1. i + 1 = j + 1
        BY <2>4 DEF Accounted
    <3> QED
        BY <2>4, <3>1, SMT
  <2>6. ASSUME NEW id \in m_usedIds', holder'[id] = "subscribe"
        PROVE  \E i \in DOMAIN Subs' : Subs'[i].id = id
    <3>1. PICK i \in DOMAIN Subs : Subs[i].id = id
        BY <1>2, <1>3, <2>3, <2>6 DEF Accounted, Kinds
    <3>2. i # 1
        BY <2>3, <2>4, <3>1
    <3> QED
        BY <2>4, <3>1, <3>2
  <2>7. \A i \in DOMAIN received', j \in DOMAIN Subs' :
           received'[i].kind = "subscribe" /\ received'[i].id = Subs'[j].id =>
              received'[i] = Subs'[j]
      BY <1>2, <2>4 DEF Accounted
  <2>8. Accounted'
      BY <1>2, <2>5, <2>6, <2>7 DEF Accounted
  <2>9. Disconnected'
      BY <1>1, <1>2, <1>4 DEF Disconnected, Clearing
  <2> QED
      BY <2>8, <2>9
<1>5. CASE /\ Subs = <<>> /\ Subs' = <<>> /\ UNCHANGED vars
           /\ \A u \in Threads : pc'[u] = pc[u] \/ pc'[u] # "cancel"
           /\ \A u \in Threads : pc[u] = "cancel" => pc'[u] = "cancel"
           /\ \A u \in Threads : pc[u] = "cancel" /\ m_mutex = u => m_mutex' = u
  <2>1. Accounted'
      BY <1>2, <1>3, <1>5, SMT DEF Accounted, vars, Kinds
  <2>2. Disconnected'
      BY <1>2, <1>5 DEF Disconnected
  <2> QED
      BY <2>1, <2>2
<1>6. ASSUME Unlocks(m_mutex, t), Dispatch(t, "disconnect", AfterDisconnect(t))
      PROVE  /\ \A u \in Threads : pc'[u] = pc[u] \/ pc'[u] # "cancel"
             /\ \A u \in Threads : pc[u] = "cancel" => pc'[u] = "cancel"
             /\ \A u \in Threads : pc[u] = "cancel" /\ m_mutex = u => m_mutex' = u
    BY <1>1, <1>6, SMT DEF Unlocks, Dispatch, Goes, AfterDisconnect
<1>7. pending' = [pending EXCEPT !["subscribe"] = Tail(Subs)] => Subs' = Tail(Subs)
    BY <1>1 DEF Subs
<1> QED
    BY <1>4, <1>5, <1>6, <1>7 DEF ClearState, Subs

\* The requests but one keep their identifiers apart, and are all there.
LEMMA WithoutKeepsApart ==
    ASSUME NEW R, NEW s \in Seq(R), NEW i \in DOMAIN s,
           \A j, m \in DOMAIN s : s[j].id = s[m].id => j = m
    PROVE  /\ \A j, m \in DOMAIN Without(s, i) :
                 Without(s, i)[j].id = Without(s, i)[m].id => j = m
           /\ \A m \in DOMAIN s : m # i => \E j \in DOMAIN Without(s, i) : Without(s, i)[j] = s[m]
           /\ \A j \in DOMAIN Without(s, i) : Without(s, i)[j].id # s[i].id
<1> DEFINE w == Without(s, i)
<1>1. /\ w \in Seq(R) /\ Len(w) = Len(s) - 1
      /\ \A m \in 1 .. Len(s) - 1 : w[m] = IF m < i THEN s[m] ELSE s[m + 1]
    BY WithoutOne
<1> HIDE DEF w
<1>2. /\ DOMAIN w = 1 .. Len(s) - 1 /\ DOMAIN s = 1 .. Len(s) /\ Len(s) \in Nat
      /\ i \in 1 .. Len(s)
    BY <1>1, SMT
<1> DEFINE from(j) == IF j < i THEN j ELSE j + 1
<1>3. \A j \in DOMAIN w : from(j) \in DOMAIN s /\ from(j) # i /\ w[j] = s[from(j)]
    BY <1>1, <1>2, SMT
<1>4. \A j, m \in DOMAIN w : from(j) = from(m) => j = m
    BY <1>2, SMT
<1>5. \A m \in DOMAIN s : m # i => \E j \in DOMAIN w : from(j) = m
  <2> SUFFICES ASSUME NEW m \in DOMAIN s, m # i PROVE \E j \in DOMAIN w : from(j) = m
      OBVIOUS
  <2>1. CASE m < i
    <3>1. m \in DOMAIN w /\ from(m) = m
        BY <1>2, <2>1, SMT
    <3> QED
        BY <3>1
  <2>2. CASE ~(m < i)
    <3>1. m - 1 \in DOMAIN w /\ from(m - 1) = m
        BY <1>2, <2>2, SMT
    <3> QED
        BY <3>1
  <2> QED
      BY <2>1, <2>2
<1> HIDE DEF from
<1>6. /\ \A j, m \in DOMAIN w : w[j].id = w[m].id => j = m
      /\ \A m \in DOMAIN s : m # i => \E j \in DOMAIN w : w[j] = s[m]
      /\ \A j \in DOMAIN w : w[j].id # s[i].id
    BY <1>3, <1>4, <1>5
<1> QED
    BY <1>6 DEF w

\* What an answer does to the subscriptions: nothing when it is of another kind or has
\* none, else one with its identifier is not pending any more.
LEMMA AnswerFacts ==
    ASSUME PoolInv, Typed, AnswerReceived, crashed' = "no"
    PROVE  LET a == Head(received) IN
           /\ a \in Request /\ 1 \in DOMAIN received /\ a = received[1]
           /\ m_usedIds' = m_usedIds \ {a.id}
           /\ \A j \in DOMAIN received' : /\ j + 1 \in DOMAIN received /\ j + 1 # 1
                                          /\ received'[j] = received[j + 1]
           /\ \A j, m \in DOMAIN received' : j + 1 = m + 1 => j = m
           /\ \/ a.kind # "subscribe" /\ Subs' = Subs
                 /\ ("subscribe" \in misreported' => "subscribe" \in misreported)
              \/ a.kind = "subscribe" /\ Subs' = Subs /\ UNCHANGED misreported
                 /\ \A i \in DOMAIN Subs : Subs[i].id # a.id
              \/ a.kind = "subscribe"
                 /\ \E i \in DOMAIN Subs :
                       /\ Subs[i].id = a.id /\ Subs' = Without(Subs, i)
                       /\ Subs[i].request = a.request => UNCHANGED misreported
<1> DEFINE a == Head(received)
<1>1. /\ received \in Seq(Request) /\ received # <<>> /\ received' = Tail(received)
      /\ pending \in [Kinds -> Seq(Request)] /\ crashed = "no" /\ Releases(a.id)
    BY DEF AnswerReceived, Typed, DataTyped
<1>2. a \in Request /\ 1 \in DOMAIN received /\ a = received[1]
    BY <1>1, SMT
<1>3. a.id \in 0 .. MaxPacketId /\ a.kind \in Kinds
    BY <1>2 DEF Request
<1>4. m_usedIds' = m_usedIds \ {a.id}
    BY <1>1, <1>3, ReleasesIsAStep
<1>5. /\ \A j \in DOMAIN received' : /\ j + 1 \in DOMAIN received /\ j + 1 # 1
                                     /\ received'[j] = received[j + 1]
      /\ \A j, m \in DOMAIN received' : j + 1 = m + 1 => j = m
    BY <1>1, SMT
<1>6. "subscribe" \in Kinds
    BY DEF Kinds
<1>7. CASE PendingOf(a) = {} /\ UNCHANGED <<pending, misreported>>
    BY <1>2, <1>4, <1>5, <1>7 DEF PendingOf, Subs
<1>8. ASSUME NEW i \in PendingOf(a),
             pending' = [pending EXCEPT ![a.kind] = Without(@, i)],
             misreported' = IF pending[a.kind][i].request = a.request
                            THEN misreported ELSE misreported \union {a.kind}
      PROVE  \/ a.kind # "subscribe" /\ Subs' = Subs
                /\ ("subscribe" \in misreported' => "subscribe" \in misreported)
             \/ a.kind = "subscribe"
                /\ \E j \in DOMAIN Subs :
                      /\ Subs[j].id = a.id /\ Subs' = Without(Subs, j)
                      /\ Subs[j].request = a.request => UNCHANGED misreported
  <2>1. i \in DOMAIN pending[a.kind] /\ pending[a.kind][i].id = a.id
      BY <1>8 DEF PendingOf
  <2>2. CASE a.kind # "subscribe"
      BY <1>1, <1>3, <1>6, <1>8, <2>2 DEF Subs
  <2>3. CASE a.kind = "subscribe"
      BY <1>1, <1>6, <1>8, <2>1, <2>3 DEF Subs
  <2> QED
      BY <2>2, <2>3
<1> QED
    BY <1>2, <1>4, <1>5, <1>7, <1>8 DEF AnswerReceived

\* An answer is reported: the pending subscription it takes is its own.
LEMMA AnswerAccounted ==
    ASSUME PoolInv, Typed, Accounted, AnswerReceived, crashed' = "no"
    PROVE  /\ Accounted'
           /\ \A i \in DOMAIN Subs : Subs[i].id # Head(received).id =>
                 \E j \in DOMAIN Subs' : Subs'[j] = Subs[i]
           /\ \A j \in DOMAIN Subs' :
                 /\ \E i \in DOMAIN Subs : Subs'[j] = Subs[i]
                 /\ Head(received).kind = "subscribe" => Subs'[j].id # Head(received).id
<1> DEFINE a == Head(received)
<1>1. /\ a = received[1] /\ 1 \in DOMAIN received
      /\ m_usedIds' = m_usedIds \ {a.id}
      /\ \A j \in DOMAIN received' : j + 1 \in DOMAIN received /\ received'[j] = received[j + 1]
      /\ pc \in [Threads -> Steps] /\ Subs \in Seq(Request)
      /\ UNCHANGED <<call, holder>> /\ pc["tick"] = "receive"
    BY AnswerFacts DEF AnswerReceived, Typed, ControlTyped, DataTyped, Subs, Kinds
<1>2. \A t \in Threads : pc[t] = "push" => pc'[t] = "push"
    BY <1>1, SMT DEF AnswerReceived, Dispatch, Goes
<1>3. /\ \A i, j \in DOMAIN Subs' : Subs'[i].id = Subs'[j].id => i = j
      /\ \A i \in DOMAIN Subs : Subs[i].id # a.id => \E j \in DOMAIN Subs' : Subs'[j] = Subs[i]
      /\ \A j \in DOMAIN Subs' : /\ \E i \in DOMAIN Subs : Subs'[j] = Subs[i]
                                 /\ a.kind = "subscribe" => Subs'[j].id # a.id
      /\ "subscribe" \notin misreported'
  <2>1. CASE a.kind # "subscribe" /\ Subs' = Subs
             /\ ("subscribe" \in misreported' => "subscribe" \in misreported)
      BY <2>1 DEF Accounted
  <2>2. CASE a.kind = "subscribe" /\ Subs' = Subs /\ UNCHANGED misreported
             /\ \A i \in DOMAIN Subs : Subs[i].id # a.id
      BY <2>2 DEF Accounted
  <2>3. ASSUME NEW one \in DOMAIN Subs, a.kind = "subscribe",
               Subs[one].id = a.id, Subs' = Without(Subs, one),
               Subs[one].request = a.request => UNCHANGED misreported
        PROVE  /\ \A i, j \in DOMAIN Subs' : Subs'[i].id = Subs'[j].id => i = j
               /\ \A i \in DOMAIN Subs : Subs[i].id # a.id => \E j \in DOMAIN Subs' : Subs'[j] = Subs[i]
               /\ \A j \in DOMAIN Subs' : /\ \E i \in DOMAIN Subs : Subs'[j] = Subs[i]
                                          /\ a.kind = "subscribe" => Subs'[j].id # a.id
               /\ "subscribe" \notin misreported'
    <3>1. \A j, m \in DOMAIN Subs : Subs[j].id = Subs[m].id => j = m
        BY DEF Accounted
    <3>2. /\ \A j, m \in DOMAIN Subs' : Subs'[j].id = Subs'[m].id => j = m
          /\ \A m \in DOMAIN Subs : m # one => \E j \in DOMAIN Subs' : Subs'[j] = Subs[m]
          /\ \A j \in DOMAIN Subs' : Subs'[j].id # Subs[one].id
        BY <1>1, <2>3, <3>1, WithoutKeepsApart
    <3>3. \A j \in DOMAIN Subs' : \E m \in DOMAIN Subs : Subs'[j] = Subs[m]
        BY <1>1, <2>3, OthersRemain
    <3>4. received[1] = Subs[one]
        BY <1>1, <2>3 DEF Accounted
    <3>5. misreported' = misreported
        BY <1>1, <2>3, <3>4
    <3> QED
        BY <2>3, <3>2, <3>3, <3>5 DEF Accounted
  <2> QED
      BY <2>1, <2>2, <2>3, AnswerFacts
<1>4. ASSUME NEW id \in m_usedIds', holder'[id] = "subscribe"
      PROVE  \/ \E i \in DOMAIN Subs' : Subs'[i].id = id
             \/ \E t \in Threads :
                   pc'[t] = "push" /\ call'[t].kind = "subscribe" /\ call'[t].id = id
  <2>1. id \in m_usedIds /\ holder[id] = "subscribe" /\ id # a.id
      BY <1>1, <1>4
  <2>2. CASE \E i \in DOMAIN Subs : Subs[i].id = id
      BY <1>3, <2>1, <2>2
  <2>3. CASE \E t \in Threads : pc[t] = "push" /\ call[t].kind = "subscribe" /\ call[t].id = id
      BY <1>1, <1>2, <2>3
  <2> QED
      BY <2>1, <2>2, <2>3 DEF Accounted
<1>5. \A i \in DOMAIN received', j \in DOMAIN Subs' :
         received'[i].kind = "subscribe" /\ received'[i].id = Subs'[j].id =>
            received'[i] = Subs'[j]
    BY <1>1, <1>3 DEF Accounted
<1>6. Accounted'
    BY <1>3, <1>4, <1>5 DEF Accounted
<1> QED
    BY <1>3, <1>6

\* The same while the client is disconnected.
LEMMA AnswerDisconnected ==
    ASSUME PoolInv, Typed, Accounted, Disconnected, AnswerReceived, crashed' = "no"
    PROVE  Disconnected'
<1>1. /\ pc \in [Threads -> Steps] /\ pc["tick"] = "receive" /\ Subs \in Seq(Request)
      /\ Queued' = Queued /\ UNCHANGED <<call, broker, m_mutex>>
    BY DEF AnswerReceived, Typed, ControlTyped, DataTyped, Subs, Kinds, Queued, queueVars, lockVars
<1>2. \A t \in Threads : /\ pc[t] = "cancel" <=> pc'[t] = "cancel"
                         /\ pc[t] = "clear" <=> pc'[t] = "clear"
    BY <1>1, SMT DEF AnswerReceived, Dispatch, Goes
<1>3. Subs = <<>> => Subs' = <<>>
  <2>1. \A i \in DOMAIN Subs : Subs # <<>>
      BY <1>1, SMT
  <2> QED
      BY <2>1, AnswerFacts
<1>4. Clearing => Clearing'
    BY <1>1, <1>2 DEF Clearing
<1>5. received # <<>>
    BY DEF AnswerReceived
<1> QED
    BY <1>1, <1>2, <1>3, <1>4, <1>5 DEF Disconnected

\* The same while it is connected: what else is on the way keeps its identifier.
LEMMA AnswerConnected ==
    ASSUME PoolInv, Typed, Accounted, Connected, AnswerReceived, crashed' = "no"
    PROVE  Connected'
<1> DEFINE a == Head(received)
<1>1. /\ pc \in [Threads -> Steps] /\ pc["tick"] = "receive"
      /\ Queued' = Queued /\ UNCHANGED <<call, batch, broker, holder>>
    BY DEF AnswerReceived, Typed, ControlTyped, Queued, queueVars
<1>2. /\ a = received[1] /\ 1 \in DOMAIN received
      /\ m_usedIds' = m_usedIds \ {a.id}
      /\ \A j \in DOMAIN received' : /\ j + 1 \in DOMAIN received /\ j + 1 # 1
                                     /\ received'[j] = received[j + 1]
      /\ \A j, m \in DOMAIN received' : j + 1 = m + 1 => j = m
    BY AnswerFacts
<1>3. /\ Identified' = Identified
      /\ \A t \in Identified : t \in Threads /\ pc'[t] = pc[t]
    BY <1>1, SMT DEF AnswerReceived, Dispatch, Goes, Identified
<1>4. /\ \A i \in DOMAIN Subs : Subs[i].id # a.id => \E j \in DOMAIN Subs' : Subs'[j] = Subs[i]
      /\ \A j \in DOMAIN Subs' : /\ \E i \in DOMAIN Subs : Subs'[j] = Subs[i]
                                 /\ a.kind = "subscribe" => Subs'[j].id # a.id
    BY AnswerAccounted
<1>5. Owns(a)
    BY <1>2 DEF Connected
<1>6. ASSUME NEW request, Owns(request), request.id # a.id, Pushed(request)
      PROVE  /\ request.id \in m_usedIds' /\ holder'[request.id] = request.kind
             /\ request.kind = "subscribe" => \E i \in DOMAIN Subs' : Subs'[i] = request
    BY <1>1, <1>2, <1>4, <1>6 DEF Owns, Pushed
<1>7. AloneInFlight
    BY DEF Connected
<1>8. /\ \A t \in Identified : call[t].id # a.id
      /\ \A i \in Queued : batch[i].id # a.id
      /\ \A b \in broker : b.id # a.id
      /\ \A j \in DOMAIN received' : received'[j].id # a.id
    BY <1>2, <1>7 DEF AloneInFlight
<1>9. AloneInFlight'
    BY <1>1, <1>2, <1>3, <1>7 DEF AloneInFlight
<1>10. \A i \in DOMAIN Subs' : Subs'[i].id \in m_usedIds' /\ holder'[Subs'[i].id] = Subs'[i].kind
  <2> SUFFICES ASSUME NEW i \in DOMAIN Subs'
               PROVE  Subs'[i].id \in m_usedIds' /\ holder'[Subs'[i].id] = Subs'[i].kind
      OBVIOUS
  <2>1. PICK j \in DOMAIN Subs : Subs'[i] = Subs[j]
      BY <1>4
  <2>2. Owns(Subs[j]) /\ Subs[j].kind = "subscribe"
      BY DEF Connected, Subs, Typed, PendingMatch, Kinds
  <2>3. Subs'[i].id # a.id
      BY <1>4, <1>5, <2>1, <2>2 DEF Owns
  <2> QED
      BY <1>1, <1>2, <2>1, <2>2, <2>3 DEF Owns
<1>11. \A t \in Identified' :
          /\ call'[t].id \in m_usedIds' /\ holder'[call'[t].id] = call'[t].kind
          /\ pc'[t] = "add" /\ call'[t].kind = "subscribe" =>
                \E i \in DOMAIN Subs' : Subs'[i] = call'[t]
          /\ \A i \in DOMAIN Subs' : pc'[t] = "push" => Subs'[i].id # call'[t].id
  <2> SUFFICES ASSUME NEW t \in Identified
               PROVE  /\ call[t].id \in m_usedIds' /\ holder[call[t].id] = call[t].kind
                      /\ pc[t] = "add" /\ call[t].kind = "subscribe" =>
                            \E i \in DOMAIN Subs' : Subs'[i] = call[t]
                      /\ \A i \in DOMAIN Subs' : pc[t] = "push" => Subs'[i].id # call[t].id
      BY <1>1, <1>3
  <2>1. Owns(call[t]) /\ (pc[t] = "add" => Pushed(call[t])) /\ call[t].id # a.id
      BY <1>8 DEF Connected
  <2>2. \A i \in DOMAIN Subs : pc[t] = "push" => Subs[i].id # call[t].id
      BY DEF Connected
  <2> QED
      BY <1>2, <1>4, <2>1, <2>2 DEF Owns, Pushed
<1>12. /\ \A i \in Queued' : Owns(batch[i])' /\ Pushed(batch[i])'
       /\ \A b \in broker' :
             /\ b.id \in m_usedIds' /\ holder'[b.id] = b.kind
             /\ b.kind = "subscribe" => \E i \in DOMAIN Subs' : Subs'[i] = b
    BY <1>1, <1>6, <1>8 DEF Connected, Owns, Pushed
<1>13. \A j \in DOMAIN received' : Owns(received[j])' /\ Pushed(received[j])'
  <2> SUFFICES ASSUME NEW j \in DOMAIN received' PROVE Owns(received[j])' /\ Pushed(received[j])'
      OBVIOUS
  <2>1. Owns(received[j + 1]) /\ Pushed(received[j + 1]) /\ received[j + 1].id # a.id
      BY <1>2, <1>8 DEF Connected
  <2> QED
      BY <1>2, <1>6, <2>1 DEF Owns, Pushed
<1> QED
    BY <1>9, <1>10, <1>11, <1>12, <1>13 DEF Connected, Owns, Pushed

\* A step of a client that is connected.
LEMMA ConnectedStep ==
    ASSUME PoolInv, Typed, RedirectionLocked, EndingIsDisconnected, RequestsNext,
           crashed' = "no", strays' = 0, cutOff' = {},
           Accounted, Abandoned, m_connectionStatus # "DISCONNECTED", Connected
    PROVE  Tracked'
<1>a. /\ pc \in [Threads -> Steps] /\ call \in [Threads -> Call]
      /\ resume \in [Threads -> Resumed] /\ CallsMatch /\ strays \in Nat
      /\ "tick" \in Threads
    BY DEF Typed, ControlTyped, DataTyped, Threads
<1>b. \A t \in Threads : resume[t] \notin {"identify", "push", "add", "lock", "cancel", "clear"}
    BY <1>a, SMT DEF Resumed
<1>c. \A t \in Threads : pc[t] \notin {"cancel", "clear"}
    BY DEF EndingIsDisconnected
<1>1. ASSUME Accounted' /\ Connected', m_connectionStatus' # "DISCONNECTED" PROVE Tracked'
    BY <1>1 DEF Tracked
<1>2. ASSUME Accounted' /\ Disconnected', m_connectionStatus' = "DISCONNECTED" PROVE Tracked'
    BY <1>2 DEF Tracked
<1>3. ASSUME UNCHANGED <<pending, batch, m_usedIds, holder, misreported, m_connectionStatus>>,
             broker' \subseteq broker, received' = received \/ received' = <<>>,
             \A t \in Threads :
                /\ pc'[t] \in {"push", "add"} /\ call'[t].kind \in Kinds =>
                      pc'[t] = pc[t] /\ call'[t] = call[t]
                /\ pc[t] = "push" => pc'[t] = "push" /\ call'[t] = call[t]
      PROVE  Tracked'
    BY <1>1, <1>3, StaysConnected
<1>4. ASSUME NEW t \in Threads, NEW kind \in Kinds, RequestBegins(t, kind) PROVE Tracked'
  <2>1. \A u \in Threads :
           /\ pc'[u] \in {"push", "add"} => pc'[u] = pc[u] /\ call'[u] = call[u]
           /\ pc[u] = "push" => pc'[u] = "push" /\ call'[u] = call[u]
      BY <1>4, <1>a, SMT DEF RequestBegins, MayCall, Goes
  <2> QED
      BY <1>3, <1>4, <2>1 DEF RequestBegins, vars, queueVars, wireVars
<1>5. ASSUME NEW t \in Threads, PublishBegins(t) PROVE Tracked'
  <2>1. \A u \in Threads :
           /\ pc'[u] \in {"push", "add"} /\ call'[u].kind \in Kinds =>
                 pc'[u] = pc[u] /\ call'[u] = call[u]
           /\ pc[u] = "push" => pc'[u] = "push" /\ call'[u] = call[u]
      BY <1>5, <1>a, SMT DEF PublishBegins, MayCall, Goes, NoCall, Kinds
  <2> QED
      BY <1>3, <1>5, <2>1 DEF PublishBegins, vars, queueVars, wireVars
<1>6. ASSUME NEW t \in Threads, DisconnectBegins(t) PROVE Tracked'
  <2>1. \A u \in Threads :
           /\ pc'[u] \in {"push", "add"} => pc'[u] = pc[u] /\ call'[u] = call[u]
           /\ pc[u] = "push" => pc'[u] = "push" /\ call'[u] = call[u]
      BY <1>6, <1>a, SMT DEF DisconnectBegins, MayCall, Goes, NoCall
  <2> QED
      BY <1>3, <1>6, <2>1 DEF DisconnectBegins, vars, queueVars, wireVars
<1>7. ASSUME NEW t \in Threads, RequestIdentified(t) PROVE Tracked'
    BY <1>1, <1>7, IdentifiedTracked DEF RequestIdentified
<1>8. ASSUME NEW t \in Threads, RequestPushes(t) PROVE Tracked'
    BY <1>1, <1>8, PushedTracked DEF RequestPushes
<1>9. ASSUME NEW t \in Threads, AddToQueue(t) PROVE Tracked'
    BY <1>1, <1>9, QueuedTracked DEF AddToQueue
<1>10. ASSUME NEW t \in Threads, InternalDisconnect(t) PROVE Tracked'
  <2>1. pc[t] = "lock" /\ call[t].kind = "disconnect"
      BY <1>10, <1>a DEF InternalDisconnect, CallsMatch
  <2>2. CASE Goes(t, "add") /\ UNCHANGED <<m_connectionStatus, broker, cutOff, call, resume>>
    <3>1. \A u \in Threads :
             /\ pc'[u] \in {"push", "add"} /\ call'[u].kind \in Kinds =>
                   pc'[u] = pc[u] /\ call'[u] = call[u]
             /\ pc[u] = "push" => pc'[u] = "push" /\ call'[u] = call[u]
        BY <1>a, <2>1, <2>2, SMT DEF Goes, Kinds
    <3> QED
        BY <1>3, <1>10, <2>2, <3>1 DEF InternalDisconnect, vars, queueVars
  <2>3. CASE Ends /\ m_mutex' = t /\ call' = [call EXCEPT ![t] = NoCall] /\ Goes(t, "cancel")
    <3>1. /\ pc'[t] = "cancel"
          /\ \A u \in Threads \ {t} : pc'[u] # "cancel"
          /\ \A u \in Threads : call'[u].kind \notin Kinds \/ call'[u] = call[u]
        BY <1>a, <1>c, <2>3, SMT DEF Goes, NoCall, Kinds
    <3>2. UNCHANGED <<pending, received, m_usedIds, holder, misreported>>
        BY <1>10 DEF InternalDisconnect, vars
    <3>3. Accounted' /\ Disconnected'
        BY <2>3, <3>1, <3>2, ConnectionEnds DEF Ends, CutOff
    <3> QED
        BY <1>2, <2>3, <3>3 DEF Ends
  <2>4. CASE /\ m_connectionStatus' = "DISCONNECTED" /\ broker' = {}
             /\ cutOff' = CutOffInKeptQueue
             /\ call' = [call EXCEPT ![t] = NoCall] /\ Goes(t, "clear")
    <3>1. /\ pc'[t] = "clear"
          /\ \A u \in Threads \ {t} : pc'[u] # "cancel"
          /\ \A u \in Threads : call'[u].kind \notin Kinds \/ call'[u] = call[u]
        BY <1>a, <1>c, <2>4, SMT DEF Goes, NoCall, Kinds
    <3>2. UNCHANGED <<pending, received, batch, m_usedIds, holder, misreported>>
        BY <1>10 DEF InternalDisconnect, vars, queueVars
    <3>3. ~Straddles /\ Queued = {}
        BY <2>4 DEF CutOffInKeptQueue, CutOff
    <3>4. Queued' = {}
        BY <3>2, <3>3 DEF Queued
    <3>5. Accounted' /\ Disconnected'
        BY <2>4, <3>1, <3>2, <3>3, <3>4, ConnectionEnds
    <3> QED
        BY <1>2, <2>4, <3>5
  <2> QED
      BY <1>10, <2>2, <2>3, <2>4 DEF InternalDisconnect
<1>11. ASSUME NEW t \in Threads, ClearState(t) PROVE Tracked'
    BY <1>11, <1>c DEF ClearState
<1>24. ASSUME NEW t \in Threads, CancelComposer(t) PROVE Tracked'
  <2>1. pc[t] = "abandon" /\ t = "tick"
      BY <1>24, <1>c DEF CancelComposer, EndingIsDisconnected, Threads
  <2>2. Queued' = {} /\ UNCHANGED vars
      BY <1>24, <2>1, NoRequestCancelled DEF Abandoned
  <2>3. \A u \in Threads :
           /\ pc'[u] \in {"push", "add"} => pc'[u] = pc[u]
           /\ pc[u] = "push" => pc'[u] = "push"
      BY <1>24, <1>a, <2>1, SMT DEF CancelComposer, AfterCancelling, Goes
  <2>4. Accounted' /\ Connected'
      BY <1>24, <2>2, <2>3, StaysConnected DEF CancelComposer, wireVars, vars
  <2> QED
      BY <1>1, <1>24, <2>4 DEF CancelComposer
<1>12. ASSUME NEW t \in Threads, CallbackReturns(t) PROVE Tracked'
  <2>1. \A u \in Threads :
           /\ pc'[u] \in {"push", "add"} => pc'[u] = pc[u] /\ call'[u] = call[u]
           /\ pc[u] = "push" => pc'[u] = "push" /\ call'[u] = call[u]
      BY <1>12, <1>a, <1>b, SMT DEF CallbackReturns, Returns, Goes
  <2> QED
      BY <1>3, <1>12, <2>1 DEF CallbackReturns, vars, queueVars, wireVars
<1>13. ASSUME ConnectionLost PROVE Tracked'
  <2>1. /\ pc'["tick"] = "cancel" /\ m_mutex' = "tick"
        /\ \A u \in Threads \ {"tick"} : pc'[u] # "cancel"
        /\ UNCHANGED <<call, pending, received, m_usedIds, holder, misreported>> /\ Ends
      BY <1>13, <1>a, <1>c, SMT DEF ConnectionLost, Goes, vars
  <2>2. Accounted' /\ Disconnected'
      BY <1>a, <2>1, ConnectionEnds DEF Ends, CutOff
  <2> QED
      BY <1>2, <2>1, <2>2 DEF Ends
<1>14. ASSUME TickSendPackets PROVE Tracked'
  <2>1. CASE m_connectionStatus' = m_connectionStatus
      BY <1>1, <1>14, <2>1, SentTracked
  <2>2. CASE m_connectionStatus' # m_connectionStatus
    <3>1. Ends /\ Goes("tick", "clear") /\ batch' = <<>>
        BY <1>14, <2>2 DEF TickSendPackets
    <3>2. /\ pc'["tick"] = "clear" /\ \A u \in Threads \ {"tick"} : pc'[u] # "cancel"
        BY <1>a, <1>c, <3>1, SMT DEF Goes
    <3>3. UNCHANGED <<call, pending, received, m_usedIds, holder, misreported>>
        BY <1>14 DEF TickSendPackets, vars
    <3>4. Queued' = {} /\ ~Straddles
        BY <3>1 DEF Queued, Ends, CutOff
    <3>5. Accounted' /\ Disconnected'
        BY <1>a, <3>1, <3>2, <3>3, <3>4, ConnectionEnds DEF Ends
    <3> QED
        BY <1>2, <3>1, <3>5 DEF Ends
  <2> QED
      BY <2>1, <2>2
<1>15. ASSUME NEW step \in Steps \ {"push", "add"}, Goes("tick", step) \/ UNCHANGED pc, UNCHANGED call,
              pc["tick"] # "push",
              UNCHANGED <<pending, batch, m_usedIds, holder, misreported>>,
              broker' \subseteq broker, received' = received \/ received' = <<>>,
              m_connectionStatus' # "DISCONNECTED"
       PROVE  Tracked'
  <2>1. \A u \in Threads :
           /\ pc'[u] \in {"push", "add"} => pc'[u] = pc[u] /\ call'[u] = call[u]
           /\ pc[u] = "push" => pc'[u] = "push" /\ call'[u] = call[u]
      BY <1>15, <1>a, SMT DEF Goes
  <2>2. Accounted' /\ Connected'
      BY <1>15, <2>1, StaysConnected
  <2> QED
      BY <1>1, <1>15, <2>2
<1>16. ASSUME TickUnconnected \/ BatchSent \/ AllReceived \/ RedirectionStarted PROVE Tracked'
  <2>1. "events" \in Steps \ {"push", "add"} /\ "receive" \in Steps \ {"push", "add"}
      BY DEF Steps
  <2>2. Goes("tick", "events") \/ Goes("tick", "receive")
      BY <1>16 DEF TickUnconnected, BatchSent, AllReceived, RedirectionStarted
  <2>3. /\ UNCHANGED <<call, pending, batch, m_usedIds, holder, misreported, broker, received>>
        /\ m_connectionStatus' # "DISCONNECTED" /\ pc["tick"] # "push"
      BY <1>16 DEF TickUnconnected, BatchSent, AllReceived, RedirectionStarted, vars, queueVars,
         wireVars
  <2> QED
      BY <1>15, <2>1, <2>2, <2>3
<1>17. ASSUME InvokeEvents PROVE Tracked'
  <2>1. "idle" \in Steps \ {"push", "add"} /\ "callback" \in Steps \ {"push", "add"}
      BY DEF Steps
  <2>2. /\ Goes("tick", "idle") \/ Goes("tick", "callback")
        /\ UNCHANGED <<call, pending, batch, m_usedIds, holder, misreported, broker, received,
                       m_connectionStatus>>
        /\ pc["tick"] # "push"
      BY <1>17 DEF InvokeEvents, vars, queueVars, wireVars
  <2> QED
      BY <1>15, <2>1, <2>2
<1>18. ASSUME AnswerReceived PROVE Tracked'
    BY <1>1, <1>18, AnswerAccounted, AnswerConnected DEF AnswerReceived
<1>19. ASSUME RedirectionReceived PROVE Tracked'
  <2>1. "redirect" \in Steps \ {"push", "add"} /\ "callback" \in Steps \ {"push", "add"}
      BY DEF Steps
  <2>2. /\ Goes("tick", "redirect") \/ Goes("tick", "callback")
        /\ UNCHANGED <<call, pending, batch, m_usedIds, holder, misreported, m_connectionStatus>>
        /\ broker' = {} /\ received' = <<>>
        /\ pc["tick"] # "push"
      BY <1>19 DEF RedirectionReceived, Dispatch, vars, queueVars
  <2> QED
      BY <1>15, <2>1, <2>2
<1>25. ASSUME NextAddress \/ RedirectionFails PROVE Tracked'
  <2>1. /\ "abandon" \in Steps \ {"push", "add"} /\ "events" \in Steps \ {"push", "add"}
        /\ "callback" \in Steps \ {"push", "add"}
      BY DEF Steps
  <2>2. /\ Goes("tick", "abandon") \/ Goes("tick", "events") \/ Goes("tick", "callback")
        /\ UNCHANGED <<call, pending, batch, m_usedIds, holder, misreported, m_connectionStatus>>
        /\ broker' = {} /\ (received' = received \/ received' = <<>>)
        /\ pc["tick"] # "push"
      BY <1>25 DEF NextAddress, RedirectionFails, AttemptOver, Dispatch, vars, queueVars
  <2>3. m_connectionStatus' # "DISCONNECTED"
      BY <1>25 DEF NextAddress, RedirectionFails, AttemptOver
  <2>4. CASE Goes("tick", "abandon")
      BY <1>15, <2>1, <2>2, <2>3, <2>4
  <2>5. CASE Goes("tick", "events")
      BY <1>15, <2>1, <2>2, <2>3, <2>5
  <2>6. CASE Goes("tick", "callback")
      BY <1>15, <2>1, <2>2, <2>3, <2>6
  <2> QED
      BY <2>2, <2>4, <2>5, <2>6
<1>26. ASSUME ClosingTold PROVE Tracked'
  <2>1. "events" \in Steps \ {"push", "add"} /\ "callback" \in Steps \ {"push", "add"}
      BY DEF Steps
  <2>2. /\ Goes("tick", "events") \/ Goes("tick", "callback")
        /\ UNCHANGED <<call, pending, batch, m_usedIds, holder, misreported, m_connectionStatus,
                       broker, received>>
        /\ pc["tick"] # "push"
      BY <1>26 DEF ClosingTold, Dispatch, vars, queueVars, wireVars
  <2> QED
      BY <1>15, <2>1, <2>2
<1>27. ASSUME UNCHANGED <<pending, call, received, batch, m_usedIds, holder, misreported>>,
              broker' = {}, Queued = {}, received = <<>>, m_connectionStatus' = "DISCONNECTED",
              \A u \in Threads : call[u].kind \notin Kinds,
              Goes("tick", "closed") \/ Goes("tick", "events") \/ Goes("tick", "callback")
       PROVE  Tracked'
  <2>1. Subs' = Subs /\ Queued' = Queued
      BY <1>27 DEF Subs, Queued
  <2>2. \A u \in Threads : pc'[u] # "cancel"
      BY <1>27, <1>a, <1>c, SMT DEF Goes
  <2>3. Accounted'
      BY <1>27, <2>1, SMT DEF Accounted, Kinds
  <2>4. \A k \in DOMAIN Subs : Owns(Subs[k])
      BY DEF Connected
  <2>5. Disconnected'
      BY <1>27, <2>1, <2>2, <2>4 DEF Disconnected, Owns
  <2> QED
      BY <1>2, <1>27, <2>3, <2>5
<1>28. ASSUME RedirectionFailed PROVE Tracked'
  <2>1. /\ UNCHANGED <<pending, call, received, broker, batch, m_usedIds, holder, misreported>>
        /\ m_connectionStatus' = "DISCONNECTED" /\ pc["tick"] = "failed"
        /\ Goes("tick", "closed") \/ Goes("tick", "callback")
      BY <1>28 DEF RedirectionFailed, Dispatch, vars, queueVars, wireVars
  <2> QED
      BY <1>27, <2>1 DEF Abandoned, EndingIsDisconnected
<1>29. ASSUME RedirectionSocketFails PROVE Tracked'
  <2>1. /\ UNCHANGED <<pending, call, received, batch, m_usedIds, holder, misreported>>
        /\ m_connectionStatus' = "DISCONNECTED" /\ m_connectionStatus = "RECONNECTING"
        /\ broker' = {} /\ cutOff' = CutOffInKeptQueue
        /\ Goes("tick", "events") \/ Goes("tick", "callback")
      BY <1>29 DEF RedirectionSocketFails, AttemptOver, Dispatch, vars, queueVars
  <2>2. Queued = {} /\ \A u \in Threads : call[u].kind \notin Kinds
      BY <2>1 DEF CutOffInKeptQueue, CutOff, Straddles
  <2> QED
      BY <1>27, <2>1, <2>2 DEF EndingIsDisconnected
<1>20. ASSUME Connect PROVE Tracked'
  <2>1. /\ UNCHANGED <<pc, call, pending, batch, m_usedIds, holder, misreported, broker>>
        /\ received' = <<>> /\ m_connectionStatus' # "DISCONNECTED" /\ pc["tick"] # "push"
      BY <1>20 DEF Connect, vars, queueVars, threadVars
  <2> QED
      BY <1>15, <2>1 DEF Steps
<1>21. ASSUME ConnectFails PROVE Tracked'
    BY <1>21 DEF ConnectFails
<1>22. ASSUME BrokerAnswers PROVE Tracked'
    BY <1>1, <1>22, BrokerAnswersTracked DEF BrokerAnswers, BrokerSends
<1>23. ASSUME BrokerAnswersUnasked PROVE Tracked'
    BY <1>23, <1>a, SMT DEF BrokerAnswersUnasked
<1> QED
    BY <1>4, <1>5, <1>6, <1>7, <1>8, <1>9, <1>10, <1>11, <1>12, <1>13, <1>14, <1>16, <1>17,
       <1>18, <1>19, <1>20, <1>21, <1>22, <1>23, <1>24, <1>25, <1>26, <1>28, <1>29
    DEF RequestsNext, ThreadStep, TickStep

\* A step of a client that is disconnected.
LEMMA DisconnectedStep ==
    ASSUME PoolInv, Typed, RedirectionLocked, EndingIsDisconnected, RequestsNext,
           crashed' = "no", strays' = 0, cutOff' = {},
           Accounted, Abandoned, m_connectionStatus = "DISCONNECTED", Disconnected
    PROVE  Tracked'
<1>a. /\ pc \in [Threads -> Steps] /\ call \in [Threads -> Call]
      /\ resume \in [Threads -> Resumed] /\ CallsMatch
      /\ "tick" \in Threads /\ "app" \in Threads /\ Threads = {"app", "tick"}
      /\ None # "app" /\ None # "tick"
    BY RequestsAssumption DEF Typed, ControlTyped, DataTyped, Threads
<1>b. \A t \in Threads : resume[t] \notin {"identify", "push", "add", "lock", "cancel", "clear"}
    BY <1>a, SMT DEF Resumed
<1>c. \A t \in Threads : call[t].kind \notin Kinds
    BY DEF Disconnected
<1>1. ASSUME Accounted' /\ Connected', m_connectionStatus' # "DISCONNECTED" PROVE Tracked'
    BY <1>1 DEF Tracked
<1>2. ASSUME Accounted' /\ Disconnected', m_connectionStatus' = "DISCONNECTED" PROVE Tracked'
    BY <1>2 DEF Tracked
<1>3. ASSUME UNCHANGED <<pending, batch, broker, m_usedIds, holder, misreported,
                         m_connectionStatus>>,
             received' = received \/ received' = <<>>,
             \A t \in Threads :
                /\ call'[t].kind \notin Kinds
                /\ pc[t] = "cancel" <=> pc'[t] = "cancel"
                /\ pc[t] = "clear" <=> pc'[t] = "clear"
                /\ pc[t] = "cancel" /\ m_mutex = t => m_mutex' = t
      PROVE  Tracked'
    BY <1>2, <1>3, StaysDisconnected
<1>4. ASSUME NEW t \in Threads,
             \/ \E kind \in Kinds : RequestBegins(t, kind)
             \/ PublishBegins(t) \/ DisconnectBegins(t)
      PROVE  Tracked'
    BY <1>4 DEF RequestBegins, PublishBegins, DisconnectBegins
<1>5. ASSUME NEW t \in Threads, RequestIdentified(t) \/ RequestPushes(t) PROVE Tracked'
    BY <1>5, <1>a, <1>c DEF RequestIdentified, RequestPushes, CallsMatch
<1>6. ASSUME NEW t \in Threads, AddToQueue(t) PROVE Tracked'
  <2>1. /\ batch \in Seq(Composer) /\ call[t] \in Call /\ pc[t] = "add"
        /\ call[t].kind # "none" /\ call[t].kind \notin Kinds
      BY <1>6, <1>a, <1>c DEF AddToQueue, Typed, DataTyped, CallsMatch
  <2>2. Queued' = Queued /\ \A i \in Queued : batch'[i] = batch[i]
    <3>1. CASE batch' = batch
        BY <3>1 DEF Queued
    <3>2. CASE batch' = Append(batch, call[t]) /\ call[t].kind # "publish"
      <4>1. call[t] \in Composer
          BY <2>1, <3>2, SMT DEF Call, CallKinds, Composer
      <4>2. /\ DOMAIN batch' = DOMAIN batch \union {Len(batch) + 1}
            /\ \A i \in DOMAIN batch : batch'[i] = batch[i]
            /\ batch'[Len(batch) + 1] = call[t]
          BY <2>1, <3>2, <4>1, SMT
      <4> QED
          BY <2>1, <4>2 DEF Queued
    <3> QED
        BY <1>6, <3>1, <3>2 DEF AddToQueue
  <2>3. /\ Subs' = Subs
        /\ UNCHANGED <<broker, received, m_usedIds, holder, misreported, m_connectionStatus>>
      BY <1>6 DEF AddToQueue, Subs, vars, wireVars
  <2>4. \A u \in Threads :
           /\ call'[u].kind \notin Kinds
           /\ pc[u] = "cancel" <=> pc'[u] = "cancel"
           /\ pc[u] = "clear" <=> pc'[u] = "clear"
           /\ pc[u] = "cancel" /\ m_mutex = u => m_mutex' = u
      BY <1>6, <1>a, <1>b, <1>c, SMT DEF AddToQueue, Returns, Goes, NoCall, Kinds
  <2>5. Accounted'
      BY <1>c, <2>3, SMT DEF Accounted, Kinds
  <2>6. Clearing => Clearing'
      BY <2>4 DEF Clearing
  <2>7. Disconnected'
      BY <2>2, <2>3, <2>4, <2>6 DEF Disconnected, Owns
  <2> QED
      BY <1>2, <2>3, <2>5, <2>7
<1>7. ASSUME NEW t \in Threads, InternalDisconnect(t) PROVE Tracked'
  <2>1. /\ Returns(t) /\ call' = [call EXCEPT ![t] = NoCall] /\ UNCHANGED m_mutex /\ pc[t] = "lock"
        /\ UNCHANGED <<pending, batch, broker, received, m_usedIds, holder, misreported,
                       m_connectionStatus>>
      BY <1>7 DEF InternalDisconnect, vars, queueVars
  <2>2. \A u \in Threads :
           /\ call'[u].kind \notin Kinds
           /\ pc[u] = "cancel" <=> pc'[u] = "cancel"
           /\ pc[u] = "clear" <=> pc'[u] = "clear"
      BY <1>a, <1>b, <1>c, <2>1, SMT DEF Returns, Goes, NoCall, Kinds
  <2> QED
      BY <1>3, <2>1, <2>2
<1>8. ASSUME NEW t \in Threads, CancelComposer(t) PROVE Tracked'
    BY <1>2, <1>8, CancelTracked DEF CancelComposer
<1>9. ASSUME NEW t \in Threads, ClearState(t) PROVE Tracked'
    BY <1>2, <1>9, ClearTracked DEF ClearState
<1>10. ASSUME NEW t \in Threads, CallbackReturns(t) PROVE Tracked'
  <2>1. \A u \in Threads : /\ pc[u] = "cancel" <=> pc'[u] = "cancel"
                           /\ pc[u] = "clear" <=> pc'[u] = "clear"
      BY <1>10, <1>a, <1>b, SMT DEF CallbackReturns, Returns, Goes
  <2> QED
      BY <1>3, <1>10, <1>c, <2>1 DEF CallbackReturns, vars, queueVars, wireVars, lockVars
<1>11. ASSUME ConnectionLost \/ TickSendPackets \/ RedirectionReceived \/ BrokerAnswers
              \/ BrokerAnswersUnasked \/ NextAddress \/ RedirectionFails \/ RedirectionSocketFails
       PROVE  Tracked'
    BY <1>11 DEF ConnectionLost, TickSendPackets, RedirectionReceived, BrokerAnswers,
       BrokerAnswersUnasked, BrokerSends, NextAddress, RedirectionFails, RedirectionSocketFails,
       AttemptOver
<1>18. ASSUME RedirectionFailed \/ ClosingTold PROVE Tracked'
  <2>1. /\ UNCHANGED <<call, pending, batch, broker, received, m_usedIds, holder, misreported,
                       m_connectionStatus, m_mutex>>
        /\ pc["tick"] \in {"failed", "closed"}
        /\ Goes("tick", "closed") \/ Goes("tick", "events") \/ Goes("tick", "callback")
      BY <1>18 DEF RedirectionFailed, ClosingTold, Dispatch, vars, queueVars, wireVars, lockVars
  <2>2. \A u \in Threads : /\ pc[u] = "cancel" <=> pc'[u] = "cancel"
                           /\ pc[u] = "clear" <=> pc'[u] = "clear"
      BY <1>a, <2>1, SMT DEF Goes
  <2> QED
      BY <1>3, <1>c, <2>1, <2>2
<1>12. ASSUME TickUnconnected \/ BatchSent \/ AllReceived PROVE Tracked'
  <2>1. /\ UNCHANGED <<call, pending, batch, broker, received, m_usedIds, holder, misreported,
                       m_connectionStatus, m_mutex>>
        /\ pc["tick"] \in {"idle", "sent", "receive"}
        /\ Goes("tick", "events") \/ Goes("tick", "receive")
      BY <1>12 DEF TickUnconnected, BatchSent, AllReceived, vars, queueVars, wireVars, lockVars
  <2>2. \A u \in Threads : /\ pc[u] = "cancel" <=> pc'[u] = "cancel"
                           /\ pc[u] = "clear" <=> pc'[u] = "clear"
      BY <1>a, <2>1, SMT DEF Goes
  <2> QED
      BY <1>3, <1>c, <2>1, <2>2
<1>13. ASSUME RedirectionStarted PROVE Tracked'
    BY <1>13 DEF RedirectionStarted, RedirectionLocked
<1>14. ASSUME InvokeEvents PROVE Tracked'
  <2>1. UNCHANGED <<call, pending, batch, broker, received, m_usedIds, holder, misreported,
                    m_connectionStatus>>
      BY <1>14 DEF InvokeEvents, vars, queueVars, wireVars
  <2>2. \A u \in Threads : /\ pc[u] = "cancel" <=> pc'[u] = "cancel"
                           /\ pc[u] = "clear" <=> pc'[u] = "clear"
                           /\ pc[u] = "cancel" /\ m_mutex = u => m_mutex' = u
      BY <1>14, <1>a, SMT DEF InvokeEvents, Unlocks, Goes
  <2> QED
      BY <1>3, <1>c, <2>1, <2>2
<1>15. ASSUME AnswerReceived PROVE Tracked'
    BY <1>2, <1>15, AnswerAccounted, AnswerDisconnected DEF AnswerReceived
<1>16. ASSUME Connect PROVE Tracked'
  <2>1. /\ pc["app"] = "idle" /\ pc["tick"] = "idle"
        /\ UNCHANGED <<pc, call, pending, batch, broker, m_usedIds, holder, misreported>>
        /\ received' = <<>> /\ m_connectionStatus' # "DISCONNECTED"
      BY <1>16 DEF Connect, vars, queueVars, threadVars
  <2>2. /\ Subs' = Subs /\ Queued' = {} /\ broker' = {} /\ Identified' = {} /\ ~Clearing
      BY <1>a, <1>c, <2>1 DEF Disconnected, Clearing, Subs, Queued, Identified
  <2>3. DOMAIN received' = {} /\ (Subs = <<>> => DOMAIN Subs = {})
      BY <2>1, SMT
  <2>4. Accounted'
      BY <2>1, <2>2, <2>3 DEF Accounted
  <2>6. \A k \in DOMAIN Subs : Owns(Subs[k])
      BY <2>2, <2>3 DEF Disconnected
  <2>5. Connected'
      BY <2>1, <2>2, <2>3, <2>6 DEF Connected, AloneInFlight, Owns
  <2> QED
      BY <1>1, <2>1, <2>4, <2>5
<1>17. ASSUME ConnectFails PROVE Tracked'
  <2>1. /\ pc["app"] = "idle" /\ pc["tick"] = "idle" /\ pc' = [pc EXCEPT !["tick"] = "cancel"]
        /\ UNCHANGED <<call, pending, batch, broker, m_usedIds, holder, misreported,
                       m_connectionStatus>>
        /\ received' = <<>>
      BY <1>17 DEF ConnectFails, Goes, vars
  <2>2. /\ Subs' = Subs /\ Queued' = Queued /\ Queued = {} /\ ~Clearing /\ pc'["tick"] = "cancel"
      BY <1>a, <2>1 DEF Disconnected, Clearing, Subs, Queued
  <2>3. DOMAIN received' = {}
      BY <2>1, SMT
  <2>4. Accounted'
      BY <1>c, <2>1, <2>2, <2>3, SMT DEF Accounted, Kinds
  <2>6. Subs = <<>> \/ \A k \in DOMAIN Subs : Owns(Subs[k])
      BY <2>2 DEF Disconnected
  <2>5. Disconnected'
      BY <1>a, <1>c, <2>1, <2>2, <2>6 DEF Disconnected, Owns
  <2> QED
      BY <1>2, <2>1, <2>4, <2>5
<1> QED
    BY <1>4, <1>5, <1>6, <1>7, <1>8, <1>9, <1>10, <1>11, <1>12, <1>13, <1>14, <1>15, <1>16, <1>17,
       <1>18
    DEF RequestsNext, ThreadStep, TickStep

\* A redirection that failed with nothing on the way stays one.
LEMMA AbandonedStep ==
    ASSUME Typed, EndingIsDisconnected, RequestsNext, cutOff' = {}, Abandoned
    PROVE  Abandoned'
<1>a. /\ pc \in [Threads -> Steps] /\ call \in [Threads -> Call]
      /\ resume \in [Threads -> Resumed] /\ batch \in Seq(Composer) /\ CallsMatch
      /\ Threads = {"app", "tick"} /\ "tick" \in Threads
    BY DEF Typed, ControlTyped, DataTyped, Threads
<1>b. \A t \in Threads : resume[t] \notin {"abandon", "failed"}
    BY <1>a, SMT DEF Resumed
<1>1. ASSUME pc'["tick"] \notin {"abandon", "failed"} PROVE Abandoned'
    BY <1>1 DEF Abandoned
<1>2. ASSUME pc["tick"] \in {"abandon", "failed"}, batch' = batch \/ Queued' = {},
             broker' = broker \/ broker' = {},
             \A t \in Threads : call'[t].kind = call[t].kind \/ call'[t].kind \notin Kinds
      PROVE  Abandoned'
    BY <1>2 DEF Abandoned, Queued
<1>3. ASSUME NEW t \in Threads, NEW kind \in Kinds, RequestBegins(t, kind) PROVE Abandoned'
  <2>1. /\ pc["tick"] \notin {"abandon", "failed"}
        /\ pc'["tick"] = pc["tick"] \/ pc'["tick"] = "identify"
      BY <1>3, <1>a, SMT DEF RequestBegins, Goes, EndingIsDisconnected
  <2> QED
      BY <1>1, <2>1
<1>4. ASSUME NEW t \in Threads, PublishBegins(t) PROVE Abandoned'
  <2>1. /\ pc["tick"] \notin {"abandon", "failed"}
        /\ pc'["tick"] = pc["tick"] \/ pc'["tick"] = "add"
      BY <1>4, <1>a, SMT DEF PublishBegins, Goes, EndingIsDisconnected
  <2> QED
      BY <1>1, <2>1
<1>5. ASSUME NEW t \in Threads, DisconnectBegins(t) PROVE Abandoned'
  <2>1. /\ pc'["tick"] = pc["tick"] \/ pc'["tick"] = "lock"
        /\ \A u \in Threads : call'[u] = call[u] \/ call'[u].kind \notin Kinds
      BY <1>5, <1>a, SMT DEF DisconnectBegins, Goes, NoCall, Kinds
  <2>2. UNCHANGED <<batch, broker>>
      BY <1>5 DEF DisconnectBegins, queueVars, wireVars
  <2> QED
      BY <1>1, <1>2, <2>1, <2>2
<1>6. ASSUME NEW t \in Threads, RequestIdentified(t) \/ RequestPushes(t) PROVE Abandoned'
  <2>1. pc["tick"] \notin {"abandon", "failed"}
      BY <1>6, <1>a DEF RequestIdentified, RequestPushes, Abandoned, CallsMatch
  <2>2. pc'["tick"] = pc["tick"] \/ pc'["tick"] \in {"push", "add"}
      BY <1>6, <1>a, SMT DEF RequestIdentified, RequestPushes, Goes
  <2> QED
      BY <1>1, <2>1, <2>2
<1>7. ASSUME NEW t \in Threads, AddToQueue(t) PROVE Abandoned'
  <2>3. pc'["tick"] = pc["tick"] \/ pc'["tick"] \notin {"abandon", "failed"}
      BY <1>7, <1>a, <1>b, SMT DEF AddToQueue, Returns, Goes
  <2>4. \A u \in Threads : call'[u] = call[u] \/ call'[u].kind \notin Kinds
      BY <1>7, <1>a, SMT DEF AddToQueue, NoCall, Kinds
  <2>5. /\ \/ batch' = batch
           \/ batch' = Append(batch, call[t]) /\ call[t].kind # "publish"
        /\ UNCHANGED broker /\ pc[t] = "add"
    <3>1. CASE call[t].kind = "publish"
        BY <1>7, <3>1 DEF AddToQueue, wireVars
    <3>2. CASE call[t].kind # "publish"
        BY <1>7, <3>2 DEF AddToQueue, wireVars
    <3> QED
        BY <3>1, <3>2
  <2>1. /\ pc'["tick"] = pc["tick"] \/ pc'["tick"] \notin {"abandon", "failed"}
        /\ \A u \in Threads : call'[u] = call[u] \/ call'[u].kind \notin Kinds
        /\ \/ batch' = batch
           \/ batch' = Append(batch, call[t]) /\ call[t].kind # "publish"
        /\ UNCHANGED broker /\ pc[t] = "add"
      BY <2>3, <2>4, <2>5
  <2>2. ASSUME pc["tick"] \in {"abandon", "failed"}, batch' = Append(batch, call[t]),
               call[t].kind # "publish"
        PROVE  Queued' = {}
    <3>1. Queued = {} /\ call[t].kind \notin Kinds /\ call[t].kind # "none" /\ call[t] \in Call
        BY <1>a, <2>1, <2>2 DEF Abandoned, CallsMatch
    <3>2. call[t] \in Composer
        BY <2>2, <3>1, SMT DEF Call, CallKinds, Composer
    <3>3. /\ DOMAIN batch' = DOMAIN batch \union {Len(batch) + 1}
          /\ \A i \in DOMAIN batch : batch'[i] = batch[i]
          /\ batch'[Len(batch) + 1] = call[t]
        BY <1>a, <2>2, <3>2, SMT
    <3> QED
        BY <3>1, <3>3 DEF Queued
  <2> QED
      BY <1>1, <1>2, <2>1, <2>2
<1>8. ASSUME NEW t \in Threads, InternalDisconnect(t) PROVE Abandoned'
  <2>1. /\ pc'["tick"] = pc["tick"] \/ pc'["tick"] \notin {"abandon", "failed"}
        /\ \A u \in Threads : call'[u] = call[u] \/ call'[u].kind \notin Kinds
        /\ broker' = broker \/ broker' = {}
        /\ UNCHANGED batch
      BY <1>8, <1>a, <1>b, SMT DEF InternalDisconnect, Ends, Returns, Goes, NoCall, Kinds, queueVars
  <2> QED
      BY <1>1, <1>2, <2>1
<1>9. ASSUME NEW t \in Threads, CancelComposer(t) PROVE Abandoned'
  <2>3. UNCHANGED pc \/ (Goes(t, AfterCancelling(t)) /\ pc[t] \in {"cancel", "abandon"})
      BY <1>9 DEF CancelComposer
  <2>4. pc'["tick"] \in {"abandon", "failed"} => pc["tick"] \in {"abandon", "failed"}
      BY <1>a, <2>3, SMT DEF Goes, AfterCancelling
  <2>1. /\ pc'["tick"] \in {"abandon", "failed"} => pc["tick"] \in {"abandon", "failed"}
        /\ UNCHANGED <<call, broker>>
      BY <1>9, <2>4 DEF CancelComposer, wireVars
  <2>2. pc["tick"] \in {"abandon", "failed"} => Queued' = {}
      BY <1>9, NoRequestCancelled DEF Abandoned
  <2> QED
      BY <1>1, <1>2, <2>1, <2>2
<1>10. ASSUME NEW t \in Threads, ClearState(t) \/ CallbackReturns(t) PROVE Abandoned'
  <2>1. /\ pc'["tick"] = pc["tick"] \/ pc'["tick"] \notin {"abandon", "failed"}
        /\ UNCHANGED <<call, batch, broker>>
      BY <1>10, <1>a, <1>b, SMT DEF ClearState, CallbackReturns, Dispatch, AfterDisconnect, Returns,
         Goes, queueVars, wireVars
  <2> QED
      BY <1>1, <1>2, <2>1
<1>11. ASSUME NEW step \in Steps \ {"abandon", "failed"}, Goes("tick", step) PROVE Abandoned'
  <2>1. pc'["tick"] = step
      BY <1>11, <1>a DEF Goes
  <2> QED
      BY <1>1, <1>11, <2>1
<1>12. ASSUME \/ ConnectionLost \/ TickSendPackets \/ TickUnconnected \/ BatchSent \/ AllReceived
              \/ RedirectionStarted \/ InvokeEvents \/ RedirectionReceived \/ NextAddress
              \/ RedirectionFailed \/ ClosingTold \/ RedirectionSocketFails \/ ConnectFails
       PROVE  Abandoned'
  <2>1. \E step \in {"idle", "receive", "redirect", "events", "callback", "cancel", "clear", "closed"} :
           Goes("tick", step)
      BY <1>12 DEF ConnectionLost, TickSendPackets, TickUnconnected, BatchSent, AllReceived,
         RedirectionStarted, InvokeEvents, RedirectionReceived, NextAddress, RedirectionFailed,
         ClosingTold, RedirectionSocketFails, ConnectFails, Dispatch
  <2> QED
      BY <1>11, <2>1 DEF Steps
<1>13. ASSUME AnswerReceived PROVE Abandoned'
  <2>1. pc'["tick"] \notin {"abandon", "failed"}
      BY <1>13, <1>a, SMT DEF AnswerReceived, Dispatch, Goes
  <2> QED
      BY <1>1, <2>1
<1>14. ASSUME RedirectionFails PROVE Abandoned'
    BY <1>14 DEF RedirectionFails, AttemptOver, CutOff, Straddles, Abandoned, Queued, queueVars
<1>15. ASSUME Connect PROVE Abandoned'
    BY <1>1, <1>15 DEF Connect, threadVars
<1>16. ASSUME NEW answer, BrokerSends(answer) PROVE Abandoned'
    BY <1>1, <1>16 DEF BrokerSends, threadVars
<1> QED
    BY <1>3, <1>4, <1>5, <1>6, <1>7, <1>8, <1>9, <1>10, <1>12, <1>13, <1>14, <1>15, <1>16
    DEF RequestsNext, ThreadStep, TickStep, BrokerAnswers, BrokerAnswersUnasked

\* The answer that ends the process has no pending request.
LEMMA FatalStep ==
    ASSUME PoolInv, Typed, RequestsNext, crashed' # "no"
    PROVE  UNCHANGED misreported
<1>a. crashed = "no"
    BY StepsAreAlive
<1>1. ASSUME AnswerReceived PROVE UNCHANGED misreported
  <2> DEFINE a == Head(received)
  <2>1. /\ a \in Request /\ Releases(a.id) /\ pending \in [Kinds -> Seq(Request)]
      BY <1>1, HeadTailProperties DEF AnswerReceived, Typed, DataTyped
  <2>2. a.id \in 0 .. MaxPacketId /\ a.kind \in Kinds
      BY <2>1 DEF Request
  <2>3. ~(a.id < PoolSize)
      BY <1>a, <2>1, PoolAssumption, SMT DEF Releases, ReleaseId, vars
  <2>4. ASSUME NEW i \in DOMAIN pending[a.kind] PROVE pending[a.kind][i].id # a.id
    <3>1. pending[a.kind][i].id \in 1 .. PoolSize - 1
        BY <2>2 DEF Typed, PendingMatch
    <3> QED
        BY <2>2, <2>3, <3>1, PoolAssumption, SMT
  <2> QED
      BY <1>1, <2>4 DEF AnswerReceived, PendingOf
<1>2. ASSUME ~AnswerReceived PROVE UNCHANGED misreported
    BY <1>2 DEF RequestsNext, ThreadStep, TickStep, RequestBegins, PublishBegins,
       DisconnectBegins, RequestIdentified, RequestPushes, AddToQueue, InternalDisconnect,
       CancelComposer, ClearState, CallbackReturns, ConnectionLost, TickSendPackets,
       TickUnconnected, BatchSent, AllReceived, RedirectionReceived, RedirectionStarted,
       NextAddress, RedirectionFails, RedirectionFailed, ClosingTold, RedirectionSocketFails,
       InvokeEvents, Connect, ConnectFails, BrokerAnswers, BrokerAnswersUnasked, BrokerSends
<1> QED
    BY <1>1, <1>2

-----------------------------------------------------------------------------
(* The invariant and what follows from it.                                  *)

\* It holds at the start.
LEMMA InitRequestsInv == RequestsInit => RequestsInv
<1> SUFFICES ASSUME RequestsInit PROVE RequestsInv
    OBVIOUS
<1>1. PoolInv /\ Typed
    BY InitPoolInv, InitTyped DEF RequestsInit
<1>2. RedirectionLocked /\ EndingIsDisconnected
    BY SMT DEF RequestsInit, RedirectionLocked, EndingIsDisconnected, Threads
<1>7. Abandoned
    BY SMT DEF RequestsInit, Abandoned, Threads
<1>3. Subs = <<>> /\ Queued = {} /\ broker = {} /\ received = <<>> /\ m_usedIds = {}
  <2>1. batch = <<>> => DOMAIN batch = {}
      BY SMT
  <2> QED
      BY <2>1 DEF RequestsInit, Init, Subs, Queued, Kinds
<1>4. DOMAIN Subs = {} /\ DOMAIN received = {}
    BY <1>3, SMT
<1>5. Accounted
    BY <1>3, <1>4 DEF Accounted, RequestsInit
<1>6. Disconnected
    BY <1>3, SMT DEF Disconnected, RequestsInit, NoCall, Kinds
<1> QED
    BY <1>1, <1>2, <1>5, <1>6, <1>7 DEF RequestsInv, Tracked, RequestsInit, SubscriptionsMatch

\* Every step keeps it.
LEMMA NextRequestsInv == RequestsInv /\ [RequestsNext]_requestsVars => RequestsInv'
<1> SUFFICES ASSUME RequestsInv, [RequestsNext]_requestsVars PROVE RequestsInv'
    OBVIOUS
<1>1. PoolInv' /\ Typed'
    BY PoolStep, TypedStep, NextPoolInv DEF RequestsInv
<1>2. CASE RequestsNext
  <2>1. RedirectionLocked' /\ EndingIsDisconnected'
      BY <1>2, RedirectionStep, EndingStep DEF RequestsInv
  <2>2. crashed = "no"
      BY <1>2, StepsAreAlive
  <2>3. ASSUME strays' = 0, cutOff' = {} PROVE Tracked /\ Abandoned
    <3>2. strays = 0 /\ cutOff = {}
      <4>1. strays' = strays \/ strays' = strays + 1
          BY <1>2 DEF RequestsNext, ThreadStep, TickStep, RequestBegins, PublishBegins,
             DisconnectBegins, RequestIdentified, RequestPushes, AddToQueue, InternalDisconnect,
             CancelComposer, ClearState, CallbackReturns, ConnectionLost, TickSendPackets,
             TickUnconnected, BatchSent, AnswerReceived, AllReceived, RedirectionReceived,
             RedirectionStarted, NextAddress, RedirectionFails, RedirectionFailed, ClosingTold,
             RedirectionSocketFails, InvokeEvents, Connect, ConnectFails, BrokerAnswers,
             BrokerAnswersUnasked, BrokerSends, countVars
      <4>2. cutOff \subseteq cutOff'
          BY <1>2 DEF RequestsNext, ThreadStep, TickStep, RequestBegins, PublishBegins,
             DisconnectBegins, RequestIdentified, RequestPushes, AddToQueue, InternalDisconnect,
             CancelComposer, ClearState, CallbackReturns, ConnectionLost, TickSendPackets,
             TickUnconnected, BatchSent, AnswerReceived, AllReceived, RedirectionReceived,
             RedirectionStarted, NextAddress, RedirectionFails, RedirectionFailed, ClosingTold,
             RedirectionSocketFails, InvokeEvents, Connect, ConnectFails, BrokerAnswers,
             BrokerAnswersUnasked, BrokerSends, countVars, Ends, CutOff,
             CutOffInKeptQueue
      <4>3. strays \in Nat
          BY DEF RequestsInv, Typed, DataTyped
      <4>4. strays = 0
          BY <2>3, <4>1, <4>3, SMT
      <4>5. cutOff = {}
          BY <2>3, <4>2
      <4> QED
          BY <4>4, <4>5
    <3> QED
        BY <2>2, <3>2 DEF RequestsInv
  <2>4. ASSUME crashed' = "no", strays' = 0, cutOff' = {} PROVE Tracked' /\ Abandoned'
    <3>1. Tracked'
        BY <1>2, <2>3, <2>4, ConnectedStep, DisconnectedStep DEF RequestsInv, Tracked
    <3>2. Abandoned'
        BY <1>2, <2>3, <2>4, AbandonedStep DEF RequestsInv
    <3> QED
        BY <3>1, <3>2
  <2>5. ASSUME crashed' # "no", strays' = 0, cutOff' = {} PROVE "subscribe" \notin misreported'
      BY <1>2, <2>2, <2>3, <2>5, FatalStep DEF RequestsInv, Tracked, Accounted
  <2>6. SubscriptionsMatch'
      BY <2>4, <2>5 DEF SubscriptionsMatch, Tracked, Accounted
  <2> QED
      BY <1>1, <2>1, <2>4, <2>6 DEF RequestsInv
<1>3. CASE UNCHANGED requestsVars
  <2>1. RedirectionLocked' /\ EndingIsDisconnected'
      BY <1>3 DEF RequestsInv, RedirectionLocked, EndingIsDisconnected, requestsVars, lockVars,
         threadVars, wireVars
  <2>4. Abandoned => Abandoned'
      BY <1>3 DEF Abandoned, Queued, requestsVars, queueVars, wireVars, threadVars
  <2>2. Tracked => Tracked'
      BY <1>3 DEF Clearing, Tracked, Accounted, Connected, Disconnected, AloneInFlight, Identified, Queued,
         Subs, Owns, Pushed, requestsVars, vars, lockVars, queueVars, wireVars, threadVars
  <2> QED
      BY <1>1, <1>3, <2>1, <2>2, <2>4 DEF RequestsInv, requestsVars, vars, countVars, SubscriptionsMatch
<1> QED
    BY <1>2, <1>3

\* The invariant holds in every state of the composition.
LEMMA RequestsInvariant == RequestsSpec => []RequestsInv
BY InitRequestsInv, NextRequestsInv, PTL DEF RequestsSpec

\* A SUBACK is reported with the topics of the subscription it answers, however many
\* requests, lost connections, redirections and callbacks came before, when no connection
\* ended in the middle of a call or with a request in a queue that is kept, no redirection
\* failed with one queued and the broker answered only what it was asked.
THEOREM SubscriptionsAlwaysMatch == RequestsSpec => []SubscriptionsMatch
<1>1. RequestsInv => SubscriptionsMatch
    BY DEF RequestsInv
<1> QED
    BY <1>1, RequestsInvariant, PTL

\* When nothing is going on, the identifiers in use for subscriptions are those of the
\* pending ones, under the same conditions.
THEOREM SubscriptionIdsAlwaysReturned == RequestsSpec => []SubscriptionIdsReturned
<1>1. ASSUME RequestsInv PROVE SubscriptionIdsReturned
  <2> SUFFICES ASSUME Quiet, crashed = "no", strays = 0, cutOff = {}
               PROVE  IdsReturnedFor("subscribe")
      BY DEF SubscriptionIdsReturned
  <2>1. Tracked /\ \A t \in Threads : pc[t] = "idle"
      BY <1>1 DEF RequestsInv, Quiet
  <2>2. \A id \in m_usedIds : holder[id] = "subscribe" => \E i \in DOMAIN Subs : Subs[i].id = id
      BY <2>1, SMT DEF Tracked, Accounted
  <2>3. \A i \in DOMAIN Subs : Subs[i].id \in m_usedIds /\ holder[Subs[i].id] = "subscribe"
    <3>1. CASE m_connectionStatus = "DISCONNECTED"
      <4>1. Subs = <<>> \/ \A i \in DOMAIN Subs : Owns(Subs[i])
          BY <2>1, <3>1, SMT DEF Tracked, Disconnected, Clearing
      <4>2. \A i \in DOMAIN Subs : Subs[i].kind = "subscribe" /\ Subs # <<>>
          BY <1>1, SMT DEF RequestsInv, Typed, DataTyped, PendingMatch, Kinds, Subs
      <4> QED
          BY <4>1, <4>2 DEF Owns
    <3>2. CASE m_connectionStatus # "DISCONNECTED"
      <4>1. \A i \in DOMAIN Subs : Owns(Subs[i]) /\ Subs[i].kind = "subscribe"
          BY <1>1, <2>1, <3>2 DEF RequestsInv, Typed, PendingMatch, Kinds, Subs, Tracked, Connected
      <4> QED
          BY <4>1 DEF Owns
    <3> QED
        BY <3>1, <3>2
  <2> QED
      BY <2>2, <2>3 DEF IdsReturnedFor, IdsHeldFor, Subs
<1> QED
    BY <1>1, RequestsInvariant, PTL
=============================================================================
