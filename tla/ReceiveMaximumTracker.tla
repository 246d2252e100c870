----------------------- MODULE ReceiveMaximumTracker -----------------------
(***************************************************************************)
(* The flow-control tracker of one connection (ReceiveMaximumTracker.h),   *)
(* a record with one allowance per direction and the packet identifiers    *)
(* that hold a part of it.  The tracker has no lock: only the tick thread  *)
(* calls it.  The operators are shared by the components that use it.      *)
(***************************************************************************)
EXTENDS Naturals

NewTracker(receiveMaximumClient, receiveMaximumBroker) ==
    [m_receiveAllowance    |-> receiveMaximumClient,
     m_sendAllowance       |-> receiveMaximumBroker,
     m_maxReceiveAllowance |-> receiveMaximumClient,
     m_maxSendAllowance    |-> receiveMaximumBroker,
     m_receivedPublishIDs  |-> {},
     m_sentPublishIDs      |-> {}]

\* A PUBACK or PUBCOMP for the identifier is being sent.
IncrementReceiveAllowance(t, id) ==
    IF t.m_receiveAllowance < t.m_maxReceiveAllowance /\ id \in t.m_receivedPublishIDs
    THEN [t EXCEPT !.m_receiveAllowance = @ + 1, !.m_receivedPublishIDs = @ \ {id}]
    ELSE t

\* The value decrementReceiveAllowance returns for a received PUBLISH: false
\* at an allowance of zero, even when the identifier already holds its part.
MayReceive(t, id) == t.m_receiveAllowance # 0

DecrementReceiveAllowance(t, id) ==
    IF MayReceive(t, id) /\ id \notin t.m_receivedPublishIDs
    THEN [t EXCEPT !.m_receiveAllowance = @ - 1, !.m_receivedPublishIDs = @ \union {id}]
    ELSE t

\* Mutant: the identifier is freed but its part of the allowance is not.
IncrementSendAllowanceLost(t, id) ==
    IF t.m_sendAllowance < t.m_maxSendAllowance /\ id \in t.m_sentPublishIDs
    THEN [t EXCEPT !.m_sentPublishIDs = @ \ {id}]
    ELSE t

\* A PUBACK, PUBCOMP or failed PUBREC for the identifier has been received.
IncrementSendAllowance(t, id) ==
    IF t.m_sendAllowance < t.m_maxSendAllowance /\ id \in t.m_sentPublishIDs
    THEN [t EXCEPT !.m_sendAllowance = @ + 1, !.m_sentPublishIDs = @ \ {id}]
    ELSE t

HasSendAllowance(t) == t.m_sendAllowance > 0

\* A PUBLISH with QoS above 0 has been composed; the result is not looked at.
DecrementSendAllowance(t, id) ==
    IF HasSendAllowance(t) /\ id \notin t.m_sentPublishIDs
    THEN [t EXCEPT !.m_sendAllowance = @ - 1, !.m_sentPublishIDs = @ \union {id}]
    ELSE t
=============================================================================
