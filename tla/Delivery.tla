------------------------------ MODULE Delivery ------------------------------
(***************************************************************************)
(* What a sender is promised for its publishes, whatever the protocol does *)
(* to keep it: a message with QoS 0 or 2 reaches the receiver at most      *)
(* once, one with QoS 1 as often as it takes, and the sender is told that  *)
(* a message is complete only when it has reached the receiver, or that it *)
(* is refused only when it has not and never will.                         *)
(***************************************************************************)
EXTENDS Naturals, Sequences

CONSTANT MaxMessages    \* bound: messages published

VARIABLES
    published,  \* the QoS of each message, in the order they were published
    delivered,  \* how often each message reached the receiver
    completed,  \* the messages the sender knows to have been received
    refused     \* the messages the sender knows to have been refused

vars == <<published, delivered, completed, refused>>

Init ==
    /\ published = <<>>
    /\ delivered = [n \in 1 .. MaxMessages |-> 0]
    /\ completed = {} /\ refused = {}

Publish(qos) ==
    /\ Len(published) < MaxMessages
    /\ published' = Append(published, qos)
    /\ UNCHANGED <<delivered, completed, refused>>

Deliver(n) ==
    /\ n \notin refused
    /\ published[n] # 1 => delivered[n] = 0
    /\ delivered' = [delivered EXCEPT ![n] = @ + 1]
    /\ UNCHANGED <<published, completed, refused>>

Complete(n) ==
    /\ published[n] # 0 /\ delivered[n] > 0
    /\ n \notin completed \union refused
    /\ completed' = completed \union {n}
    /\ UNCHANGED <<published, delivered, refused>>

Refuse(n) ==
    /\ published[n] # 0 /\ delivered[n] = 0
    /\ n \notin completed \union refused
    /\ refused' = refused \union {n}
    /\ UNCHANGED <<published, delivered, completed>>

Next ==
    \/ \E qos \in 0 .. 2 : Publish(qos)
    \/ \E n \in DOMAIN published : Deliver(n) \/ Complete(n) \/ Refuse(n)

Spec == Init /\ [][Next]_vars
=============================================================================
