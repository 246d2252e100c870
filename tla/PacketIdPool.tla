---------------------------- MODULE PacketIdPool ----------------------------
(***************************************************************************)
(* The pool of MQTT packet identifiers (Utils/PacketIdPool.h).             *)
(*                                                                         *)
(* getId and releaseId run under the pool's mutex, so each is one action   *)
(* whichever thread calls it.  The bitset holds PoolSize bits, numbered    *)
(* from 0; an access to bit PoolSize or above throws inside a noexcept     *)
(* function, which ends the process.                                       *)
(***************************************************************************)
EXTENDS Naturals, Sequences

CONSTANTS
    PoolSize,       \* PACKET_POOL_ID_SIZE, the number of bits of m_usedIds
    MaxPacketId     \* 2^16 - 1, the largest identifier a packet can carry

ASSUME PoolAssumption ==
    /\ PoolSize \in Nat /\ MaxPacketId \in Nat
    /\ 1 < PoolSize /\ PoolSize <= MaxPacketId

VARIABLES
    m_nextId,       \* the first identifier never handed out
    m_availableIds, \* the released identifiers, a stack with its top first
    m_usedIds,      \* the set bits
    crashed,        \* the call that threw, or "no"
    issued          \* history: how often each identifier was handed out since
                    \* it was last released

vars == <<m_nextId, m_availableIds, m_usedIds, crashed, issued>>

PacketIds == 1 .. MaxPacketId

Init ==
    /\ m_nextId = 1
    /\ m_availableIds = <<>>
    /\ m_usedIds = {}
    /\ crashed = "no"
    /\ issued = [id \in PacketIds |-> 0]

\* bitset::flip: a bit that was already set would be cleared.
Flip(bits, id) == IF id \in bits THEN bits \ {id} ELSE bits \union {id}

HandOut(id) ==
    /\ m_usedIds' = Flip(m_usedIds, id)
    /\ issued' = [issued EXCEPT ![id] = @ + 1]

\* Mutant: top() without pop().
GetReleasedIdUnpopped ==
    /\ crashed = "no"
    /\ m_availableIds # <<>>
    /\ HandOut(Head(m_availableIds))
    /\ UNCHANGED <<m_nextId, m_availableIds, crashed>>

GetReleasedId ==
    /\ crashed = "no"
    /\ m_availableIds # <<>>
    /\ HandOut(Head(m_availableIds))
    /\ m_availableIds' = Tail(m_availableIds)
    /\ UNCHANGED <<m_nextId, crashed>>

GetFreshId ==
    /\ crashed = "no"
    /\ m_availableIds = <<>>
    /\ IF m_nextId < PoolSize
       THEN /\ HandOut(m_nextId)
            /\ m_nextId' = m_nextId + 1
            /\ UNCHANGED <<m_availableIds, crashed>>
       ELSE /\ crashed' = "getId"
            /\ UNCHANGED <<m_nextId, m_availableIds, m_usedIds, issued>>

GetId == GetReleasedId \/ GetFreshId

\* Mutant: the test of the bit is dropped.
ReleaseIdUntested(id) ==
    /\ crashed = "no"
    /\ id \in 1 .. m_nextId - 1
    /\ m_availableIds' = <<id>> \o m_availableIds
    /\ m_usedIds' = m_usedIds \ {id}
    /\ issued' = [issued EXCEPT ![id] = 0]
    /\ UNCHANGED <<m_nextId, crashed>>

\* Mutant: the bit is reset but the identifier is not pushed.
ReleaseIdUnpushed(id) ==
    /\ crashed = "no"
    /\ id \in m_usedIds
    /\ m_usedIds' = m_usedIds \ {id}
    /\ issued' = [issued EXCEPT ![id] = 0]
    /\ UNCHANGED <<m_nextId, m_availableIds, crashed>>

\* The argument is a packet identifier that came from the broker or from a
\* cancelled packet (0 for a QoS 0 message): it need not be in use.
ReleaseId(id) ==
    /\ crashed = "no"
    /\ id # 0
    /\ IF id < PoolSize
       THEN /\ id \in m_usedIds
            /\ m_availableIds' = <<id>> \o m_availableIds
            /\ m_usedIds' = m_usedIds \ {id}
            /\ issued' = [issued EXCEPT ![id] = 0]
            /\ UNCHANGED <<m_nextId, crashed>>
       ELSE /\ crashed' = "releaseId"
            /\ UNCHANGED <<m_nextId, m_availableIds, m_usedIds, issued>>

Next == GetId \/ \E id \in 0 .. MaxPacketId : ReleaseId(id)

Spec == Init /\ [][Next]_vars

-----------------------------------------------------------------------------

TypeOK ==
    /\ m_nextId \in 1 .. PoolSize
    /\ m_availableIds \in Seq(1 .. PoolSize - 1)
    /\ m_usedIds \subseteq 1 .. PoolSize - 1
    /\ crashed \in {"no", "getId", "releaseId"}
    /\ issued \in [PacketIds -> Nat]

\* Two calls of getId never return the same identifier unless it was released
\* in between, however often the broker or a cancelled packet releases it.
NeverIssuedTwice == \A id \in PacketIds : issued[id] <= 1

\* The process dies in getId only when every identifier the bitset has room
\* for is in use: no released identifier is ever lost.
ExhaustedOnlyWhenAllInUse ==
    crashed = "getId" => \A id \in 1 .. PoolSize - 1 : issued[id] = 1

\* "Packet IDs are in the range [1, 65535]" (PacketIdPool.h:31): a pool of
\* PoolSize identifiers runs out only when all of 1 .. PoolSize are handed out.
DocumentedRange ==
    crashed = "getId" => \A id \in 1 .. PoolSize : issued[id] = 1

\* The strengthening that makes the properties above inductive: the released
\* and the used identifiers partition those handed out so far, and the stack
\* holds each released one once.
Released == {m_availableIds[i] : i \in DOMAIN m_availableIds}

PoolInv ==
    /\ TypeOK
    /\ \A i, j \in DOMAIN m_availableIds :
          m_availableIds[i] = m_availableIds[j] => i = j
    /\ \A id \in 1 .. PoolSize - 1 :
          /\ id \in m_usedIds => id < m_nextId
          /\ id \in Released => id < m_nextId
          /\ id < m_nextId => (id \in m_usedIds <=> id \notin Released)
    /\ \A id \in PacketIds : issued[id] = IF id \in m_usedIds THEN 1 ELSE 0
    /\ crashed = "getId" => m_availableIds = <<>> /\ m_nextId = PoolSize
=============================================================================
