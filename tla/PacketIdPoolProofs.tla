------------------------- MODULE PacketIdPoolProofs -------------------------
(***************************************************************************)
(* The pool's invariants hold for every PoolSize and MaxPacketId: PoolInv  *)
(* is inductive, and each property follows from it.                        *)
(***************************************************************************)
EXTENDS PacketIdPool, TLAPS

\* PoolInv holds of a new pool.
LEMMA InitPoolInv == Init => PoolInv
BY PoolAssumption, SMT DEF Init, PoolInv, TypeOK, Released, PacketIds

\* getId of a released identifier: the top of the stack becomes used, and the
\* rest of the stack is what stays released.
LEMMA GetReleasedIdPoolInv == PoolInv /\ GetReleasedId => PoolInv'
<1> SUFFICES ASSUME PoolInv, GetReleasedId PROVE PoolInv'
    OBVIOUS
<1> DEFINE top == m_availableIds[1]
<1>1. /\ m_availableIds \in Seq(1 .. PoolSize - 1)
      /\ Len(m_availableIds) >= 1
      /\ Head(m_availableIds) = top
      /\ top \in 1 .. PoolSize - 1
    BY PoolAssumption, SMT DEF PoolInv, TypeOK, GetReleasedId
<1>2. /\ m_availableIds' \in Seq(1 .. PoolSize - 1)
      /\ Len(m_availableIds') = Len(m_availableIds) - 1
      /\ \A i \in 1 .. Len(m_availableIds') : m_availableIds'[i] = m_availableIds[i + 1]
    BY <1>1, SMT DEF GetReleasedId
<1>3. top \in Released /\ top \notin m_usedIds /\ top < m_nextId
    BY <1>1, SMT DEF PoolInv, Released
<1>4. m_usedIds' = m_usedIds \union {top} /\ issued' = [issued EXCEPT ![top] = @ + 1]
    BY <1>1, <1>3 DEF GetReleasedId, HandOut, Flip
<1>5. Released' = Released \ {top}
  <2>1. ASSUME NEW id \in Released' PROVE id \in Released \ {top}
      BY <1>1, <1>2, SMT DEF Released, PoolInv
  <2>2. ASSUME NEW id \in Released \ {top} PROVE id \in Released'
    <3>1. PICK i \in 1 .. Len(m_availableIds) : m_availableIds[i] = id
        BY <1>1, SMT DEF Released
    <3>2. i # 1 /\ i - 1 \in 1 .. Len(m_availableIds') /\ m_availableIds'[i - 1] = id
        BY <1>1, <1>2, <2>2, <3>1, SMT
    <3> QED
        BY <1>2, <3>2, SMT DEF Released
  <2> QED
      BY <2>1, <2>2
<1>6. TypeOK'
  <2>1. top \in PacketIds /\ issued' \in [PacketIds -> Nat]
      BY <1>1, <1>4, PoolAssumption, SMT DEF PoolInv, TypeOK, PacketIds
  <2>2. m_usedIds' \subseteq 1 .. PoolSize - 1
      BY <1>1, <1>4 DEF PoolInv, TypeOK
  <2> QED
      BY <1>2, <2>1, <2>2 DEF PoolInv, TypeOK, GetReleasedId
<1>7. \A i, j \in DOMAIN m_availableIds' : m_availableIds'[i] = m_availableIds'[j] => i = j
    BY <1>1, <1>2, SMT DEF PoolInv
<1>8. \A id \in 1 .. PoolSize - 1 :
         /\ id \in m_usedIds' => id < m_nextId'
         /\ id \in Released' => id < m_nextId'
         /\ id < m_nextId' => (id \in m_usedIds' <=> id \notin Released')
    BY <1>3, <1>4, <1>5 DEF PoolInv, GetReleasedId
<1>9. \A id \in PacketIds : issued'[id] = IF id \in m_usedIds' THEN 1 ELSE 0
    BY <1>1, <1>3, <1>4, PoolAssumption, SMT DEF PoolInv, TypeOK, PacketIds
<1>10. (crashed = "getId" => m_availableIds = <<>> /\ m_nextId = PoolSize)'
    BY DEF PoolInv, GetReleasedId
<1> QED
    BY <1>6, <1>7, <1>8, <1>9, <1>10 DEF PoolInv

\* getId with no released identifier: m_nextId becomes used, or the pool is
\* exhausted and the process dies.
LEMMA GetFreshIdPoolInv == PoolInv /\ GetFreshId => PoolInv'
<1> SUFFICES ASSUME PoolInv, GetFreshId PROVE PoolInv'
    OBVIOUS
<1>1. CASE m_nextId < PoolSize
  <2>1. /\ m_nextId \in 1 .. PoolSize - 1 /\ m_nextId \notin m_usedIds
        /\ Released = {} /\ Released' = {}
      BY <1>1, PoolAssumption, SMT DEF PoolInv, TypeOK, GetFreshId, Released
  <2>2. /\ m_usedIds' = m_usedIds \union {m_nextId} /\ m_nextId' = m_nextId + 1
        /\ issued' = [issued EXCEPT ![m_nextId] = @ + 1]
        /\ UNCHANGED <<m_availableIds, crashed>>
      BY <1>1, <2>1 DEF GetFreshId, HandOut, Flip
  <2>3. TypeOK'
      BY <2>1, <2>2, PoolAssumption, SMT DEF PoolInv, TypeOK, PacketIds
  <2>4. \A id \in 1 .. PoolSize - 1 :
           /\ id \in m_usedIds' => id < m_nextId'
           /\ id < m_nextId' => id \in m_usedIds'
      BY <2>1, <2>2, PoolAssumption, SMT DEF PoolInv, TypeOK
  <2>5. \A id \in PacketIds : issued'[id] = IF id \in m_usedIds' THEN 1 ELSE 0
      BY <2>1, <2>2, PoolAssumption, SMT DEF PoolInv, TypeOK, PacketIds
  <2>6. \A i, j \in DOMAIN m_availableIds' : m_availableIds'[i] = m_availableIds'[j] => i = j
      BY <2>2 DEF PoolInv
  <2>7. (crashed = "getId" => m_availableIds = <<>> /\ m_nextId = PoolSize)'
      BY <1>1, <2>2, PoolAssumption, SMT DEF PoolInv, TypeOK
  <2> QED
      BY <2>1, <2>3, <2>4, <2>5, <2>6, <2>7 DEF PoolInv
<1>2. CASE ~(m_nextId < PoolSize)
  <2>1. /\ m_availableIds = <<>> /\ m_nextId = PoolSize /\ crashed' = "getId"
        /\ UNCHANGED <<m_nextId, m_availableIds, m_usedIds, issued>>
      BY <1>2, PoolAssumption, SMT DEF PoolInv, TypeOK, GetFreshId
  <2> QED
      BY <2>1 DEF PoolInv, TypeOK, Released
<1> QED
    BY <1>1, <1>2

\* releaseId of a used identifier pushes it on the stack; any other identifier
\* changes nothing or ends the process.
LEMMA ReleaseIdPoolInv ==
    ASSUME PoolInv, NEW id \in 0 .. MaxPacketId, ReleaseId(id)
    PROVE  PoolInv'
<1>1. CASE id < PoolSize
  <2>1. /\ id \in 1 .. PoolSize - 1 /\ id \in m_usedIds /\ id < m_nextId /\ id \notin Released
        /\ m_availableIds' = <<id>> \o m_availableIds
        /\ m_usedIds' = m_usedIds \ {id} /\ issued' = [issued EXCEPT ![id] = 0]
        /\ crashed = "no" /\ UNCHANGED <<m_nextId, crashed>>
      BY <1>1, PoolAssumption, SMT DEF PoolInv, TypeOK, ReleaseId
  <2>2. /\ m_availableIds' \in Seq(1 .. PoolSize - 1)
        /\ Len(m_availableIds') = Len(m_availableIds) + 1
        /\ m_availableIds'[1] = id
        /\ \A i \in 1 .. Len(m_availableIds) : m_availableIds'[i + 1] = m_availableIds[i]
        /\ \A i \in 2 .. Len(m_availableIds') : m_availableIds'[i] = m_availableIds[i - 1]
      BY <2>1, PoolAssumption, SMT DEF PoolInv, TypeOK
  <2>3. Released' = Released \union {id}
    <3>1. ASSUME NEW x \in Released' PROVE x \in Released \union {id}
      <4>1. PICK i \in 1 .. Len(m_availableIds') : m_availableIds'[i] = x
          BY <2>2, SMT DEF Released
      <4>2. CASE i = 1
          BY <2>2, <4>1, <4>2
      <4>3. CASE i # 1
        <5>1. i - 1 \in 1 .. Len(m_availableIds) /\ m_availableIds[i - 1] = x
            BY <2>2, <4>1, <4>3, SMT DEF PoolInv, TypeOK
        <5> QED
            BY <5>1, SMT DEF Released, PoolInv, TypeOK
      <4> QED
          BY <4>2, <4>3
    <3>2. ASSUME NEW x \in Released \union {id} PROVE x \in Released'
      <4>1. CASE x = id
          BY <2>2, <4>1, SMT DEF Released, PoolInv, TypeOK
      <4>2. CASE x \in Released
        <5>1. PICK i \in 1 .. Len(m_availableIds) : m_availableIds[i] = x
            BY <4>2, SMT DEF Released, PoolInv, TypeOK
        <5>2. i + 1 \in 1 .. Len(m_availableIds') /\ m_availableIds'[i + 1] = x
            BY <2>2, <5>1, SMT DEF PoolInv, TypeOK
        <5> QED
            BY <2>2, <5>2, SMT DEF Released
      <4> QED
          BY <4>1, <4>2
    <3> QED
        BY <3>1, <3>2
  <2>4. TypeOK'
      BY <2>1, <2>2, SMT DEF PoolInv, TypeOK, PacketIds
  <2>5. \A i, j \in DOMAIN m_availableIds' : m_availableIds'[i] = m_availableIds'[j] => i = j
    <3>1. \A i \in 1 .. Len(m_availableIds) : m_availableIds[i] # id
        BY <2>1, SMT DEF Released, PoolInv, TypeOK
    <3>2. DOMAIN m_availableIds' = 1 .. Len(m_availableIds) + 1
          /\ DOMAIN m_availableIds = 1 .. Len(m_availableIds) /\ Len(m_availableIds) \in Nat
        BY <2>2, SMT DEF PoolInv, TypeOK
    <3>3. ASSUME NEW i \in DOMAIN m_availableIds', NEW j \in DOMAIN m_availableIds',
                 m_availableIds'[i] = m_availableIds'[j]
          PROVE  i = j
      <4>1. CASE i = 1 \/ j = 1
        <5>1. \A k \in 2 .. Len(m_availableIds) + 1 : m_availableIds'[k] # id
            BY <2>2, <3>1, <3>2, SMT
        <5> QED
            BY <2>2, <3>2, <3>3, <4>1, <5>1, SMT
      <4>2. CASE i # 1 /\ j # 1
        <5>1. /\ i - 1 \in DOMAIN m_availableIds /\ j - 1 \in DOMAIN m_availableIds
              /\ m_availableIds[i - 1] = m_availableIds[j - 1]
            BY <2>2, <3>2, <3>3, <4>2, SMT
        <5>2. i - 1 = j - 1
            BY <5>1 DEF PoolInv
        <5> QED
            BY <3>2, <5>2, SMT
      <4> QED
          BY <4>1, <4>2
    <3> QED
        BY <3>3
  <2>6. \A x \in 1 .. PoolSize - 1 :
           /\ x \in m_usedIds' => x < m_nextId'
           /\ x \in Released' => x < m_nextId'
           /\ x < m_nextId' => (x \in m_usedIds' <=> x \notin Released')
      BY <2>1, <2>3 DEF PoolInv
  <2>7. \A x \in PacketIds : issued'[x] = IF x \in m_usedIds' THEN 1 ELSE 0
    <3> SUFFICES ASSUME NEW x \in PacketIds
                 PROVE  issued'[x] = IF x \in m_usedIds' THEN 1 ELSE 0
        OBVIOUS
    <3>1. id \in PacketIds /\ issued'[x] = IF x = id THEN 0 ELSE issued[x]
        BY <2>1, PoolAssumption, SMT DEF PoolInv, TypeOK, PacketIds
    <3> QED
        BY <2>1, <3>1 DEF PoolInv
  <2>8. (crashed = "getId" => m_availableIds = <<>> /\ m_nextId = PoolSize)'
      BY <2>1
  <2> QED
      BY <2>4, <2>5, <2>6, <2>7, <2>8 DEF PoolInv
<1>2. CASE ~(id < PoolSize)
  <2>1. /\ crashed' = "releaseId" /\ crashed' # "getId"
        /\ UNCHANGED <<m_nextId, m_availableIds, m_usedIds, issued>>
      BY <1>2 DEF ReleaseId
  <2>2. Released' = Released /\ TypeOK'
      BY <2>1 DEF PoolInv, TypeOK, Released
  <2> QED
      BY <2>1, <2>2 DEF PoolInv
<1> QED
    BY <1>1, <1>2

\* Every step of the pool keeps PoolInv.
LEMMA NextPoolInv == PoolInv /\ [Next]_vars => PoolInv'
<1> SUFFICES ASSUME PoolInv, [Next]_vars PROVE PoolInv'
    OBVIOUS
<1>1. CASE GetReleasedId \/ GetFreshId
    BY <1>1, GetReleasedIdPoolInv, GetFreshIdPoolInv
<1>2. CASE \E id \in 0 .. MaxPacketId : ReleaseId(id)
    BY <1>2, ReleaseIdPoolInv
<1>3. CASE UNCHANGED vars
    BY <1>3 DEF vars, PoolInv, TypeOK, Released
<1> QED
    BY <1>1, <1>2, <1>3 DEF Next, GetId

\* PoolInv is an invariant of the pool.
THEOREM PoolInvariant == Spec => []PoolInv
BY InitPoolInv, NextPoolInv, PTL DEF Spec

\* Every variable of the pool keeps its type.
THEOREM PoolTypeCorrect == Spec => []TypeOK
<1>1. PoolInv => TypeOK
    BY DEF PoolInv
<1> QED
    BY <1>1, PoolInvariant, PTL

\* getId never returns an identifier that is still in use, whatever sequence
\* of releases the broker's packets and cancelled packets cause.
THEOREM PoolNeverIssuesTwice == Spec => []NeverIssuedTwice
<1>1. PoolInv => NeverIssuedTwice
    BY SMT DEF PoolInv, NeverIssuedTwice
<1> QED
    BY <1>1, PoolInvariant, PTL

\* getId ends the process only when every identifier below PoolSize is in use.
THEOREM PoolExhaustion == Spec => []ExhaustedOnlyWhenAllInUse
<1>1. PoolInv => ExhaustedOnlyWhenAllInUse
  <2> SUFFICES ASSUME PoolInv, crashed = "getId", NEW id \in 1 .. PoolSize - 1
               PROVE  issued[id] = 1
      BY DEF ExhaustedOnlyWhenAllInUse
  <2>1. m_availableIds = <<>> /\ m_nextId = PoolSize
      BY DEF PoolInv
  <2>2. Released = {} /\ id < m_nextId /\ id \in PacketIds
      BY <2>1, PoolAssumption, SMT DEF Released, PacketIds
  <2> QED
      BY <2>2 DEF PoolInv
<1> QED
    BY <1>1, PoolInvariant, PTL
=============================================================================
