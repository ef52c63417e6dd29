------------------------ MODULE MemoryRegistryProofs ------------------------
(***************************************************************************)
(* The registry hands out no slot and no consent number twice, for any     *)
(* number of counterparties, chains and indices.                           *)
(***************************************************************************)
EXTENDS MemoryRegistry, TLAPS

\* Slots are handed out in order, so those in use are below nextPartyNo; the
\* numbers used for a slot and chain are those below its counter.
IInv ==
    /\ TypeOK
    /\ \A i \in Identifiers: identifiers[i] # Unassigned => identifiers[i] < nextPartyNo
    /\ SlotsAreDistinct
    /\ \A k \in UInt32 \X Chains: \A n \in UInt32:
          times[k][n] = IF n < consentCounters[k] THEN 1 ELSE 0

\* A counter within its bound is far from where uint32 wraps round.
LEMMA NoWrap ==
    ASSUME NEW n \in Slots
    PROVE  /\ n \in UInt32
           /\ Increment(n) = n + 1
           /\ Increment(n) \in 0 .. MaxIndex + 1
<1>1. n + 1 \in 0 .. Width - 1 /\ Width \in Nat /\ n \in UInt32
  BY MaxIndexAssumption DEF Slots, UInt32, Width
<1>2. (n + 1) % Width = n + 1
  BY <1>1
<1>3. QED
  BY <1>1, <1>2, MaxIndexAssumption DEF Increment, Slots

LEMMA InitIInv == Init => IInv
<1>1. 0 \in 0 .. MaxIndex + 1
  BY MaxIndexAssumption
<1>2. QED
  BY <1>1 DEF Init, IInv, TypeOK, SlotsAreDistinct, Assigned, UInt32

LEMMA CreateIInv ==
    ASSUME IInv, NEW i \in Identifiers, Create(i)
    PROVE  IInv'
<1>1. nextPartyNo \in Slots
  BY DEF IInv, TypeOK, Create, Slots
<1>2. nextPartyNo' = nextPartyNo + 1 /\ nextPartyNo' \in 0 .. MaxIndex + 1
  BY <1>1, NoWrap DEF Create
<1>3. TypeOK'
  BY <1>1, <1>2 DEF IInv, TypeOK, Create
<1>4. ASSUME NEW j \in Identifiers, identifiers'[j] # Unassigned
      PROVE  identifiers'[j] < nextPartyNo'
  BY <1>1, <1>2, <1>4, UnassignedAssumption DEF IInv, TypeOK, Create, Slots
<1>5. SlotsAreDistinct'
  BY <1>1, UnassignedAssumption DEF IInv, TypeOK, Create, Slots, SlotsAreDistinct, Assigned
<1>6. QED
  BY <1>3, <1>4, <1>5 DEF IInv, Create

LEMMA NextConsentNumberIInv ==
    ASSUME IInv, NEW key \in Slots \X Chains, NextConsentNumber(key)
    PROVE  IInv'
<1> DEFINE n == consentCounters[key]
<1>1. key \in UInt32 \X Chains
  BY NoWrap
<1>2. n \in Slots
  BY <1>1 DEF IInv, TypeOK, NextConsentNumber, Slots
<1>3. /\ consentCounters' = [consentCounters EXCEPT ![key] = n + 1]
      /\ n + 1 \in 0 .. MaxIndex + 1
      /\ n \in UInt32
  BY <1>2, NoWrap DEF NextConsentNumber
<1>4. times' = [times EXCEPT ![key] = [times[key] EXCEPT ![n] = @ + 1]]
  BY DEF NextConsentNumber
<1>5. TypeOK'
  BY <1>1, <1>3, <1>4 DEF IInv, TypeOK, NextConsentNumber
<1>6. ASSUME NEW k \in UInt32 \X Chains, NEW m \in UInt32
      PROVE  times'[k][m] = IF m < consentCounters'[k] THEN 1 ELSE 0
  <2>1. CASE k = key
    <3>1. consentCounters'[k] = n + 1 /\ n \in Int /\ m \in Int
      BY <1>1, <1>2, <1>3, <2>1 DEF IInv, TypeOK, UInt32, Slots
    <3>2. /\ times[k] \in [UInt32 -> Nat]
          /\ times'[k] = [times[k] EXCEPT ![n] = @ + 1]
      BY <1>1, <1>4, <2>1 DEF IInv, TypeOK
    <3>3. times[k][m] = IF m < n THEN 1 ELSE 0
      BY <1>1, <2>1 DEF IInv
    <3>4. CASE m = n
      BY <3>1, <3>2, <3>3, <3>4
    <3>5. CASE m # n
      <4>1. times'[k][m] = times[k][m]
        BY <3>2, <3>5
      <4>2. QED
        BY <3>1, <3>3, <3>5, <4>1
    <3>6. QED
      BY <3>4, <3>5
  <2>2. CASE k # key
    BY <1>1, <1>3, <1>4, <2>2 DEF IInv, TypeOK
  <2>3. QED
    BY <2>1, <2>2
<1>7. QED
  BY <1>5, <1>6 DEF IInv, NextConsentNumber, SlotsAreDistinct, Assigned

LEMMA NextIInv == IInv /\ [Next]_vars => IInv'
<1> SUFFICES ASSUME IInv, [Next]_vars PROVE IInv'
  OBVIOUS
<1>1. ASSUME NEW i \in Identifiers, Create(i) PROVE IInv'
  BY <1>1, CreateIInv
<1>2. ASSUME NEW key \in Slots \X Chains, NextConsentNumber(key)
      PROVE  IInv'
  BY <1>2, NextConsentNumberIInv
<1>3. CASE UNCHANGED vars
  BY <1>3 DEF vars, IInv, TypeOK, SlotsAreDistinct, Assigned
<1>4. QED
  BY <1>1, <1>2, <1>3 DEF Next

LEMMA InductiveInvariant == Spec => []IInv
BY InitIInv, NextIInv, PTL DEF Spec

\* Everything handed out is a normal BIP-32 index.
THEOREM TypeCorrect == Spec => []TypeOK
<1>1. IInv => TypeOK
  BY DEF IInv
<1>2. QED
  BY <1>1, InductiveInvariant, PTL

\* No two counterparties ever share a slot (registry/memory.go, LookupOrCreate).
THEOREM DistinctSlots == Spec => []SlotsAreDistinct
<1>1. IInv => SlotsAreDistinct
  BY DEF IInv
<1>2. QED
  BY <1>1, InductiveInvariant, PTL

\* No consent number is handed out twice (registry/memory.go, NextConsentNumber).
THEOREM IssuedOnce == Spec => []NumbersAreIssuedOnce
<1>1. IInv => NumbersAreIssuedOnce
  BY NoWrap DEF IInv, TypeOK, NumbersAreIssuedOnce
<1>2. QED
  BY <1>1, InductiveInvariant, PTL

\* The numbers handed out are exactly those from 0 up to the counter.
THEOREM CountFromZero == Spec => []NumbersCountFromZero
<1>1. ASSUME IInv PROVE NumbersCountFromZero
  <2>1. ASSUME NEW k \in Slots \X Chains, NEW n \in UInt32
        PROVE  times[k][n] > 0 <=> n < consentCounters[k] /\ n \in Slots
    <3>1. k \in UInt32 \X Chains
      BY NoWrap
    <3>2. consentCounters[k] \in 0 .. MaxIndex + 1
      BY <1>1, <3>1 DEF IInv, TypeOK
    <3>3. n < consentCounters[k] => n \in Slots
      BY <3>2, MaxIndexAssumption DEF Slots, UInt32, Width
    <3>4. QED
      BY <1>1, <3>1, <3>3 DEF IInv
  <2>2. QED
    BY <2>1 DEF NumbersCountFromZero
<1>2. QED
  BY <1>1, InductiveInvariant, PTL

\* A slot once assigned never changes (registry/README.md).
THEOREM StableSlots == Spec => SlotsAreStable
<1>1. Next => \A i \in Identifiers:
                 identifiers[i] # Unassigned => identifiers'[i] = identifiers[i]
  <2>1. ASSUME NEW i \in Identifiers, NEW j \in Identifiers, Create(j),
               identifiers[i] # Unassigned
        PROVE  identifiers'[i] = identifiers[i]
    BY <2>1 DEF Create
  <2>2. QED
    BY <2>1 DEF Next, NextConsentNumber
<1>2. QED
  BY <1>1, PTL DEF Spec, SlotsAreStable, vars

=============================================================================
