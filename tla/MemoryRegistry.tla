--------------------------- MODULE MemoryRegistry ---------------------------
(***************************************************************************)
(* The in-memory registry of counterparties (registry/memory.go): it hands *)
(* out the HD path components of this wallet, one slot per counterparty    *)
(* and one consent number per (slot, chain) and grant.  Two grants sealed  *)
(* under one path would share a key.  A method is one action here, as it   *)
(* holds a mutex from its first read to its last write; RegistryCalls has  *)
(* the mutex and the statements, and shows them to amount to this.         *)
(***************************************************************************)
EXTENDS Integers

CONSTANTS
    Identifiers,  \* counterparties, the empty identifier excepted
    Chains,       \* chain ids
    MaxIndex,     \* maxNormalIndex, the last non-hardened BIP-32 index
    Unassigned    \* an identifier that is not in the map

\* uint32 holds the normal and the hardened indices.
Width == 2 * (MaxIndex + 1)
UInt32 == 0 .. Width - 1
Slots == 0 .. MaxIndex

ASSUME MaxIndexAssumption == MaxIndex \in Nat
ASSUME UnassignedAssumption == Unassigned \notin Int

VARIABLES
    identifiers,      \* the map from identifiers to slots
    nextPartyNo,      \* the slot to hand out next
    consentCounters,  \* the number to hand out next for each (slot, chain)
    times             \* history: how often each number was handed out there

vars == <<identifiers, nextPartyNo, consentCounters, times>>

Increment(n) == (n + 1) % Width

\* A missing key of a Go map reads as 0.
Init ==
    /\ identifiers = [i \in Identifiers |-> Unassigned]
    /\ nextPartyNo = 0
    /\ consentCounters = [k \in UInt32 \X Chains |-> 0]
    /\ times = [k \in UInt32 \X Chains |-> [n \in UInt32 |-> 0]]

\* LookupOrCreate of an identifier that is not known. Of a known one it
\* changes nothing, as does Lookup.
Create(i) ==
    /\ identifiers[i] = Unassigned
    /\ nextPartyNo <= MaxIndex
    /\ identifiers' = [identifiers EXCEPT ![i] = nextPartyNo]
    /\ nextPartyNo' = Increment(nextPartyNo)
    /\ UNCHANGED <<consentCounters, times>>

\* A consentKey k is a slot and a chain. The caller names the slot: nothing
\* checks that it was assigned.

NextConsentNumber(k) ==
    LET n == consentCounters[k] IN
    /\ n <= MaxIndex
    /\ consentCounters' = [consentCounters EXCEPT ![k] = Increment(n)]
    /\ times' = [times EXCEPT ![k][n] = @ + 1]
    /\ UNCHANGED <<identifiers, nextPartyNo>>

Next ==
    \/ \E i \in Identifiers: Create(i)
    \/ \E k \in Slots \X Chains: NextConsentNumber(k)

Spec == Init /\ [][Next]_vars

-----------------------------------------------------------------------------

\* Slots and consent numbers handed out are normal indices (registry.go:20 and
\* 34); the counters stop one past the last.
TypeOK ==
    /\ identifiers \in [Identifiers -> Slots \union {Unassigned}]
    /\ nextPartyNo \in 0 .. MaxIndex + 1
    /\ consentCounters \in [UInt32 \X Chains -> 0 .. MaxIndex + 1]
    /\ times \in [UInt32 \X Chains -> [UInt32 -> Nat]]

Assigned == {i \in Identifiers : identifiers[i] # Unassigned}

\* No two counterparties share a slot, even when the slots run out: the counter
\* stops at the boundary long before uint32 wraps round (memory.go:46).
SlotsAreDistinct ==
    \A i, j \in Assigned: identifiers[i] = identifiers[j] => i = j

\* A slot once assigned never changes, or the keys under it would be lost
\* (registry/README.md: slots must be stable).
SlotsAreStable ==
    [][\A i \in Identifiers:
         identifiers[i] # Unassigned => identifiers'[i] = identifiers[i]]_vars

\* No consent number is handed out twice for a slot and chain.
NumbersAreIssuedOnce ==
    \A k \in Slots \X Chains: \A n \in UInt32: times[k][n] <= 1

\* Exactly the numbers from 0 on are handed out, all of them normal indices.
\* (The interface of registry.go:31-33 has them start at 1.)
NumbersCountFromZero ==
    \A k \in Slots \X Chains: \A n \in UInt32:
        times[k][n] > 0 <=> n < consentCounters[k] /\ n \in Slots

=============================================================================
