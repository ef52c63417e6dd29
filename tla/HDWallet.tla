------------------------------ MODULE HDWallet ------------------------------
(***************************************************************************)
(* Hierarchical keys (crypto/hdwallet.go).  Every key a party uses for a   *)
(* consent lies at m/4410704'/slot/chain/no/purpose of its own wallet.     *)
(*                                                                         *)
(* A master key is named by its wallet, any other key by its parent and    *)
(* its index: BIP-32 gives different paths different keys.  A private key, *)
(* its public key and the extended key at the same place share the name;   *)
(* the operators say who may use which of them.  A party's view of a       *)
(* consent, `at', has the fields slot, chain, no and contract: the path    *)
(* components and the contract address that all of the crypto API takes.   *)
(***************************************************************************)
EXTENDS Integers

CONSTANT MaxIndex  \* 0x7fffffff, the last non-hardened index

Indices == 0 .. MaxIndex

\* Purposes (crypto/purposes).
SignTx == 1
EncryptConsentNotaryBlock == 2
EncryptConsentStructure == 3
EncryptRevokeNotaryBlock == 4
EncryptRevokeStructure == 5
SymmetricConsent == 6
SymmetricRevoke == 7
PQDeriveConsent == 9
PQDeriveRevoke == 10

\* The first hardened index stands for 4410704'.
Protocol == MaxIndex + 1

MasterKey(wallet) == [wallet |-> wallet]
NewChildKey(key, index) == [parent |-> key, index |-> index]

RootKey(wallet) == NewChildKey(MasterKey(wallet), Protocol)

\* newpulseHDPath: what it refuses. (The purposes are always valid here.)
ValidPath(at) == at.slot \in Indices /\ at.chain \in Indices /\ at.no \in Indices

\* The private key at the path, which only the owner of the wallet can derive.
DeriveKeyFromMaster(wallet, at, purpose) ==
    NewChildKey(
        NewChildKey(
            NewChildKey(NewChildKey(RootKey(wallet), at.slot), at.chain), at.no), purpose)

\* What a party shares with the counterparty in that slot, so that it can derive
\* all public keys of the slot. Slot 0 stands for the root.
DeriveOtherPartyKey(wallet, slot) ==
    IF slot = 0 THEN RootKey(wallet) ELSE NewChildKey(RootKey(wallet), slot)

\* The public key that the receiver of an extended key derives from it.
DerivePublicKeyFromParent(parent, at, purpose) ==
    NewChildKey(NewChildKey(NewChildKey(parent, at.chain), at.no), purpose)

\* A context binds an encryption to a chain, a contract and a consent number.
ContextHash(chain, contract, no) == [chain |-> chain, contract |-> contract, no |-> no]

\* A derived key is the record of all it is derived from. The mode enters the salt and the
\* info string, so that no key of one use is one of another.
PulseHKDF(mode, secret, transcript, recipient, context) ==
    [mode |-> mode, secret |-> secret, transcript |-> transcript,
     recipient |-> recipient, context |-> context]

\* The public key of the node, which shares its name, is the transcript.
PulseHKDFPQSeed(node, recipient, context) ==
    PulseHKDF("PQSeed", node, node, recipient, context)

\* The ML-KEM pair is named by its seed, whose context has no contract yet.
DerivePQKeyPair(wallet, at, purpose) ==
    PulseHKDFPQSeed(DeriveKeyFromMaster(wallet, at, purpose), at.slot,
                    ContextHash(at.chain, "", at.no))

=============================================================================
