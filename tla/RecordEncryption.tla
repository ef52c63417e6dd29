-------------------------- MODULE RecordEncryption --------------------------
(***************************************************************************)
(* How a record is sealed for its parties and opened by them: with a key   *)
(* of each party and ECDH (internal/key_exchange), or with a fresh key     *)
(* that is encapsulated for each of them (internal/key_encapsulate).       *)
(*                                                                         *)
(* A ciphertext is the record of what went into it: it opens under the     *)
(* same key and the same additional data, and under no other.              *)
(***************************************************************************)
EXTENDS HDWallet

CONSTANT Failed  \* what an operation that returns an error has for a result

\* The label of a purpose (PulsePurpose.String).
Label(purpose) ==
    CASE purpose \in {EncryptConsentStructure, SymmetricConsent} -> "consent"
      [] purpose \in {EncryptRevokeStructure, SymmetricRevoke} -> "revoke"
      [] purpose = EncryptConsentNotaryBlock -> "encrypt-consent-notary-block"
      [] purpose = EncryptRevokeNotaryBlock -> "encrypt-revoke-notary-block"

BuildAAD(purpose, suite, recipient, context, transcript) ==
    [purpose |-> Label(purpose), suite |-> suite, recipient |-> recipient,
     context |-> context, transcript |-> transcript]

PulseSeal(plaintext, key, aad) == [plaintext |-> plaintext, key |-> key, aad |-> aad]

PulseOpen(ciphertext, key, aad) ==
    IF ciphertext.key = key /\ ciphertext.aad = aad THEN ciphertext.plaintext ELSE Failed

NoRecipient == {}

-----------------------------------------------------------------------------
(* EC *)

\* Both parties compute one secret, each from its private and the other's public key.
SharedSecret(mine, other) == {mine, other}

\* The keys are sorted, so that they are one transcript for both parties.
Transcript(key1, key2) == {key1, key2}

PulseHKDFECDH(secret, transcript, context) ==
    PulseHKDF("ECDH", secret, transcript, NoRecipient, context)

GenerateAESKey(mine, other, transcript, context) ==
    PulseHKDFECDH(SharedSecret(mine, other), transcript, context)

AADForEC(purpose, context, transcript) ==
    BuildAAD(purpose, "ecdh", NoRecipient, context, transcript)

EncryptECDH(plaintext, mine, other, purpose, at) ==
    LET context == ContextHash(at.chain, at.contract, at.no)
        transcript == Transcript(mine, other)
    IN [sd |-> PulseSeal(plaintext, GenerateAESKey(mine, other, transcript, context),
                         AADForEC(purpose, context, transcript)),
        k1 |-> mine,
        k2 |-> other]

\* Slip: the opener is always taken for the second party.
DecryptECAsRecipient(result, mine, purpose, at) ==
    LET context == ContextHash(at.chain, at.contract, at.no)
        transcript == Transcript(result.k1, result.k2)
    IN PulseOpen(result.sd, GenerateAESKey(mine, result.k1, transcript, context),
                 AADForEC(purpose, context, transcript))

DecryptEC(result, mine, purpose, at) ==
    LET context == ContextHash(at.chain, at.contract, at.no)
        transcript == Transcript(result.k1, result.k2)
        other == IF result.k1 = mine THEN result.k2 ELSE result.k1
    IN IF mine \in {result.k1, result.k2}
       THEN PulseOpen(result.sd, GenerateAESKey(mine, other, transcript, context),
                      AADForEC(purpose, context, transcript))
       ELSE Failed

-----------------------------------------------------------------------------
(* PQ: the fingerprint of a public key stands for the key *)

\* The secret that encapsulation yields, and that decapsulation by another key does not.
KEMSecret(key, encapsulated) == [by |-> key, of |-> encapsulated]

PulseHKDFKyber(secret, transcript, recipient, context) ==
    PulseHKDF("Kyber", secret, transcript, recipient, context)

AADForKey(purpose, fingerprint, context, encapsulated) ==
    BuildAAD(purpose, "kyber768", fingerprint, context, encapsulated)

\* The fingerprints of all recipients are sorted and hashed together.
AADForData(purpose, fingerprints, context, dataKey) ==
    BuildAAD(purpose, "rng", fingerprints, context, dataKey)

EncapsulateKey(entropy, key, dataKey, purpose, context) ==
    LET ekk == [to |-> key, seed |-> entropy] IN
    [fp |-> key,
     ekk |-> ekk,
     edk |-> PulseSeal(dataKey, PulseHKDFKyber(KEMSecret(key, ekk), ekk, key, context),
                       AADForKey(purpose, key, context, ekk))]

\* A fresh key and nonce, named by the entropy they are made of.
NewKey(entropy) == [random |-> entropy]

PulseSealWithNewKey(entropy, plaintext, purpose, fingerprints, context) ==
    PulseSeal(plaintext, NewKey(entropy),
              AADForData(purpose, fingerprints, context, NewKey(entropy)))

EncryptPQ(entropy, plaintext, publicKeys, purpose, at) ==
    LET context == ContextHash(at.chain, at.contract, at.no)
        fingerprints == {publicKeys[i] : i \in DOMAIN publicKeys}
    IN [sd |-> PulseSealWithNewKey(entropy, plaintext, purpose, fingerprints, context),
        keys |-> [i \in DOMAIN publicKeys |->
                    EncapsulateKey(entropy, publicKeys[i], NewKey(entropy), purpose, context)]]

DecryptPQ(result, mine, purpose, at) ==
    LET context == ContextHash(at.chain, at.contract, at.no)
        fingerprints == {result.keys[i].fp : i \in DOMAIN result.keys}
        first == CHOOSE i \in DOMAIN result.keys :
                    /\ result.keys[i].fp = mine
                    /\ \A j \in DOMAIN result.keys :
                          result.keys[j].fp = mine => i <= j
        k == result.keys[first]
        dataKey == PulseOpen(k.edk, PulseHKDFKyber(KEMSecret(mine, k.ekk), k.ekk, k.fp, context),
                             AADForKey(purpose, k.fp, context, k.ekk))
    IN IF mine \notin fingerprints \/ dataKey = Failed
       THEN Failed
       ELSE PulseOpen(result.sd, dataKey,
                      AADForData(purpose, fingerprints, context, dataKey))

-----------------------------------------------------------------------------
(* With keys of the wallet *)

EncryptEC(wallet, plaintext, other, purpose, at) ==
    EncryptECDH(plaintext, DeriveKeyFromMaster(wallet, at, purpose), other, purpose, at)

DecryptHDEC(wallet, result, purpose, at) ==
    DecryptEC(result, DeriveKeyFromMaster(wallet, at, purpose), purpose, at)

DecryptHDPQ(wallet, result, derivePurpose, symPurpose, at) ==
    DecryptPQ(result, DerivePQKeyPair(wallet, at, derivePurpose), symPurpose, at)

=============================================================================
