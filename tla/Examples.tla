------------------------------ MODULE Examples ------------------------------
(***************************************************************************)
(* The two example programs (crypto/examples): Alice grants Bob a consent  *)
(* and revokes it.  The programs fix the numbers that the parties have for *)
(* each other; here they are run with the slots that two parties of        *)
(* ConsentExchange have, whatever these are.                               *)
(*                                                                         *)
(* A run x has the two wallets, alice and bob, and the coordinates under   *)
(* which each sees the consent: aliceAt, whose slot is bobPartyNo, and     *)
(* bobAt, whose slot is alicePartyNo.                                      *)
(***************************************************************************)
EXTENDS ConsentExchange

ConsentData == "consentData"
RevokeData == "revokeData"

-----------------------------------------------------------------------------
(* ec_encrypt_decrypt_sign *)

\* Slip: Bob shares the key of the slot that he himself has at Alice's.
BobPubKeyOfOwnSlot(x, purpose) ==
    DerivePublicKeyFromParent(DeriveOtherPartyKey(x.bob, x.aliceAt.slot), x.aliceAt, purpose)

\* Bob shares an extended key with Alice, and she derives his public key from it.
BobPubKey(x, purpose) ==
    DerivePublicKeyFromParent(DeriveOtherPartyKey(x.bob, x.bobAt.slot), x.aliceAt, purpose)

ECSealed(x) ==
    EncryptSignConsentEC(x.alice, ConsentData, BobPubKey(x, EncryptConsentStructure), x.aliceAt)

\* Bob counter-signs what Alice encrypted and signed.
ECConsentRequest(x) ==
    LET request == ECSealed(x) IN
    SignConsentRequest(x.bob, request, MarshalConsentEC(request.ed), x.bobAt)

ECDecryptedByAlice(x) == DecryptConsentEC(x.alice, ECConsentRequest(x), x.aliceAt)
ECDecryptedByBob(x) == DecryptConsentEC(x.bob, ECConsentRequest(x), x.bobAt)

ECSignerAddresses(x) == ConsentSigners(ECConsentRequest(x), x.aliceAt.contract)

ECRevokeRequest(x) ==
    EncryptSignRevokeEC(x.alice, RevokeData, BobPubKey(x, EncryptRevokeStructure), x.aliceAt,
                        GetCid(MarshalConsentEC(ECConsentRequest(x).ed)))

ECAuthorised(x) ==
    RevokeSignerWasConsentSigner(ECRevokeRequest(x), ECConsentRequest(x), x.aliceAt.contract)

-----------------------------------------------------------------------------
(* pq_encrypt_decrypt_sign *)

\* Each party derives its ML-KEM pair and shares the public key.
PQPubKeys(x, purpose) ==
    <<DerivePQKeyPair(x.alice, x.aliceAt, purpose), DerivePQKeyPair(x.bob, x.bobAt, purpose)>>

PQSealed(x) ==
    EncryptSignConsentPQ(x.alice, 1, ConsentData, PQPubKeys(x, PQDeriveConsent), x.aliceAt)

\* Slip: Bob signs under the number that Alice has for him.
PQConsentRequestOfOneNumber(x) ==
    LET request == PQSealed(x) IN
    SignConsentRequest(x.bob, request, MarshalConsentPQ(request.ed), x.aliceAt)

PQConsentRequest(x) ==
    LET request == PQSealed(x) IN
    SignConsentRequest(x.bob, request, MarshalConsentPQ(request.ed), x.bobAt)

PQConsentCid(x) == GetCid(MarshalConsentPQ(PQConsentRequest(x).ed))

PQDecryptedByAlice(x) == DecryptConsentPQ(x.alice, PQConsentRequest(x), x.aliceAt)
PQDecryptedByBob(x) == DecryptConsentPQ(x.bob, PQConsentRequest(x), x.bobAt)

PQSignerAddresses(x) ==
    LET sigs == PQConsentRequest(x).sigs IN
    [i \in DOMAIN sigs |-> GetSigningAddress(sigs[i], x.aliceAt.contract, <<PQConsentCid(x)>>)]

PQRevokeRequest(x) ==
    EncryptSignRevokePQ(x.alice, 2, RevokeData, PQPubKeys(x, PQDeriveRevoke), x.aliceAt,
                        PQConsentCid(x))

\* The last step computes the revocation's CID anew: as that of a consent.
PQRevokeAddress(x) ==
    LET request == PQRevokeRequest(x) IN
    GetSigningAddress(request.sig, x.aliceAt.contract,
                      <<request.ccid, GetCid(MarshalConsentPQ(request.ed))>>)

PQAuthorised(x) == PQSignerAddresses(x)[1] = PQRevokeAddress(x)

-----------------------------------------------------------------------------
(* Properties *)

\* Any two parties that have a slot for each other, on any chain and contract.
Runs ==
    {[alice |-> x[1], bob |-> x[2], aliceAt |-> At(x[1], x[2], c), bobAt |-> At(x[2], x[1], c)] :
        x \in {pq \in Parties \X Parties :
                 pq[1] # pq[2] /\ Knows(pq[1], pq[2]) /\ Knows(pq[2], pq[1])},
        c \in [chain : Chains, contract : Contracts, no : {0}]}

\* The address of each party's own signing key, under its own coordinates.
TheirAddresses(x) ==
    <<[key |-> SigningKey(x.alice, x.aliceAt)], [key |-> SigningKey(x.bob, x.bobAt)]>>

\* The EC program shows what it says (its main.go:4-11): both parties decrypt, the addresses
\* are theirs, and the revocation is authorised. The exception is a Bob whose slot for
\* Alice is 0: the program ends where he decrypts.
ECExampleAuthorises ==
    \A x \in Runs :
        /\ ECDecryptedByAlice(x) = ConsentData
        /\ ECDecryptedByBob(x) = IF x.bobAt.slot = 0 THEN Failed ELSE ConsentData
        /\ ECSignerAddresses(x) = TheirAddresses(x)
        /\ ECAuthorised(x)

\* The PQ program gets to its last step whatever the slots, and there finds a signer of the
\* consent not authorised to revoke it (main.go:282): the signature covers the block with
\* the grant reference, whose CID does recover to Alice.
PQExampleTurnsSignerAway ==
    \A x \in Runs :
        /\ PQDecryptedByAlice(x) = ConsentData /\ PQDecryptedByBob(x) = ConsentData
        /\ PQSignerAddresses(x) = TheirAddresses(x)
        /\ ~PQAuthorised(x)
        /\ LET request == PQRevokeRequest(x) IN
             GetSigningAddress(request.sig, x.aliceAt.contract,
                               <<request.ccid, GetCid(VerifiedBlock(request))>>)
               = PQSignerAddresses(x)[1]

=============================================================================
