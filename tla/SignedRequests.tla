--------------------------- MODULE SignedRequests ---------------------------
(***************************************************************************)
(* Signed consents and revocations (crypto/hdwallet.go, signing.go and     *)
(* verify.go): the sealed record is marshalled, and what is signed is the  *)
(* contract address followed by the CID of the block.                      *)
(***************************************************************************)
EXTENDS RecordEncryption

INSTANCE RecordCodec

-----------------------------------------------------------------------------
(* Signatures *)

\* The packed message: the contract address and one or two CIDs.
BuildMessage(contract, cids) == <<contract>> \o cids

SignRequest(key, contract, cids) ==
    [signer |-> key, message |-> BuildMessage(contract, cids)]

\* Recovery finds some address for every signature: that of the signer's key if the
\* message is the one signed, or else one that nobody has a key of.
GetSigningAddress(signature, contract, cids) ==
    LET message == BuildMessage(contract, cids) IN
    IF signature.message = message
    THEN [key |-> signature.signer]
    ELSE [signature |-> signature, message |-> message]

SigningKey(wallet, at) == DeriveKeyFromMaster(wallet, at, SignTx)

AppendSignature(request, sig) == [request EXCEPT !.sigs = Append(@, sig)]

SignConsentRequest(wallet, request, block, at) ==
    AppendSignature(request,
        SignRequest(SigningKey(wallet, at), at.contract, <<GetCid(block)>>))

\* Both the revocation and the consent it revokes are signed for.
SignRevokeRequest(wallet, ccid, ed, block, at) ==
    [ccid |-> ccid,
     ed |-> ed,
     sig |-> SignRequest(SigningKey(wallet, at), at.contract, <<ccid, GetCid(block)>>)]

-----------------------------------------------------------------------------
(* Consents *)

EncryptSignConsentEC(wallet, data, other, at) ==
    LET ed == EncryptEC(wallet, data, other, EncryptConsentStructure, at) IN
    SignConsentRequest(wallet, [ed |-> ed, sigs |-> <<>>], MarshalConsentEC(ed), at)

DecryptConsentEC(wallet, request, at) ==
    DecryptHDEC(wallet, request.ed, EncryptConsentStructure, at)

EncryptSignConsentPQ(wallet, entropy, data, publicKeys, at) ==
    LET ed == EncryptPQ(entropy, data, publicKeys, SymmetricConsent, at) IN
    SignConsentRequest(wallet, [ed |-> ed, sigs |-> <<>>], MarshalConsentPQ(ed), at)

DecryptConsentPQ(wallet, request, at) ==
    DecryptHDPQ(wallet, request.ed, PQDeriveConsent, SymmetricConsent, at)

-----------------------------------------------------------------------------
(* Revocations: the block that is signed also names the grant *)

RevokeBlock(ed, ccid) ==
    MarshalRevoke([f \in DOMAIN ed \union {"gr"} |-> IF f = "gr" THEN ccid ELSE ed[f]])

EncryptSignRevokeEC(wallet, data, other, at, ccid) ==
    LET ed == EncryptEC(wallet, data, other, EncryptRevokeStructure, at) IN
    SignRevokeRequest(wallet, ccid, ed, RevokeBlock(ed, ccid), at)

DecryptRevokeEC(wallet, request, at) ==
    DecryptHDEC(wallet, request.ed, EncryptRevokeStructure, at)

EncryptSignRevokePQ(wallet, entropy, data, publicKeys, at, ccid) ==
    LET ed == EncryptPQ(entropy, data, publicKeys, SymmetricRevoke, at) IN
    SignRevokeRequest(wallet, ccid, ed, RevokeBlock(ed, ccid), at)

DecryptRevokePQ(wallet, request, at) ==
    DecryptHDPQ(wallet, request.ed, PQDeriveRevoke, SymmetricRevoke, at)

-----------------------------------------------------------------------------
(* Notary blocks, which the notary opens with a key of its own *)

\* Slip: the purpose of a revocation's notary block.
EncryptConsentNotaryECForRevoke(wallet, data, notary, at) ==
    EncryptEC(wallet, data, notary, EncryptRevokeNotaryBlock, at)

EncryptConsentNotaryEC(wallet, data, notary, at) ==
    EncryptEC(wallet, data, notary, EncryptConsentNotaryBlock, at)

DecryptConsentNotaryEC(wallet, result, at) ==
    DecryptHDEC(wallet, result, EncryptConsentNotaryBlock, at)

DecryptConsentNotaryECAsNotary(notary, result, at) ==
    DecryptEC(result, notary, EncryptConsentNotaryBlock, at)

EncryptRevokeNotaryEC(wallet, data, notary, at) ==
    EncryptEC(wallet, data, notary, EncryptRevokeNotaryBlock, at)

DecryptRevokeNotaryEC(wallet, result, at) ==
    DecryptHDEC(wallet, result, EncryptRevokeNotaryBlock, at)

-----------------------------------------------------------------------------
(* Verification *)

ConsentSigners(request, contract) ==
    [i \in DOMAIN request.sigs |->
        GetSigningAddress(request.sigs[i], contract,
                          <<GetCid(MarshalConsentEC(request.ed))>>)]

\* Slip: the grant reference is left out of the block.
VerifiedBlockUnbound(revoke) == MarshalConsent(revoke.ed)

VerifiedBlock(revoke) == RevokeBlock(revoke.ed, revoke.ccid)

\* That the revocation names this consent is left to the caller.
RevokeSignerWasConsentSigner(revoke, consent, contract) ==
    LET revoker == GetSigningAddress(revoke.sig, contract,
                                     <<revoke.ccid, GetCid(VerifiedBlock(revoke))>>)
        signers == ConsentSigners(consent, contract)
    IN \E i \in DOMAIN signers : signers[i] = revoker

=============================================================================
