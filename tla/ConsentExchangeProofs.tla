------------------------- MODULE ConsentExchangeProofs -------------------------
(***************************************************************************)
(* What holds of parties that grant and revoke consents, however many they *)
(* are, however many consents they grant and in whatever order.            *)
(*                                                                         *)
(* Everything that happens leaves a consent where it is in the two trees   *)
(* of keys: slots are never given anew, and numbers never twice.  So a     *)
(* record stays what it was when it was made, which is described here      *)
(* without the state: IsConsent and IsRevocation have only the two slots.  *)
(* The invariant says that every record is of that kind, for the slots     *)
(* that its parties have for each other, and the properties of the runs    *)
(* follow from what a single record of that kind is.                       *)
(***************************************************************************)
EXTENDS Examples, SignedRequestsProofs, FiniteSetTheorems

-----------------------------------------------------------------------------
(* Records, for the slots of their parties *)

View(slot, c) == [slot |-> slot, chain |-> c.chain, no |-> c.no, contract |-> c.contract]

\* The purposes of keys and ciphertexts.
ConsentUse == [ec |-> EncryptConsentStructure, derive |-> PQDeriveConsent,
               sym |-> SymmetricConsent]
RevokeUse == [ec |-> EncryptRevokeStructure, derive |-> PQDeriveRevoke,
              sym |-> SymmetricRevoke]

\* p, who sees it at `at', has sealed data for q, who sees it at `at2'.
IsSealed(ed, scheme, data, p, at, q, at2, use) ==
    IF scheme = "EC"
    THEN ed = EncryptEC(p, data,
                        DerivePublicKeyFromParent(DeriveOtherPartyKey(q, at2.slot), at, use.ec),
                        use.ec, at)
    ELSE ed = EncryptPQ(ed.keys[1].ekk.seed, data,
                        <<DerivePQKeyPair(p, at, use.derive),
                          DerivePQKeyPair(q, at2, use.derive)>>, use.sym, at)

Opened(ed, scheme, wallet, at, use) ==
    IF scheme = "EC" THEN DecryptHDEC(wallet, ed, use.ec, at)
                     ELSE DecryptHDPQ(wallet, ed, use.derive, use.sym, at)

HasNotaryBlock(payload, p, at, purpose) ==
    LET nb == [sd |-> payload.en, k1 |-> payload.nk1, k2 |-> payload.nk2] IN
    /\ IsNotaryBlock(nb.sd.plaintext)
    /\ nb = EncryptEC(p, nb.sd.plaintext, NotaryKey, purpose, at)

IsPermission(data, p, at) ==
    LET payload == UnmarshalFeedPermission(data) IN
    /\ payload # Failed
    /\ "gx" \in DOMAIN payload => payload.gx = DeriveOtherPartyKey(p, at.slot)
    /\ HasNotaryBlock(payload, p, at, EncryptConsentNotaryBlock)

Signature(p, at, cids) == SignRequest(SigningKey(p, at), at.contract, cids)

ConsentFields ==
    {"grantor", "grantee", "chain", "contract", "no", "scheme", "data", "request"}

\* The grantor has the grantee in slot s, and the grantee the grantor in slot s2.
IsConsent(c, s, s2) ==
    LET at == View(s, c)
        at2 == View(s2, c)
        request == UnmarshalRequest(c)
        cids == <<GetCid(ConsentBlock(c))>>
    IN /\ c.grantor # c.grantee
       /\ DOMAIN c = ConsentFields
       /\ IsPermission(c.data, c.grantor, at)
       /\ IsSealed(request.ed, c.scheme, c.data, c.grantor, at, c.grantee, at2, ConsentUse)
       /\ \/ request = [ed |-> request.ed, sigs |-> <<Signature(c.grantor, at, cids)>>]
          \/ request = [ed |-> request.ed, sigs |-> <<Signature(c.grantor, at, cids),
                                                      Signature(c.grantee, at2, cids)>>]

\* The revoker has the other party in slot s, and that one the revoker in slot s2.
IsRevocation(r, s, s2) ==
    LET at == View(s, r)
        at2 == View(s2, r)
        request == UnmarshalRevocation(r)
        payload == UnmarshalFeedRevocation(r.data)
    IN /\ r.grantor # r.grantee /\ r.revoker \in {r.grantor, r.grantee}
       /\ "revoker" \in DOMAIN r
       /\ payload # Failed /\ HasNotaryBlock(payload, r.revoker, at, EncryptRevokeNotaryBlock)
       /\ IsSealed(request.ed, r.scheme, r.data, r.revoker, at, Other(r.revoker, r), at2,
                   RevokeUse)
       /\ request = [ccid |-> request.ccid, ed |-> request.ed,
                     sig |-> Signature(r.revoker, at,
                                       <<request.ccid,
                                         GetCid(RevokeBlock(request.ed, request.ccid))>>)]

-----------------------------------------------------------------------------
(* The invariant *)

\* A registry never gives a slot that it has given before.
SlotsInv ==
    /\ xpubs = [p \in Parties |-> [q \in Parties |-> xpubs[p][q]]]
    /\ \A p \in Parties: \A i \in Parties \union Others:
          Knows(p, i) => identifiers[p][i] < nextPartyNo[p]
    /\ \A p \in Parties: \A i, j \in Parties \union Others:
          Knows(p, i) /\ identifiers[p][i] = identifiers[p][j] => i = j

Pair(c) ==
    /\ c.grantor \in Parties /\ c.grantee \in Parties
    /\ Knows(c.grantor, c.grantee) /\ Knows(c.grantee, c.grantor)
    /\ c.chain \in Chains /\ c.no \in Indices

Slot(c) == identifiers[c.grantor][c.grantee]

ConsentsInv ==
    /\ IsFiniteSet(consents)
    /\ \A c \in consents:
         /\ Pair(c)
         /\ IsConsent(c, Slot(c), identifiers[c.grantee][c.grantor])
         /\ c.no < consentCounters[c.grantor][<<Slot(c), c.chain>>]

\* A number is taken once for each slot and chain.
NumbersInv ==
    \A c, d \in consents:
        /\ c.grantor = d.grantor /\ c.grantee = d.grantee
        /\ c.chain = d.chain /\ c.no = d.no
        => c = d

\* Where c is, whatever its signatures.
Coordinates(c) == <<c.grantor, c.grantee, c.chain, c.no, c.contract, c.scheme>>

RevocationsInv ==
    \A r \in revocations:
        /\ Pair(r)
        /\ IsRevocation(r, identifiers[r.revoker][Other(r.revoker, r)],
                        identifiers[Other(r.revoker, r)][r.revoker])
        /\ \E c \in consents: /\ Coordinates(c) = Coordinates(r)
                              /\ UnmarshalRevocation(r).ccid = GetCid(ConsentBlock(c))

IInv == TypeOK /\ SlotsInv /\ ConsentsInv /\ NumbersInv /\ RevocationsInv

-----------------------------------------------------------------------------
(* A sealed record *)

\* The seed of an encapsulation is kept beside the key, which is the fingerprint's.
LEMMA Encapsulated ==
    ASSUME NEW e, NEW data, NEW key1, NEW key2, NEW purpose, NEW at, NEW ed,
           ed = EncryptPQ(e, data, <<key1, key2>>, purpose, at)
    PROVE  /\ ed = [sd |-> ed.sd, keys |-> ed.keys]
           /\ ed.keys # <<>>
           /\ ed.keys[1].ekk.seed = e
           /\ ed.keys[1].fp = key1
<1> DEFINE context == ContextHash(at.chain, at.contract, at.no)
<1>1. PICK keys, sd:
        /\ ed = [sd |-> sd, keys |-> keys]
        /\ keys = [i \in DOMAIN <<key1, key2>> |->
                     EncapsulateKey(e, <<key1, key2>>[i], NewKey(e), purpose, context)]
  BY DEF EncryptPQ
<1>2. DOMAIN <<key1, key2>> = {1, 2} /\ <<key1, key2>>[1] = key1
  OBVIOUS
<1>3. keys[1] = EncapsulateKey(e, key1, NewKey(e), purpose, context) /\ DOMAIN keys = {1, 2}
  BY <1>1, <1>2
<1>4. keys[1].ekk.seed = e /\ keys[1].fp = key1
  BY <1>3 DEF EncapsulateKey
<1>5. keys # <<>>
  <2>1. DOMAIN <<>> = {}
    OBVIOUS
  <2>2. QED
    BY <1>3, <2>1
<1>6. QED
  BY <1>1, <1>4, <1>5

\* What a sealed record is made of.
LEMMA SealedFields ==
    ASSUME NEW ed, NEW scheme, NEW data, NEW p, NEW at, NEW q, NEW at2, NEW use,
           IsSealed(ed, scheme, data, p, at, q, at2, use)
    PROVE  /\ scheme = "EC" =>
                 /\ ed = [sd |-> ed.sd, k1 |-> ed.k1, k2 |-> ed.k2]
                 /\ ed.k1 = DeriveKeyFromMaster(p, at, use.ec)
                 /\ ed.sd.aad.context.contract = at.contract
           /\ scheme # "EC" =>
                 /\ ed = [sd |-> ed.sd, keys |-> ed.keys]
                 /\ ed.keys # <<>>
                 /\ ed.keys[1].fp = DerivePQKeyPair(p, at, use.derive)
<1>1. CASE scheme = "EC"
  <2>1. PICK other: ed = EncryptECDH(data, DeriveKeyFromMaster(p, at, use.ec), other, use.ec, at)
    BY <1>1 DEF IsSealed, EncryptEC
  <2>2. ed.sd.aad.context.contract = at.contract
    BY <2>1 DEF EncryptECDH, PulseSeal, AADForEC, BuildAAD, ContextHash
  <2>3. QED
    BY <1>1, <2>1, <2>2 DEF EncryptECDH
<1>2. CASE scheme # "EC"
  <2>1. ed = EncryptPQ(ed.keys[1].ekk.seed, data,
                       <<DerivePQKeyPair(p, at, use.derive),
                         DerivePQKeyPair(q, at2, use.derive)>>, use.sym, at)
    BY <1>2 DEF IsSealed
  <2>2. QED
    BY <1>2, <2>1, Encapsulated
<1>3. QED
  BY <1>1, <1>2

\* Both parties open what one of them has sealed for the other; only the receiver that gave
\* the sealer slot 0 does not open what is sealed with ECDH.
LEMMA SealedOpens ==
    ASSUME FailedIsNoRecord,
           NEW ed, NEW scheme, NEW data, NEW p, NEW at, NEW q, NEW at2, NEW use,
           IsSealed(ed, scheme, data, p, at, q, at2, use), p # q,
           at.chain = at2.chain, at.no = at2.no, at.contract = at2.contract
    PROVE  /\ Opened(ed, scheme, p, at, use) = data
           /\ Opened(ed, scheme, q, at2, use) =
                 IF scheme = "EC" /\ at2.slot = 0 THEN Failed ELSE data
<1>1. CASE scheme = "EC"
  <2> DEFINE mine == DeriveKeyFromMaster(p, at, use.ec)
             theirs == DeriveKeyFromMaster(q, at2, use.ec)
             other == DerivePublicKeyFromParent(DeriveOtherPartyKey(q, at2.slot), at, use.ec)
  <2>1. ed = EncryptECDH(data, mine, other, use.ec, at)
    BY <1>1 DEF IsSealed, EncryptEC
  <2>2. other = DerivePublicKeyFromParent(DeriveOtherPartyKey(q, at2.slot), at2, use.ec)
    BY DEF DerivePublicKeyFromParent
  <2>3. mine # theirs
    BY KeysAreDistinct
  <2>4. at2.slot # 0 => other = theirs
    BY <2>2, SharedKeysMatch
  <2>5. at2.slot = 0 => other # theirs
    BY <2>2, RootKeysNeverMatch
  <2>6. /\ Opened(ed, scheme, p, at, use) = DecryptEC(ed, mine, use.ec, at)
        /\ Opened(ed, scheme, q, at2, use) = DecryptEC(ed, theirs, use.ec, at)
    BY <1>1 DEF Opened, DecryptHDEC, DecryptEC
  <2> HIDE DEF mine, theirs, other
  <2>7. DecryptEC(ed, mine, use.ec, at) = data
    BY <2>1, BothPartiesOpen
  <2>8. at2.slot # 0 => DecryptEC(ed, theirs, use.ec, at) = data
    BY <2>1, <2>4, BothPartiesOpen
  <2>9. at2.slot = 0 => DecryptEC(ed, theirs, use.ec, at) = Failed
    BY <2>1, <2>3, <2>5, NobodyElseOpens
  <2>10. QED
    BY <1>1, <2>6, <2>7, <2>8, <2>9
<1>2. CASE scheme # "EC"
  <2>1. PICK e, mine, theirs:
          /\ mine = DerivePQKeyPair(p, at, use.derive)
          /\ theirs = DerivePQKeyPair(q, at2, use.derive)
          /\ ed = EncryptPQ(e, data, <<mine, theirs>>, use.sym, at)
    BY <1>2 DEF IsSealed
  <2>2. /\ Opened(ed, scheme, p, at, use) = DecryptPQ(ed, mine, use.sym, at)
        /\ Opened(ed, scheme, q, at2, use) = DecryptPQ(ed, theirs, use.sym, at)
    <3>1. ContextHash(at.chain, at.contract, at.no) = ContextHash(at2.chain, at2.contract, at2.no)
      OBVIOUS
    <3>2. DecryptPQ(ed, theirs, use.sym, at) = DecryptPQ(ed, theirs, use.sym, at2)
      BY <3>1 DEF DecryptPQ
    <3>3. QED
      BY <1>2, <2>1, <3>2 DEF Opened, DecryptHDPQ
  <2>3. NewKey(e) # Failed
    <3>1. NewKey(e) = Fields([random |-> e], {"random"})
      BY DEF NewKey, Fields
    <3>2. QED
      BY <3>1, FieldsSucceed
  <2>4. \A key \in {mine, theirs}: DecryptPQ(ed, key, use.sym, at) = data
    BY <2>1, <2>3, BothRecipientsOpen
  <2>5. QED
    BY <1>2, <2>2, <2>4
<1>3. QED
  BY <1>1, <1>2

\* The notary opens a notary block with its own key, and the author from the wallet.
LEMMA NotaryOpens ==
    ASSUME NEW payload, NEW p, NEW at, NEW purpose, HasNotaryBlock(payload, p, at, purpose)
    PROVE  LET nb == [sd |-> payload.en, k1 |-> payload.nk1, k2 |-> payload.nk2] IN
           /\ IsNotaryBlock(DecryptHDEC(p, nb, purpose, at))
           /\ IsNotaryBlock(DecryptEC(nb, NotaryKey, purpose, at))
<1>1. PICK nb: nb = [sd |-> payload.en, k1 |-> payload.nk1, k2 |-> payload.nk2]
  OBVIOUS
<1>2. PICK mine, block:
        /\ mine = DeriveKeyFromMaster(p, at, purpose)
        /\ IsNotaryBlock(block)
        /\ nb = EncryptECDH(block, mine, NotaryKey, purpose, at)
  BY <1>1 DEF HasNotaryBlock, EncryptEC
<1>3. DecryptEC(nb, mine, purpose, at) = block /\ DecryptEC(nb, NotaryKey, purpose, at) = block
  BY <1>2, BothPartiesOpen
<1>4. QED
  BY <1>1, <1>2, <1>3 DEF DecryptHDEC

\* A notary block in the payload that holds it.
LEMMA NotaryBlockKept ==
    ASSUME FailedIsNoRecord, NEW payload, NEW p, NEW at, NEW purpose, NEW ts, NEW nb,
           nb = EncryptEC(p, MarshalNotaryBlock([ts |-> ts]), NotaryKey, purpose, at),
           payload.en = nb.sd, payload.nk1 = nb.k1, payload.nk2 = nb.k2
    PROVE  HasNotaryBlock(payload, p, at, purpose)
<1>1. PICK block: block = MarshalNotaryBlock([ts |-> ts])
  OBVIOUS
<1>2. nb = [sd |-> nb.sd, k1 |-> nb.k1, k2 |-> nb.k2] /\ nb.sd.plaintext = block
  BY <1>1 DEF EncryptEC, EncryptECDH, PulseSeal
<1>3. IsNotaryBlock(block)
  <2>1. [ts |-> ts] = Fields([ts |-> ts], {"ts"})
    BY DEF Fields
  <2>2. QED
    BY <1>1, <2>1, PayloadsRoundTrip DEF IsNotaryBlock
<1>4. [sd |-> payload.en, k1 |-> payload.nk1, k2 |-> payload.nk2] = nb
  BY <1>2
<1>5. QED
  BY <1>1, <1>2, <1>3, <1>4 DEF HasNotaryBlock

-----------------------------------------------------------------------------
(* How records are made *)

LEMMA Appended ==
    ASSUME NEW a, NEW b
    PROVE  Append(<<>>, a) = <<a>> /\ Append(<<a>>, b) = <<a, b>>
<1>1. <<>> \in Seq({a, b}) /\ <<a>> \in Seq({a, b}) /\ <<a, b>> \in Seq({a, b})
  OBVIOUS
<1>2. Append(<<>>, a) = <<a>>
  <2>1. /\ Append(<<>>, a) \in Seq({a, b}) /\ Len(Append(<<>>, a)) = 1
        /\ Append(<<>>, a)[1] = a
    BY <1>1, AppendProperties
  <2>2. QED
    BY <1>1, <2>1, SeqEqual
<1>3. Append(<<a>>, b) = <<a, b>>
  <2>1. /\ Append(<<a>>, b) \in Seq({a, b}) /\ Len(Append(<<a>>, b)) = 2
        /\ \A i \in 1 .. 2: Append(<<a>>, b)[i] = <<a, b>>[i]
    BY <1>1, AppendProperties
  <2>2. QED
    BY <1>1, <2>1, SeqEqual
<1>4. QED
  BY <1>2, <1>3

\* Signing appends a signature and leaves the sealed record alone.
LEMMA Signed ==
    ASSUME NEW p, NEW ed, NEW block, NEW at, NEW sigs
    PROVE  SignConsentRequest(p, [ed |-> ed, sigs |-> sigs], block, at)
             = [ed |-> ed, sigs |-> Append(sigs, Signature(p, at, <<GetCid(block)>>))]
<1>1. PICK request: request = [ed |-> ed, sigs |-> sigs]
  OBVIOUS
<1>2. SignConsentRequest(p, request, block, at)
        = [request EXCEPT !.sigs = Append(@, Signature(p, at, <<GetCid(block)>>))]
  BY DEF SignConsentRequest, AppendSignature, Signature
<1>3. QED
  BY <1>1, <1>2

\* What UnmarshalRequest reads is what was marshalled, whichever the scheme.
LEMMA RequestRead ==
    ASSUME FailedIsNoRecord, NEW c, NEW request, NEW ed, NEW sigs,
           request = [ed |-> ed, sigs |-> sigs],
           c.scheme = "EC" => ed = [sd |-> ed.sd, k1 |-> ed.k1, k2 |-> ed.k2],
           c.scheme # "EC" => ed = [sd |-> ed.sd, keys |-> ed.keys],
           c.request = IF c.scheme = "EC" THEN MarshalConsentRequestEC(request)
                                          ELSE MarshalConsentRequestPQ(request)
    PROVE  UnmarshalRequest(c) = request
<1>1. CASE c.scheme = "EC"
  BY <1>1, ConsentRequestsRoundTrip DEF UnmarshalRequest
<1>2. CASE c.scheme # "EC"
  BY <1>2, ConsentRequestsRoundTrip DEF UnmarshalRequest
<1>3. QED
  BY <1>1, <1>2

\* The payload of a grant is a permission.
LEMMA PermissionMade ==
    ASSUME FailedIsNoRecord, NEW p, NEW at, NEW withXpub
    PROVE  IsPermission(Permission(p, at, withXpub), p, at)
<1>1. PICK nb: nb = EncryptEC(p, MarshalNotaryBlock([ts |-> Entropy]), NotaryKey,
                              EncryptConsentNotaryBlock, at)
  OBVIOUS
<1>2. PICK mandatory:
        mandatory = [cn |-> at.no, en |-> nb.sd, nk1 |-> nb.k1, nk2 |-> nb.k2]
  OBVIOUS
<1>3. PICK payload:
        payload = [f \in DOMAIN mandatory \union (IF withXpub THEN {"gx"} ELSE {}) |->
                     IF f = "gx" THEN DeriveOtherPartyKey(p, at.slot) ELSE mandatory[f]]
  OBVIOUS
<1>4. Permission(p, at, withXpub) = MarshalFeedPermission(payload)
  BY <1>1, <1>2, <1>3 DEF Permission, EncryptConsentNotaryEC, NotaryBlock
<1>5. /\ payload = Fields(payload, DOMAIN payload)
      /\ \/ DOMAIN payload = PermissionFields
         \/ DOMAIN payload = PermissionFields \union {"gx"}
  BY <1>2, <1>3 DEF Fields, PermissionFields
<1>6. /\ payload.en = nb.sd /\ payload.nk1 = nb.k1 /\ payload.nk2 = nb.k2
      /\ "gx" \in DOMAIN payload => payload.gx = DeriveOtherPartyKey(p, at.slot)
  BY <1>2, <1>3
<1>7. HasNotaryBlock(payload, p, at, EncryptConsentNotaryBlock)
  BY <1>1, <1>6, NotaryBlockKept
<1>8. UnmarshalFeedPermission(Permission(p, at, withXpub)) = payload /\ payload # Failed
  BY <1>4, <1>5, PayloadsRoundTrip
<1>9. QED
  BY <1>6, <1>7, <1>8 DEF IsPermission

\* So is what is sealed for a new consent, whatever the draw of random bytes.
LEMMA ConsentMade ==
    ASSUME FailedIsNoRecord, NEW c, NEW s, NEW s2, NEW e,
           c.grantor # c.grantee,
           DOMAIN c = ConsentFields,
           IsPermission(c.data, c.grantor, View(s, c)),
           c.scheme = "EC" => c.request = MarshalConsentRequestEC(
               EncryptSignConsentEC(c.grantor, c.data,
                   DerivePublicKeyFromParent(DeriveOtherPartyKey(c.grantee, s2), View(s, c),
                                             EncryptConsentStructure), View(s, c))),
           c.scheme # "EC" => c.request = MarshalConsentRequestPQ(
               EncryptSignConsentPQ(c.grantor, e, c.data,
                   <<DerivePQKeyPair(c.grantor, View(s, c), PQDeriveConsent),
                     DerivePQKeyPair(c.grantee, View(s2, c), PQDeriveConsent)>>, View(s, c)))
    PROVE  IsConsent(c, s, s2)
<1>1. PICK at, at2: at = View(s, c) /\ at2 = View(s2, c) /\ at2.slot = s2
  BY DEF View
<1>2. PICK ed:
        ed = IF c.scheme = "EC"
             THEN EncryptEC(c.grantor, c.data,
                            DerivePublicKeyFromParent(DeriveOtherPartyKey(c.grantee, s2), at,
                                                      EncryptConsentStructure),
                            EncryptConsentStructure, at)
             ELSE EncryptPQ(e, c.data,
                            <<DerivePQKeyPair(c.grantor, at, PQDeriveConsent),
                              DerivePQKeyPair(c.grantee, at2, PQDeriveConsent)>>,
                            SymmetricConsent, at)
  OBVIOUS
<1>3. IsSealed(ed, c.scheme, c.data, c.grantor, at, c.grantee, at2, ConsentUse)
  <2>1. CASE c.scheme = "EC"
    BY <1>1, <1>2, <2>1 DEF IsSealed, ConsentUse
  <2>2. CASE c.scheme # "EC"
    <3>1. ed.keys[1].ekk.seed = e
      BY <1>2, <2>2, Encapsulated
    <3>2. QED
      BY <1>2, <2>2, <3>1 DEF IsSealed, ConsentUse
  <2>3. QED
    BY <2>1, <2>2
<1>4. /\ c.scheme = "EC" => ed = [sd |-> ed.sd, k1 |-> ed.k1, k2 |-> ed.k2]
      /\ c.scheme # "EC" => ed = [sd |-> ed.sd, keys |-> ed.keys]
  BY <1>3, SealedFields
<1>5. PICK block: block = IF c.scheme = "EC" THEN MarshalConsentEC(ed) ELSE MarshalConsentPQ(ed)
  OBVIOUS
<1>6. PICK sig, request:
        /\ sig = Signature(c.grantor, at, <<GetCid(block)>>)
        /\ request = [ed |-> ed, sigs |-> <<sig>>]
  OBVIOUS
<1>7. SignConsentRequest(c.grantor, [ed |-> ed, sigs |-> <<>>], block, at) = request
  <2>1. SignConsentRequest(c.grantor, [ed |-> ed, sigs |-> <<>>], block, at)
          = [ed |-> ed, sigs |-> Append(<<>>, sig)]
    BY <1>6, Signed
  <2>2. QED
    BY <1>6, <2>1, Appended
<1>8. UnmarshalRequest(c) = request
  <2>1. c.request = IF c.scheme = "EC" THEN MarshalConsentRequestEC(request)
                                       ELSE MarshalConsentRequestPQ(request)
    BY <1>1, <1>2, <1>5, <1>7 DEF EncryptSignConsentEC, EncryptSignConsentPQ
  <2>2. QED
    BY <1>4, <1>6, <2>1, RequestRead
<1>9. ConsentBlock(c) = block /\ request.ed = ed
  BY <1>5, <1>6, <1>8 DEF ConsentBlock
<1>10. QED
  BY <1>1, <1>3, <1>6, <1>8, <1>9 DEF IsConsent

\* A grantee that signs as well makes it a consent with two signatures.
LEMMA CounterSigned ==
    ASSUME FailedIsNoRecord, NEW c, NEW s, NEW s2, IsConsent(c, s, s2),
           ~(Len(UnmarshalRequest(c).sigs) > 1), NEW request, NEW d,
           request = SignConsentRequest(c.grantee, UnmarshalRequest(c), ConsentBlock(c),
                                        View(s2, c)),
           d = [c EXCEPT !.request = IF c.scheme = "EC" THEN MarshalConsentRequestEC(request)
                                                        ELSE MarshalConsentRequestPQ(request)]
    PROVE  /\ IsConsent(d, s, s2)
           /\ ConsentBlock(d) = ConsentBlock(c)
           /\ Coordinates(d) = Coordinates(c)
           /\ UnmarshalRequest(d).ed = UnmarshalRequest(c).ed
<1>1. PICK at, at2: at = View(s, c) /\ at2 = View(s2, c)
  OBVIOUS
<1>2. PICK old, ed, cids:
        /\ old = UnmarshalRequest(c) /\ ed = old.ed /\ cids = <<GetCid(ConsentBlock(c))>>
  OBVIOUS
<1>3. /\ c.grantor # c.grantee
      /\ DOMAIN c = ConsentFields
      /\ IsPermission(c.data, c.grantor, at)
      /\ IsSealed(ed, c.scheme, c.data, c.grantor, at, c.grantee, at2, ConsentUse)
  BY <1>1, <1>2 DEF IsConsent
<1>4. PICK first, second:
        first = Signature(c.grantor, at, cids) /\ second = Signature(c.grantee, at2, cids)
  OBVIOUS
<1>5. old = [ed |-> ed, sigs |-> <<first>>]
  <2>1. \/ old = [ed |-> ed, sigs |-> <<first>>]
        \/ old = [ed |-> ed, sigs |-> <<first, second>>]
    BY <1>1, <1>2, <1>4 DEF IsConsent
  <2>2. Len(<<first, second>>) > 1
    OBVIOUS
  <2>3. QED
    BY <1>2, <2>1, <2>2
<1>6. request = [ed |-> ed, sigs |-> <<first, second>>]
  <2>1. PICK block: block = ConsentBlock(c)
    OBVIOUS
  <2>2. second = Signature(c.grantee, at2, <<GetCid(block)>>)
    BY <1>2, <1>4, <2>1
  <2>3. SignConsentRequest(c.grantee, old, block, at2)
          = [ed |-> ed, sigs |-> Append(<<first>>, second)]
    BY <1>5, <2>2, Signed
  <2>4. QED
    BY <1>1, <1>2, <2>1, <2>3, Appended
<1>7. /\ c.scheme = "EC" => ed = [sd |-> ed.sd, k1 |-> ed.k1, k2 |-> ed.k2]
      /\ c.scheme # "EC" => ed = [sd |-> ed.sd, keys |-> ed.keys]
  BY <1>3, SealedFields
<1>8. /\ DOMAIN d = ConsentFields
      /\ d.grantor = c.grantor /\ d.grantee = c.grantee /\ d.chain = c.chain /\ d.no = c.no
      /\ d.contract = c.contract /\ d.scheme = c.scheme /\ d.data = c.data
      /\ d.request = IF d.scheme = "EC" THEN MarshalConsentRequestEC(request)
                                        ELSE MarshalConsentRequestPQ(request)
  BY <1>3 DEF ConsentFields
<1>9. UnmarshalRequest(d) = request
  <2>1. PICK sigs: request = [ed |-> ed, sigs |-> sigs]
    BY <1>6
  <2>2. /\ d.scheme = "EC" => ed = [sd |-> ed.sd, k1 |-> ed.k1, k2 |-> ed.k2]
        /\ d.scheme # "EC" => ed = [sd |-> ed.sd, keys |-> ed.keys]
        /\ d.request = IF d.scheme = "EC" THEN MarshalConsentRequestEC(request)
                                          ELSE MarshalConsentRequestPQ(request)
    BY <1>7, <1>8
  <2>3. QED
    BY <2>1, <2>2, RequestRead
<1>10. request.ed = ed
  BY <1>6
<1>11. ConsentBlock(d) = ConsentBlock(c)
  BY <1>2, <1>8, <1>9, <1>10 DEF ConsentBlock
<1>12. View(s, d) = at /\ View(s2, d) = at2
  BY <1>1, <1>8 DEF View
<1>13. request = [ed |-> request.ed, sigs |-> <<first, second>>]
  BY <1>6, <1>10
<1>14. first = Signature(d.grantor, at, <<GetCid(ConsentBlock(d))>>)
       /\ second = Signature(d.grantee, at2, <<GetCid(ConsentBlock(d))>>)
  BY <1>2, <1>4, <1>8, <1>11
<1>15. IsConsent(d, s, s2)
  BY <1>3, <1>8, <1>9, <1>10, <1>12, <1>13, <1>14 DEF IsConsent
<1>16. QED
  BY <1>2, <1>8, <1>9, <1>10, <1>11, <1>15 DEF Coordinates

\* The payload of a revocation holds a notary block of its revoker.
LEMMA RevocationPayloadMade ==
    ASSUME FailedIsNoRecord, NEW p, NEW c, NEW at
    PROVE  LET payload == UnmarshalFeedRevocation(Revocation(p, c, at)) IN
           payload # Failed /\ HasNotaryBlock(payload, p, at, EncryptRevokeNotaryBlock)
<1>1. PICK nb: nb = EncryptEC(p, MarshalNotaryBlock([ts |-> Entropy]), NotaryKey,
                              EncryptRevokeNotaryBlock, at)
  OBVIOUS
<1>2. PICK payload:
        payload = [gcid |-> GetCid(ConsentBlock(c)), en |-> nb.sd, nk1 |-> nb.k1, nk2 |-> nb.k2]
  OBVIOUS
<1>3. Revocation(p, c, at) = MarshalFeedRevocation(payload)
  BY <1>1, <1>2 DEF Revocation, EncryptRevokeNotaryEC, NotaryBlock
<1>4. payload = Fields(payload, RevocationFields)
  BY <1>2 DEF Fields, RevocationFields
<1>5. HasNotaryBlock(payload, p, at, EncryptRevokeNotaryBlock)
  <2>1. payload.en = nb.sd /\ payload.nk1 = nb.k1 /\ payload.nk2 = nb.k2
    BY <1>2
  <2>2. QED
    BY <1>1, <2>1, NotaryBlockKept
<1>6. UnmarshalFeedRevocation(Revocation(p, c, at)) = payload /\ payload # Failed
  BY <1>3, <1>4, PayloadsRoundTrip
<1>7. QED
  BY <1>5, <1>6

LEMMA RevocationMade ==
    ASSUME FailedIsNoRecord, NEW r, NEW s, NEW s2, NEW e, NEW ccid, NEW q,
           r.grantor # r.grantee, r.revoker \in {r.grantor, r.grantee},
           "revoker" \in DOMAIN r, q = Other(r.revoker, r),
           UnmarshalFeedRevocation(r.data) # Failed,
           HasNotaryBlock(UnmarshalFeedRevocation(r.data), r.revoker, View(s, r),
                          EncryptRevokeNotaryBlock),
           r.scheme = "EC" => r.request = MarshalRevokeRequestEC(
               EncryptSignRevokeEC(r.revoker, r.data,
                   DerivePublicKeyFromParent(DeriveOtherPartyKey(q, s2), View(s, r),
                                             EncryptRevokeStructure), View(s, r), ccid)),
           r.scheme # "EC" => r.request = MarshalRevokeRequestPQ(
               EncryptSignRevokePQ(r.revoker, e, r.data,
                   <<DerivePQKeyPair(r.revoker, View(s, r), PQDeriveRevoke),
                     DerivePQKeyPair(q, View(s2, r), PQDeriveRevoke)>>, View(s, r), ccid))
    PROVE  IsRevocation(r, s, s2) /\ UnmarshalRevocation(r).ccid = ccid
<1>1. PICK at, at2: at = View(s, r) /\ at2 = View(s2, r) /\ at2.slot = s2
  BY DEF View
<1>2. PICK ed:
        ed = IF r.scheme = "EC"
             THEN EncryptEC(r.revoker, r.data,
                            DerivePublicKeyFromParent(DeriveOtherPartyKey(q, s2), at,
                                                      EncryptRevokeStructure),
                            EncryptRevokeStructure, at)
             ELSE EncryptPQ(e, r.data,
                            <<DerivePQKeyPair(r.revoker, at, PQDeriveRevoke),
                              DerivePQKeyPair(q, at2, PQDeriveRevoke)>>,
                            SymmetricRevoke, at)
  OBVIOUS
<1>3. IsSealed(ed, r.scheme, r.data, r.revoker, at, q, at2, RevokeUse)
  <2>1. CASE r.scheme = "EC"
    BY <1>1, <1>2, <2>1 DEF IsSealed, RevokeUse
  <2>2. CASE r.scheme # "EC"
    <3>1. ed.keys[1].ekk.seed = e
      BY <1>2, <2>2, Encapsulated
    <3>2. QED
      BY <1>2, <2>2, <3>1 DEF IsSealed, RevokeUse
  <2>3. QED
    BY <2>1, <2>2
<1>4. /\ r.scheme = "EC" => ed = [sd |-> ed.sd, k1 |-> ed.k1, k2 |-> ed.k2]
      /\ r.scheme # "EC" => ed = [sd |-> ed.sd, keys |-> ed.keys]
  BY <1>3, SealedFields
<1>5. PICK sig, request:
        /\ sig = Signature(r.revoker, at, <<ccid, GetCid(RevokeBlock(ed, ccid))>>)
        /\ request = [ccid |-> ccid, ed |-> ed, sig |-> sig]
  OBVIOUS
<1>6. SignRevokeRequest(r.revoker, ccid, ed, RevokeBlock(ed, ccid), at) = request
  BY <1>5 DEF SignRevokeRequest, Signature
<1>7. UnmarshalRevocation(r) = request
  <2>1. CASE r.scheme = "EC"
    <3>1. r.request = MarshalRevokeRequestEC(request)
      BY <1>1, <1>2, <1>6, <2>1 DEF EncryptSignRevokeEC
    <3>2. UnmarshalRevokeRequestEC(MarshalRevokeRequestEC(request)) = request
      BY <1>4, <1>5, <2>1, RevokeRequestsRoundTrip
    <3>3. QED
      BY <2>1, <3>1, <3>2 DEF UnmarshalRevocation
  <2>2. CASE r.scheme # "EC"
    <3>1. r.request = MarshalRevokeRequestPQ(request)
      BY <1>1, <1>2, <1>6, <2>2 DEF EncryptSignRevokePQ
    <3>2. UnmarshalRevokeRequestPQ(MarshalRevokeRequestPQ(request)) = request
      BY <1>4, <1>5, <2>2, RevokeRequestsRoundTrip
    <3>3. QED
      BY <2>2, <3>1, <3>2 DEF UnmarshalRevocation
  <2>3. QED
    BY <2>1, <2>2
<1>8. request.ed = ed /\ request.ccid = ccid
  BY <1>5
<1>9. request = [ccid |-> request.ccid, ed |-> request.ed,
                 sig |-> Signature(r.revoker, at,
                            <<request.ccid, GetCid(RevokeBlock(request.ed, request.ccid))>>)]
  BY <1>5, <1>8
<1>10. QED
  BY <1>1, <1>3, <1>7, <1>8, <1>9 DEF IsRevocation

-----------------------------------------------------------------------------
(* Every step keeps the invariant *)

LEMMA InitInv == Init => IInv
<1> SUFFICES ASSUME Init PROVE IInv
  OBVIOUS
<1>1. TypeOK
  BY MaxIndexAssumption, UnassignedAssumption DEF Init, TypeOK, Indices, Width
<1>2. SlotsInv
  BY DEF Init, SlotsInv, Knows
<1>3. ConsentsInv
  BY FS_EmptySet DEF Init, ConsentsInv
<1>4. NumbersInv /\ RevocationsInv
  BY DEF Init, NumbersInv, RevocationsInv
<1>5. QED
  BY <1>1, <1>2, <1>3, <1>4 DEF IInv

\* A path is valid if its slot is known: chains and numbers are indices.
LEMMA PathsValid ==
    ASSUME TypeOK, NEW c, Pair(c)
    PROVE  /\ ValidPath(At(c.grantor, c.grantee, c))
           /\ Slot(c) \in Indices /\ identifiers[c.grantee][c.grantor] \in Indices
BY ChainsAssumption DEF TypeOK, Pair, Knows, ValidPath, At, Slot

\* A step that only assigns slots or passes extended keys on leaves every record as it was.
LEMMA RecordsStay ==
    ASSUME IInv, UNCHANGED <<consentCounters, consents, revocations>>,
           \A p \in Parties: \A i \in Parties \union Others:
              Knows(p, i) => identifiers'[p][i] = identifiers[p][i]
    PROVE  /\ ConsentsInv' /\ NumbersInv' /\ RevocationsInv'
           /\ \A c \in (consents \union revocations)':
                 Pair(c) /\ ValidPath(At(c.grantor, c.grantee, c))'
<1>1. ASSUME NEW c, Pair(c)
      PROVE  /\ Pair(c)'
             /\ Slot(c)' = Slot(c)
             /\ identifiers'[c.grantee][c.grantor] = identifiers[c.grantee][c.grantor]
             /\ ValidPath(At(c.grantor, c.grantee, c))'
  <2>1. /\ Knows(c.grantor, c.grantee)' /\ Knows(c.grantee, c.grantor)'
        /\ Slot(c)' = Slot(c)
        /\ identifiers'[c.grantee][c.grantor] = identifiers[c.grantee][c.grantor]
    BY <1>1 DEF Pair, Knows, Slot
  <2>2. At(c.grantor, c.grantee, c)' = At(c.grantor, c.grantee, c)
    BY <2>1 DEF At, Slot
  <2>3. QED
    BY <1>1, <2>1, <2>2, PathsValid DEF Pair, IInv, ValidPath
<1>2. ConsentsInv'
  BY <1>1 DEF IInv, ConsentsInv
<1>3. NumbersInv'
  BY DEF IInv, NumbersInv
<1>4. RevocationsInv'
  <2>1. ASSUME NEW r \in revocations
        PROVE  /\ r.revoker \in {r.grantor, r.grantee}
               /\ identifiers'[r.revoker][Other(r.revoker, r)]
                    = identifiers[r.revoker][Other(r.revoker, r)]
               /\ identifiers'[Other(r.revoker, r)][r.revoker]
                    = identifiers[Other(r.revoker, r)][r.revoker]
    <3>1. Pair(r) /\ r.revoker \in {r.grantor, r.grantee}
      BY DEF IInv, RevocationsInv, IsRevocation
    <3>2. QED
      BY <1>1, <3>1 DEF Other, Slot
  <2>2. QED
    BY <1>1, <2>1 DEF IInv, RevocationsInv
<1>5. ASSUME NEW c \in (consents \union revocations)'
      PROVE  Pair(c) /\ ValidPath(At(c.grantor, c.grantee, c))'
  <2>1. Pair(c)
    BY <1>5 DEF IInv, ConsentsInv, RevocationsInv
  <2>2. QED
    BY <1>1, <2>1
<1>6. QED
  BY <1>2, <1>3, <1>4, <1>5

LEMMA LookupKeeps ==
    ASSUME IInv, NEW p \in Parties, NEW i \in Parties \union Others, LookupOrCreate(p, i)
    PROVE  IInv'
<1>1. ASSUME NEW a \in Parties, NEW b \in Parties \union Others
      PROVE  /\ identifiers'[a][b] = IF a = p /\ b = i THEN nextPartyNo[p]
                                                       ELSE identifiers[a][b]
             /\ nextPartyNo'[a] = IF a = p THEN nextPartyNo[p] + 1 ELSE nextPartyNo[a]
  BY DEF IInv, TypeOK, LookupOrCreate
<1>2. nextPartyNo[p] \in Indices /\ nextPartyNo[p] + 1 \in 0 .. MaxIndex + 1
  BY MaxIndexAssumption DEF IInv, TypeOK, LookupOrCreate, Indices
<1>3. ASSUME NEW a \in Parties, NEW b \in Parties \union Others, Knows(a, b)
      PROVE  identifiers'[a][b] = identifiers[a][b]
  BY <1>1, <1>3 DEF LookupOrCreate
<1>4. /\ ConsentsInv' /\ NumbersInv' /\ RevocationsInv'
      /\ \A c \in (consents \union revocations)':
            Pair(c) /\ ValidPath(At(c.grantor, c.grantee, c))'
  BY <1>3, RecordsStay DEF LookupOrCreate
<1>5. TypeOK'
  <2>1. identifiers' \in [Parties -> [Parties \union Others -> Indices \union {Unassigned}]]
    BY <1>2 DEF IInv, TypeOK, LookupOrCreate
  <2>2. nextPartyNo' \in [Parties -> 0 .. MaxIndex + 1]
    BY <1>2 DEF IInv, TypeOK, LookupOrCreate
  <2>3. consentCounters' \in [Parties -> [(0 .. Width - 1) \X Chains -> 0 .. MaxIndex + 1]]
    BY DEF IInv, TypeOK, LookupOrCreate
  <2>4. ASSUME NEW a \in Parties, NEW b \in Parties, xpubs'[a][b] # Failed
        PROVE  Knows(b, a)' /\ xpubs'[a][b] = DeriveOtherPartyKey(b, identifiers'[b][a])
    <3>1. Knows(b, a) /\ xpubs'[a][b] = DeriveOtherPartyKey(b, identifiers[b][a])
      BY <2>4 DEF IInv, TypeOK, LookupOrCreate
    <3>2. QED
      BY <1>3, <3>1 DEF Knows
  <2>5. QED
    BY <1>4, <2>1, <2>2, <2>3, <2>4 DEF TypeOK, Pair
<1>6. SlotsInv'
  <2>1. xpubs' = [a \in Parties |-> [b \in Parties |-> xpubs'[a][b]]]
    BY DEF IInv, SlotsInv, LookupOrCreate
  <2>2. ASSUME NEW a \in Parties, NEW b \in Parties \union Others, Knows(a, b)'
        PROVE  identifiers'[a][b] < nextPartyNo'[a]
    <3>1. CASE a = p /\ b = i
      BY <1>1, <1>2, <3>1 DEF Indices
    <3>2. CASE ~(a = p /\ b = i)
      <4>1. identifiers[a][b] < nextPartyNo[a] /\ identifiers[a][b] \in Indices
        BY <1>1, <2>2, <3>2 DEF IInv, SlotsInv, Knows, TypeOK
      <4>2. QED
        BY <1>1, <3>2, <4>1 DEF Indices, IInv, TypeOK
    <3>3. QED
      BY <3>1, <3>2
  <2>3. ASSUME NEW a \in Parties, NEW b \in Parties \union Others, NEW d \in Parties \union Others,
               Knows(a, b)', identifiers'[a][b] = identifiers'[a][d]
        PROVE  b = d
    <3>1. \A e \in Parties \union Others: Knows(a, e) => identifiers[a][e] < nextPartyNo[a]
      BY DEF IInv, SlotsInv
    <3>2. \A e \in Parties \union Others: Knows(a, e) => identifiers[a][e] \in Indices
      BY DEF IInv, TypeOK, Knows
    <3>3. Knows(a, d)'
      BY <2>3 DEF Knows
    <3>4. CASE a = p /\ b = i
      <4>1. identifiers'[a][d] = nextPartyNo[p]
        BY <1>1, <2>3, <3>4
      <4>2. QED
        BY <1>1, <1>2, <3>1, <3>2, <3>3, <3>4, <4>1 DEF Indices, Knows
    <3>5. CASE a = p /\ d = i
      <4>1. identifiers'[a][b] = nextPartyNo[p]
        BY <1>1, <2>3, <3>5
      <4>2. QED
        BY <1>1, <1>2, <2>3, <3>1, <3>2, <3>5, <4>1 DEF Indices, Knows
    <3>6. CASE a # p \/ (b # i /\ d # i)
      BY <1>1, <2>3, <3>6 DEF IInv, SlotsInv, Knows
    <3>7. QED
      BY <3>4, <3>5, <3>6
  <2>4. QED
    BY <2>1, <2>2, <2>3 DEF SlotsInv
<1>7. QED
  BY <1>4, <1>5, <1>6 DEF IInv

LEMMA HandleXpubRequestKeeps ==
    ASSUME IInv, NEW p \in Parties, NEW q \in Parties, HandleXpubRequest(q, p)
    PROVE  IInv'
<1>1. UNCHANGED <<identifiers, nextPartyNo, consentCounters, consents, revocations>>
  BY DEF HandleXpubRequest, registry
<1>2. /\ ConsentsInv' /\ NumbersInv' /\ RevocationsInv'
      /\ \A c \in (consents \union revocations)':
            Pair(c) /\ ValidPath(At(c.grantor, c.grantee, c))'
  BY <1>1, RecordsStay
<1>3. /\ DOMAIN xpubs' = Parties
      /\ \A a \in Parties: xpubs'[a] = [b \in Parties |-> xpubs'[a][b]]
      /\ xpubs'[p][q] = DeriveOtherPartyKey(q, identifiers[q][p])
      /\ \A a, b \in Parties: ~(a = p /\ b = q) => xpubs'[a][b] = xpubs[a][b]
  BY DEF IInv, SlotsInv, HandleXpubRequest
<1>4. TypeOK'
  <2>1. \A a, b \in Parties: xpubs'[a][b] # Failed =>
           Knows(b, a) /\ xpubs'[a][b] = DeriveOtherPartyKey(b, identifiers[b][a])
    BY <1>3 DEF IInv, TypeOK, HandleXpubRequest
  <2>2. QED
    BY <1>1, <1>2, <2>1 DEF IInv, TypeOK, Pair, Knows
<1>5. SlotsInv'
  <2>1. xpubs' = [a \in Parties |-> [b \in Parties |-> xpubs'[a][b]]]
    <3>1. xpubs' = [a \in Parties |-> xpubs'[a]]
      BY <1>3 DEF HandleXpubRequest
    <3>2. [a \in Parties |-> xpubs'[a]] = [a \in Parties |-> [b \in Parties |-> xpubs'[a][b]]]
      BY <1>3
    <3>3. QED
      BY <3>1, <3>2, Zenon
  <2>2. QED
    BY <1>1, <2>1 DEF IInv, SlotsInv, Knows
<1>6. QED
  BY <1>2, <1>4, <1>5 DEF IInv

\* What a grant adds: a consent whose number is the counter's.
LEMMA Granted ==
    ASSUME FailedIsNoRecord, IInv, NEW p \in Parties, NEW q \in Parties, NEW chain \in Chains,
           NEW contract, NEW scheme, NEW withXpub,
           Grant(p, q, chain, contract, scheme, withXpub)
    PROVE  \E n:
              /\ consents' = consents \union {n}
              /\ n.grantor = p /\ n.grantee = q /\ n.chain = chain
              /\ n.no = consentCounters[p][<<identifiers[p][q], chain>>]
              /\ p # q /\ Pair(n)
              /\ IsConsent(n, Slot(n), identifiers[q][p])
<1>1. PICK s, s2: s = identifiers[p][q] /\ s2 = identifiers[q][p]
  OBVIOUS
<1>2. PICK c: c = [grantor |-> p, grantee |-> q, chain |-> chain, contract |-> contract,
                   no |-> consentCounters[p][<<s, chain>>], scheme |-> scheme]
  OBVIOUS
<1>3. PICK at, at2, data:
        at = At(p, q, c) /\ at2 = At(q, p, c) /\ data = Permission(p, at, withXpub)
  OBVIOUS
<1>4. PICK n: n = [f \in DOMAIN c \union {"data", "request"} |->
                     IF f = "data" THEN data
                     ELSE IF f = "request" THEN SealConsent(p, q, c, data) ELSE c[f]]
  OBVIOUS
<1>5. /\ consents' = consents \union {n}
      /\ p # q /\ CanSealFor(p, q, scheme) /\ ValidPath(at)
  BY <1>1, <1>2, <1>3, <1>4 DEF Grant
<1>6. /\ DOMAIN n = ConsentFields
      /\ n.grantor = p /\ n.grantee = q /\ n.chain = chain /\ n.contract = contract
      /\ n.no = c.no /\ n.scheme = scheme /\ n.data = data
      /\ n.request = SealConsent(p, q, c, data)
  <2>1. DOMAIN c = {"grantor", "grantee", "chain", "contract", "no", "scheme"}
    BY <1>2
  <2>2. QED
    BY <1>2, <1>4, <2>1 DEF ConsentFields
<1>7. at = View(s, n) /\ at2 = View(s2, n)
  BY <1>1, <1>2, <1>3, <1>6 DEF At, View
<1>8. /\ Knows(p, q) /\ Knows(q, p)
      /\ scheme = "EC" => xpubs[p][q] = DeriveOtherPartyKey(q, s2)
  BY <1>1, <1>5 DEF CanSealFor, IInv, TypeOK
<1>9. IsPermission(data, p, at)
  BY <1>3, PermissionMade
<1>10. scheme = "EC" => n.request = MarshalConsentRequestEC(
          EncryptSignConsentEC(p, data,
              DerivePublicKeyFromParent(DeriveOtherPartyKey(q, s2), at,
                                        EncryptConsentStructure), at))
  BY <1>2, <1>3, <1>6, <1>8 DEF SealConsent, PublicKeyOf
<1>11. scheme # "EC" => n.request = MarshalConsentRequestPQ(
          EncryptSignConsentPQ(p, Entropy, data,
              <<DerivePQKeyPair(p, at, PQDeriveConsent),
                DerivePQKeyPair(q, at2, PQDeriveConsent)>>, at))
  BY <1>2, <1>3, <1>6 DEF SealConsent, PQKeys
<1>12. PICK e: e = Entropy
  OBVIOUS
<1>13. IsConsent(n, s, s2)
  BY <1>5, <1>6, <1>7, <1>9, <1>10, <1>11, <1>12, ConsentMade
<1>14. Pair(n) /\ Slot(n) = s
  BY <1>1, <1>2, <1>3, <1>5, <1>6, <1>8 DEF Pair, Slot, ValidPath, At
<1>15. QED
  BY <1>1, <1>2, <1>5, <1>6, <1>13, <1>14

LEMMA GrantKeeps ==
    ASSUME FailedIsNoRecord, IInv, NEW p \in Parties, NEW q \in Parties, NEW chain \in Chains,
           NEW contract, NEW scheme, NEW withXpub,
           Grant(p, q, chain, contract, scheme, withXpub)
    PROVE  IInv'
<1>1. PICK s, k: s = identifiers[p][q] /\ k = <<s, chain>>
  OBVIOUS
<1>2. PICK n:
        /\ consents' = consents \union {n}
        /\ n.grantor = p /\ n.grantee = q /\ n.chain = chain /\ n.no = consentCounters[p][k]
        /\ p # q /\ Pair(n) /\ IsConsent(n, Slot(n), identifiers[q][p])
  BY <1>1, Granted
<1>3. UNCHANGED <<identifiers, nextPartyNo, xpubs, revocations>>
  BY DEF Grant
<1>4. s \in Indices /\ Slot(n) = s /\ k \in (0 .. Width - 1) \X Chains
  <2>1. Slot(n) = s /\ s \in Indices
    BY <1>1, <1>2, PathsValid DEF Slot, IInv
  <2>2. QED
    BY <1>1, <2>1, MaxIndexAssumption DEF Indices, Width
<1>5. /\ consentCounters[p][k] <= MaxIndex
      /\ consentCounters' = [consentCounters EXCEPT ![p][k] = @ + 1]
  BY <1>1 DEF Grant, NextConsentNumber
<1>6. consentCounters[p][k] \in 0 .. MaxIndex
  BY <1>4, <1>5, MaxIndexAssumption DEF IInv, TypeOK
<1>7. ASSUME NEW a \in Parties, NEW j \in (0 .. Width - 1) \X Chains
      PROVE  consentCounters'[a][j] = IF a = p /\ j = k THEN consentCounters[p][k] + 1
                                                      ELSE consentCounters[a][j]
  BY <1>4, <1>5 DEF IInv, TypeOK
<1>8. ASSUME NEW c \in consents
      PROVE  /\ Pair(c) /\ Slot(c) \in Indices
             /\ <<Slot(c), c.chain>> \in (0 .. Width - 1) \X Chains
             /\ c.no < consentCounters[c.grantor][<<Slot(c), c.chain>>]
  <2>1. Pair(c) /\ c.no < consentCounters[c.grantor][<<Slot(c), c.chain>>]
    BY DEF IInv, ConsentsInv
  <2>2. Slot(c) \in Indices
    BY <2>1, PathsValid DEF IInv
  <2>3. QED
    BY <2>1, <2>2, MaxIndexAssumption DEF Pair, Indices, Width
<1>9. TypeOK'
  <2>1. consentCounters' \in [Parties -> [(0 .. Width - 1) \X Chains -> 0 .. MaxIndex + 1]]
    <3>1. consentCounters[p][k] + 1 \in 0 .. MaxIndex + 1
      BY <1>6, MaxIndexAssumption
    <3>2. QED
      BY <1>4, <1>5, <3>1 DEF IInv, TypeOK
  <2>2. ASSUME NEW c \in (consents \union revocations)'
        PROVE  /\ c.grantor \in Parties /\ c.grantee \in Parties
               /\ ValidPath(At(c.grantor, c.grantee, c))'
    <3>1. Pair(c)
      BY <1>2, <1>3, <2>2 DEF IInv, ConsentsInv, RevocationsInv
    <3>2. At(c.grantor, c.grantee, c)' = At(c.grantor, c.grantee, c)
      BY <1>3 DEF At
    <3>3. QED
      BY <3>1, <3>2, PathsValid DEF IInv, Pair, ValidPath
  <2>3. QED
    BY <1>3, <2>1, <2>2 DEF IInv, TypeOK, Knows
<1>10. SlotsInv'
  BY <1>3 DEF IInv, SlotsInv, Knows
<1>11. ConsentsInv'
  <2>1. IsFiniteSet(consents')
    BY <1>2, FS_AddElement DEF IInv, ConsentsInv
  <2>2. ASSUME NEW c \in consents
        PROVE  /\ Pair(c)' /\ IsConsent(c, Slot(c)', identifiers'[c.grantee][c.grantor])
               /\ c.no < consentCounters'[c.grantor][<<Slot(c)', c.chain>>]
    <3>1. Slot(c)' = Slot(c) /\ Pair(c)'
      BY <1>3, <1>8 DEF Slot, Pair, Knows
    <3>2. PICK j, m: j = <<Slot(c), c.chain>> /\ m = consentCounters[c.grantor][j]
      OBVIOUS
    <3>3. c.grantor \in Parties /\ c.no \in Int /\ m \in Int /\ c.no < m
      BY <1>8, <3>2 DEF Pair, Indices, IInv, TypeOK
    <3>4. c.no < consentCounters'[c.grantor][j]
      BY <1>6, <1>7, <1>8, <3>2, <3>3
    <3>5. IsConsent(c, Slot(c), identifiers[c.grantee][c.grantor])
      BY DEF IInv, ConsentsInv
    <3>6. QED
      BY <1>3, <3>1, <3>2, <3>4, <3>5
  <2>3. /\ Pair(n)' /\ IsConsent(n, Slot(n)', identifiers'[n.grantee][n.grantor])
        /\ n.no < consentCounters'[n.grantor][<<Slot(n)', n.chain>>]
    <3>1. Slot(n)' = Slot(n) /\ Pair(n)'
      BY <1>2, <1>3 DEF Slot, Pair, Knows
    <3>2. consentCounters'[p][k] = consentCounters[p][k] + 1
      BY <1>4, <1>7
    <3>3. QED
      BY <1>1, <1>2, <1>3, <1>4, <1>6, <3>1, <3>2
  <2>4. QED
    BY <1>2, <2>1, <2>2, <2>3 DEF ConsentsInv
<1>12. NumbersInv'
  <2>1. ASSUME NEW c \in consents, c.grantor = p, c.grantee = q, c.chain = chain, c.no = n.no
        PROVE  FALSE
    <3>1. Slot(c) = s
      BY <1>1, <2>1 DEF Slot
    <3>2. c.no < consentCounters[p][k]
      BY <1>1, <1>8, <2>1, <3>1
    <3>3. QED
      BY <1>2, <1>6, <2>1, <3>2
  <2>2. QED
    BY <1>2, <2>1 DEF IInv, NumbersInv
<1>13. RevocationsInv'
  <2>1. ASSUME NEW r \in revocations
        PROVE  Pair(r)'
    BY <1>3 DEF IInv, RevocationsInv, Pair, Knows
  <2>2. QED
    BY <1>2, <1>3, <2>1 DEF IInv, RevocationsInv
<1>14. QED
  BY <1>9, <1>10, <1>11, <1>12, <1>13 DEF IInv

\* Who opens a consent: its grantor, and its grantee unless that one shared its root.
LEMMA ConsentOpens ==
    ASSUME FailedIsNoRecord, IInv, NEW c \in consents
    PROVE  /\ OpenConsent(c.grantor, c) = c.data
           /\ OpenConsent(c.grantee, c) =
                 IF c.scheme = "EC" /\ identifiers[c.grantee][c.grantor] = 0
                 THEN Failed ELSE c.data
<1>1. PICK s, s2, at, at2, ed:
        /\ s = Slot(c) /\ s2 = identifiers[c.grantee][c.grantor]
        /\ at = View(s, c) /\ at2 = View(s2, c)
        /\ ed = UnmarshalRequest(c).ed
  OBVIOUS
<1>2. /\ c.grantor # c.grantee
      /\ IsSealed(ed, c.scheme, c.data, c.grantor, at, c.grantee, at2, ConsentUse)
  BY <1>1 DEF IInv, ConsentsInv, IsConsent
<1>3. /\ At(c.grantor, c.grantee, c) = at /\ At(c.grantee, c.grantor, c) = at2
      /\ at.chain = at2.chain /\ at.no = at2.no /\ at.contract = at2.contract
      /\ at2.slot = s2
  BY <1>1 DEF At, View, Slot
<1>4. /\ Opened(ed, c.scheme, c.grantor, at, ConsentUse) = c.data
      /\ Opened(ed, c.scheme, c.grantee, at2, ConsentUse) =
            IF c.scheme = "EC" /\ s2 = 0 THEN Failed ELSE c.data
  BY <1>2, <1>3, SealedOpens
<1>5. /\ OpenConsent(c.grantor, c) = Opened(ed, c.scheme, c.grantor, at, ConsentUse)
      /\ OpenConsent(c.grantee, c) = Opened(ed, c.scheme, c.grantee, at2, ConsentUse)
  BY <1>1, <1>2, <1>3 DEF OpenConsent, Other, Opened, ConsentUse, DecryptConsentEC,
     DecryptConsentPQ
<1>6. QED
  BY <1>1, <1>4, <1>5

\* What countersigning does: the consent stays where it is, and its block what it was.
LEMMA Inbound ==
    ASSUME FailedIsNoRecord, IInv, NEW c \in consents, HandleInboundConsent(c)
    PROVE  \E d:
              /\ consents' = (consents \ {c}) \union {d}
              /\ Coordinates(d) = Coordinates(c)
              /\ ConsentBlock(d) = ConsentBlock(c)
              /\ IsConsent(d, Slot(c), identifiers[c.grantee][c.grantor])
<1>1. PICK s, s2: s = Slot(c) /\ s2 = identifiers[c.grantee][c.grantor]
  OBVIOUS
<1>2. IsConsent(c, s, s2)
  BY <1>1 DEF IInv, ConsentsInv
<1>3. PICK d: d = [c EXCEPT !.request = CounterSign(c)] /\ consents' = (consents \ {c}) \union {d}
  BY DEF HandleInboundConsent
<1>4. PICK request:
        request = SignConsentRequest(c.grantee, UnmarshalRequest(c), ConsentBlock(c),
                                     View(s2, c))
  OBVIOUS
<1>5. CounterSign(c) = IF c.scheme = "EC" THEN MarshalConsentRequestEC(request)
                                          ELSE MarshalConsentRequestPQ(request)
  BY <1>1, <1>4 DEF CounterSign, At, View
<1>6. ~(Len(UnmarshalRequest(c).sigs) > 1)
  BY DEF HandleInboundConsent, IsSignedBy
<1>7. QED
  BY <1>1, <1>2, <1>3, <1>4, <1>5, <1>6, CounterSigned

LEMMA HandleInboundConsentKeeps ==
    ASSUME FailedIsNoRecord, IInv, NEW c \in consents, HandleInboundConsent(c)
    PROVE  IInv'
<1>1. PICK d:
        /\ consents' = (consents \ {c}) \union {d}
        /\ Coordinates(d) = Coordinates(c)
        /\ ConsentBlock(d) = ConsentBlock(c)
        /\ IsConsent(d, Slot(c), identifiers[c.grantee][c.grantor])
  BY Inbound
<1>2. UNCHANGED <<identifiers, nextPartyNo, consentCounters, revocations>>
  BY DEF HandleInboundConsent, registry
<1>3. /\ d.grantor = c.grantor /\ d.grantee = c.grantee /\ d.chain = c.chain /\ d.no = c.no
      /\ d.contract = c.contract /\ d.scheme = c.scheme
  BY <1>1 DEF Coordinates
<1>4. /\ Pair(c) /\ Pair(d) /\ Slot(d) = Slot(c)
      /\ \A r \in revocations: Pair(r)
      /\ \A e \in consents: Pair(e)
  BY <1>3 DEF IInv, ConsentsInv, RevocationsInv, Pair, Slot
<1>5. \A e: (Pair(e)' <=> Pair(e)) /\ Slot(e)' = Slot(e)
  BY <1>2 DEF Pair, Slot, Knows
<1>6. \/ xpubs' = xpubs
      \/ xpubs' = [xpubs EXCEPT ![c.grantee][c.grantor]
                     = DeriveOtherPartyKey(c.grantor, Slot(c))]
  <2>1. OpenConsent(c.grantee, c) = c.data
    BY ConsentOpens DEF HandleInboundConsent
  <2>2. PICK payload: payload = UnmarshalFeedPermission(c.data)
    OBVIOUS
  <2>3. IsPermission(c.data, c.grantor, View(Slot(c), c))
    BY DEF IInv, ConsentsInv, IsConsent
  <2>4. "gx" \in DOMAIN payload => payload.gx = DeriveOtherPartyKey(c.grantor, Slot(c))
    BY <2>2, <2>3 DEF IsPermission, View
  <2>5. QED
    BY <2>1, <2>2, <2>4 DEF HandleInboundConsent
<1>7. /\ xpubs' = [a \in Parties |-> [b \in Parties |-> xpubs'[a][b]]]
      /\ \A a, b \in Parties: xpubs'[a][b] = xpubs[a][b]
            \/ /\ a = c.grantee /\ b = c.grantor
               /\ xpubs'[a][b] = DeriveOtherPartyKey(c.grantor, Slot(c))
  <2>1. CASE xpubs' = xpubs
    BY <2>1 DEF IInv, SlotsInv
  <2>2. CASE xpubs' = [xpubs EXCEPT ![c.grantee][c.grantor]
                         = DeriveOtherPartyKey(c.grantor, Slot(c))]
    <3>1. DOMAIN xpubs = Parties /\ \A a \in Parties: xpubs[a] = [b \in Parties |-> xpubs[a][b]]
      BY DEF IInv, SlotsInv
    <3>2. xpubs' = [a \in Parties |-> xpubs'[a]]
      BY <2>2, <3>1
    <3>3. \A a \in Parties: xpubs'[a] = [b \in Parties |-> xpubs'[a][b]]
      BY <2>2, <3>1
    <3>4. [a \in Parties |-> xpubs'[a]] = [a \in Parties |-> [b \in Parties |-> xpubs'[a][b]]]
      BY <3>3
    <3>5. xpubs' = [a \in Parties |-> [b \in Parties |-> xpubs'[a][b]]]
      BY <3>2, <3>4, Zenon
    <3>6. \A a, b \in Parties: xpubs'[a][b] =
             IF a = c.grantee /\ b = c.grantor THEN DeriveOtherPartyKey(c.grantor, Slot(c))
                                               ELSE xpubs[a][b]
      BY <1>4, <2>2, <3>1 DEF Pair
    <3>7. QED
      BY <3>5, <3>6
  <2>3. QED
    BY <1>6, <2>1, <2>2
<1>8. TypeOK'
  <2>1. ASSUME NEW a \in Parties, NEW b \in Parties, xpubs'[a][b] # Failed
        PROVE  Knows(b, a)' /\ xpubs'[a][b] = DeriveOtherPartyKey(b, identifiers'[b][a])
    <3>1. CASE xpubs'[a][b] = xpubs[a][b]
      BY <1>2, <2>1, <3>1 DEF IInv, TypeOK, Knows
    <3>2. CASE /\ a = c.grantee /\ b = c.grantor
               /\ xpubs'[a][b] = DeriveOtherPartyKey(c.grantor, Slot(c))
      BY <1>2, <1>4, <3>2 DEF Pair, Knows, Slot
    <3>3. QED
      BY <1>7, <3>1, <3>2
  <2>2. ASSUME NEW e \in (consents \union revocations)'
        PROVE  /\ e.grantor \in Parties /\ e.grantee \in Parties
               /\ ValidPath(At(e.grantor, e.grantee, e))'
    <3>1. Pair(e)
      BY <1>1, <1>2, <1>4, <2>2
    <3>2. At(e.grantor, e.grantee, e)' = At(e.grantor, e.grantee, e)
      BY <1>2 DEF At
    <3>3. QED
      BY <3>1, <3>2, PathsValid DEF IInv, Pair, ValidPath
  <2>3. QED
    BY <1>2, <2>1, <2>2 DEF IInv, TypeOK
<1>9. SlotsInv'
  BY <1>2, <1>7 DEF IInv, SlotsInv, Knows
<1>10. ConsentsInv'
  <2>1. IsFiniteSet(consents')
    <3>1. IsFiniteSet(consents \ {c})
      BY FS_RemoveElement DEF IInv, ConsentsInv
    <3>2. QED
      BY <1>1, <3>1, FS_AddElement
  <2>2. ASSUME NEW e \in consents'
        PROVE  /\ Pair(e)
               /\ IsConsent(e, Slot(e), identifiers[e.grantee][e.grantor])
               /\ e.no < consentCounters[e.grantor][<<Slot(e), e.chain>>]
    <3>1. CASE e \in consents
      BY <3>1 DEF IInv, ConsentsInv
    <3>2. CASE e = d
      BY <1>1, <1>3, <1>4, <3>2 DEF IInv, ConsentsInv
    <3>3. QED
      BY <1>1, <2>2, <3>1, <3>2
  <2>3. QED
    BY <1>2, <1>5, <2>1, <2>2 DEF ConsentsInv
<1>11. NumbersInv'
  BY <1>1, <1>3 DEF IInv, NumbersInv
<1>12. RevocationsInv'
  <2>1. ASSUME NEW r \in revocations
        PROVE  \E e \in consents': /\ Coordinates(e) = Coordinates(r)
                                   /\ UnmarshalRevocation(r).ccid = GetCid(ConsentBlock(e))
    <3>1. PICK e \in consents: /\ Coordinates(e) = Coordinates(r)
                               /\ UnmarshalRevocation(r).ccid = GetCid(ConsentBlock(e))
      BY DEF IInv, RevocationsInv
    <3>2. CASE e = c
      BY <1>1, <3>1, <3>2
    <3>3. CASE e # c
      BY <1>1, <3>1, <3>3
    <3>4. QED
      BY <3>2, <3>3
  <2>2. QED
    BY <1>2, <1>4, <1>5, <2>1 DEF IInv, RevocationsInv
<1>13. QED
  BY <1>8, <1>9, <1>10, <1>11, <1>12 DEF IInv

\* What a revocation adds: a record of one party, which names the consent's block.
LEMMA Revoked ==
    ASSUME FailedIsNoRecord, IInv, NEW c \in consents, NEW p \in {c.grantor, c.grantee},
           RevokeConsent(p, c)
    PROVE  \E r:
              /\ revocations' = revocations \union {r}
              /\ r.revoker = p /\ Coordinates(r) = Coordinates(c) /\ Pair(r)
              /\ IsRevocation(r, identifiers[p][Other(p, r)], identifiers[Other(p, r)][p])
              /\ UnmarshalRevocation(r).ccid = GetCid(ConsentBlock(c))
<1>1. PICK q, s, s2: q = Other(p, c) /\ s = identifiers[p][q] /\ s2 = identifiers[q][p]
  OBVIOUS
<1>2. PICK at, at2, data, ccid:
        /\ at = At(p, q, c) /\ at2 = At(q, p, c) /\ data = Revocation(p, c, at)
        /\ ccid = GetCid(ConsentBlock(c))
  OBVIOUS
<1>3. PICK r:
        /\ r = [revoker |-> p, grantor |-> c.grantor, grantee |-> c.grantee,
                chain |-> c.chain, contract |-> c.contract, no |-> c.no,
                scheme |-> c.scheme, data |-> data, request |-> SealRevocation(p, q, c, data)]
        /\ revocations' = revocations \union {r}
        /\ CanSealFor(p, q, c.scheme)
  BY <1>1, <1>2 DEF RevokeConsent
<1>4. Pair(c) /\ c.grantor # c.grantee
  BY DEF IInv, ConsentsInv, IsConsent
<1>5. /\ Pair(r) /\ r.grantor # r.grantee /\ r.revoker \in {r.grantor, r.grantee}
      /\ q = Other(r.revoker, r) /\ p \in Parties /\ q \in Parties
      /\ "revoker" \in DOMAIN r
  BY <1>1, <1>3, <1>4 DEF Pair, Other
<1>6. at = View(s, r) /\ at2 = View(s2, r)
  BY <1>1, <1>2, <1>3 DEF At, View
<1>7. c.scheme = "EC" => xpubs[p][q] = DeriveOtherPartyKey(q, s2)
  BY <1>1, <1>3, <1>5 DEF CanSealFor, IInv, TypeOK
<1>8. /\ UnmarshalFeedRevocation(data) # Failed
      /\ HasNotaryBlock(UnmarshalFeedRevocation(data), p, at, EncryptRevokeNotaryBlock)
  BY <1>2, RevocationPayloadMade
<1>9. c.scheme = "EC" => SealRevocation(p, q, c, data) = MarshalRevokeRequestEC(
         EncryptSignRevokeEC(p, data,
             DerivePublicKeyFromParent(DeriveOtherPartyKey(q, s2), at, EncryptRevokeStructure),
             at, ccid))
  BY <1>2, <1>7 DEF SealRevocation, PublicKeyOf
<1>10. c.scheme # "EC" => SealRevocation(p, q, c, data) = MarshalRevokeRequestPQ(
         EncryptSignRevokePQ(p, Entropy, data,
             <<DerivePQKeyPair(p, at, PQDeriveRevoke),
               DerivePQKeyPair(q, at2, PQDeriveRevoke)>>, at, ccid))
  BY <1>2 DEF SealRevocation, PQKeys
<1>11. PICK e: e = Entropy
  OBVIOUS
<1>12. /\ r.revoker = p /\ r.data = data /\ r.scheme = c.scheme
       /\ r.request = SealRevocation(p, q, c, data)
  BY <1>3
<1>13. IsRevocation(r, s, s2) /\ UnmarshalRevocation(r).ccid = ccid
  BY <1>5, <1>6, <1>8, <1>9, <1>10, <1>11, <1>12, RevocationMade
<1>14. Coordinates(r) = Coordinates(c)
  BY <1>3 DEF Coordinates
<1>15. QED
  BY <1>1, <1>2, <1>3, <1>5, <1>12, <1>13, <1>14

LEMMA RevokeConsentKeeps ==
    ASSUME FailedIsNoRecord, IInv, NEW c \in consents, NEW p \in {c.grantor, c.grantee},
           RevokeConsent(p, c)
    PROVE  IInv'
<1>1. PICK r:
        /\ revocations' = revocations \union {r}
        /\ r.revoker = p /\ Coordinates(r) = Coordinates(c) /\ Pair(r)
        /\ IsRevocation(r, identifiers[p][Other(p, r)], identifiers[Other(p, r)][p])
        /\ UnmarshalRevocation(r).ccid = GetCid(ConsentBlock(c))
  BY Revoked
<1>2. UNCHANGED <<identifiers, nextPartyNo, consentCounters, xpubs, consents>>
  BY DEF RevokeConsent, registry
<1>3. \A e: (Pair(e)' <=> Pair(e)) /\ Slot(e)' = Slot(e)
  BY <1>2 DEF Pair, Slot, Knows
<1>4. TypeOK'
  <2>1. ASSUME NEW e \in (consents \union revocations)'
        PROVE  /\ e.grantor \in Parties /\ e.grantee \in Parties
               /\ ValidPath(At(e.grantor, e.grantee, e))'
    <3>1. Pair(e)
      BY <1>1, <1>2, <2>1 DEF IInv, ConsentsInv, RevocationsInv
    <3>2. At(e.grantor, e.grantee, e)' = At(e.grantor, e.grantee, e)
      BY <1>2 DEF At
    <3>3. QED
      BY <3>1, <3>2, PathsValid DEF IInv, Pair, ValidPath
  <2>2. QED
    BY <1>2, <2>1 DEF IInv, TypeOK, Knows
<1>5. SlotsInv' /\ NumbersInv'
  BY <1>2 DEF IInv, SlotsInv, NumbersInv, Knows
<1>6. ConsentsInv'
  BY <1>2, <1>3 DEF IInv, ConsentsInv
<1>7. RevocationsInv'
  BY <1>1, <1>2, <1>3 DEF IInv, RevocationsInv
<1>8. QED
  BY <1>4, <1>5, <1>6, <1>7 DEF IInv

LEMMA StepInv ==
    ASSUME FailedIsNoRecord, IInv, [Next]_vars
    PROVE  IInv'
<1>1. CASE \E p \in Parties, i \in Parties \union Others: LookupOrCreate(p, i)
  BY <1>1, LookupKeeps
<1>2. CASE \E p, q \in Parties: HandleXpubRequest(q, p)
  BY <1>2, HandleXpubRequestKeeps
<1>3. CASE \E p, q \in Parties, chain \in Chains, contract \in Contracts, scheme \in Schemes,
              withXpub \in BOOLEAN: Grant(p, q, chain, contract, scheme, withXpub)
  BY <1>3, GrantKeeps
<1>4. CASE \E c \in consents: HandleInboundConsent(c)
  BY <1>4, HandleInboundConsentKeeps
<1>5. CASE \E c \in consents: \E p \in {c.grantor, c.grantee}: RevokeConsent(p, c)
  BY <1>5, RevokeConsentKeeps
<1>6. CASE UNCHANGED vars
  <2>1. \A e: (Pair(e)' <=> Pair(e)) /\ Slot(e)' = Slot(e)
    BY <1>6 DEF Pair, Slot, Knows, vars
  <2>2. TypeOK'
    BY <1>6 DEF IInv, TypeOK, Knows, At, vars
  <2>3. SlotsInv' /\ NumbersInv'
    BY <1>6 DEF IInv, SlotsInv, NumbersInv, Knows, vars
  <2>4. ConsentsInv' /\ RevocationsInv'
    BY <1>6, <2>1 DEF IInv, ConsentsInv, RevocationsInv, vars
  <2>5. QED
    BY <2>2, <2>3, <2>4 DEF IInv
<1>7. QED
  BY <1>1, <1>2, <1>3, <1>4, <1>5, <1>6 DEF Next

\* The invariant, which everything below follows from.
THEOREM InductiveInvariant ==
    ASSUME FailedIsNoRecord
    PROVE  Spec => []IInv
<1>1. Init => IInv
  BY InitInv
<1>2. IInv /\ [Next]_vars => IInv'
  BY StepInv
<1>3. QED
  BY <1>1, <1>2, PTL DEF Spec

\* Slots, numbers, extended keys and paths, for any number of parties and consents.
THEOREM ExchangeTypeCorrect ==
    ASSUME FailedIsNoRecord
    PROVE  Spec => []TypeOK
<1>1. IInv => TypeOK
  BY DEF IInv
<1>2. QED
  BY <1>1, InductiveInvariant, PTL

-----------------------------------------------------------------------------
(* Keys *)

\* A key pair for ML-KEM has the key it is derived from in it, and is none of those.
LEMMA PairsAreDistinct ==
    ASSUME NEW w, NEW at, NEW purpose, NEW w2, NEW at2, NEW purpose2
    PROVE  /\ DerivePQKeyPair(w, at, purpose) = DerivePQKeyPair(w2, at2, purpose2) =>
                 DeriveKeyFromMaster(w, at, purpose) = DeriveKeyFromMaster(w2, at2, purpose2)
           /\ DerivePQKeyPair(w, at, purpose) # DeriveKeyFromMaster(w2, at2, purpose2)
<1>1. /\ DerivePQKeyPair(w, at, purpose).secret = DeriveKeyFromMaster(w, at, purpose)
      /\ DerivePQKeyPair(w2, at2, purpose2).secret = DeriveKeyFromMaster(w2, at2, purpose2)
  BY DEF DerivePQKeyPair, PulseHKDFPQSeed, PulseHKDF
<1>2. /\ DOMAIN DerivePQKeyPair(w, at, purpose)
           = {"mode", "secret", "transcript", "recipient", "context"}
      /\ DOMAIN DeriveKeyFromMaster(w2, at2, purpose2) = {"parent", "index"}
  BY DEF DerivePQKeyPair, PulseHKDFPQSeed, PulseHKDF, DeriveKeyFromMaster, NewChildKey
<1>3. QED
  BY <1>1, <1>2

LEMMA SealingKeyIs ==
    ASSUME IInv, NEW c \in consents
    PROVE  SealingKey(c) =
              IF c.scheme = "EC"
              THEN DeriveKeyFromMaster(c.grantor, View(Slot(c), c), EncryptConsentStructure)
              ELSE DerivePQKeyPair(c.grantor, View(Slot(c), c), PQDeriveConsent)
<1>1. PICK ed, at, at2:
        /\ ed = UnmarshalRequest(c).ed /\ at = View(Slot(c), c)
        /\ IsSealed(ed, c.scheme, c.data, c.grantor, at, c.grantee, at2, ConsentUse)
  BY DEF IInv, ConsentsInv, IsConsent
<1>2. /\ c.scheme = "EC" => ed.k1 = DeriveKeyFromMaster(c.grantor, at, ConsentUse.ec)
      /\ c.scheme # "EC" => ed.keys[1].fp = DerivePQKeyPair(c.grantor, at, ConsentUse.derive)
  BY <1>1, SealedFields
<1>3. QED
  BY <1>1, <1>2 DEF SealingKey, ConsentUse

\* No party ever seals two consents with one key, whatever it grants to whom and on which
\* chain: slots are given once and numbers are taken once (SealingKeysAreFresh).
THEOREM FreshSealingKeys ==
    ASSUME FailedIsNoRecord
    PROVE  Spec => []SealingKeysAreFresh
<1>1. ASSUME IInv
      PROVE  SealingKeysAreFresh
  <2>1. ASSUME NEW c \in consents, NEW d \in consents, c.grantor = d.grantor,
               SealingKey(c) = SealingKey(d)
        PROVE  c = d
    <3>1. PICK at, at2: at = View(Slot(c), c) /\ at2 = View(Slot(d), d)
      OBVIOUS
    <3>2. /\ SealingKey(c) = IF c.scheme = "EC"
                             THEN DeriveKeyFromMaster(c.grantor, at, EncryptConsentStructure)
                             ELSE DerivePQKeyPair(c.grantor, at, PQDeriveConsent)
          /\ SealingKey(d) = IF d.scheme = "EC"
                             THEN DeriveKeyFromMaster(d.grantor, at2, EncryptConsentStructure)
                             ELSE DerivePQKeyPair(d.grantor, at2, PQDeriveConsent)
      BY <1>1, <3>1, SealingKeyIs
    <3>3. \E u, u2: DeriveKeyFromMaster(c.grantor, at, u) = DeriveKeyFromMaster(d.grantor, at2, u2)
      <4>1. CASE c.scheme = "EC" /\ d.scheme = "EC"
        BY <2>1, <3>2, <4>1
      <4>2. CASE c.scheme # "EC" /\ d.scheme # "EC"
        <5>1. DerivePQKeyPair(c.grantor, at, PQDeriveConsent)
                = DerivePQKeyPair(d.grantor, at2, PQDeriveConsent)
          BY <2>1, <3>2, <4>2
        <5>2. DeriveKeyFromMaster(c.grantor, at, PQDeriveConsent)
                = DeriveKeyFromMaster(d.grantor, at2, PQDeriveConsent)
          BY <5>1, PairsAreDistinct
        <5>3. QED
          BY <5>2
      <4>3. CASE c.scheme = "EC" /\ d.scheme # "EC"
        <5>1. DerivePQKeyPair(d.grantor, at2, PQDeriveConsent)
                # DeriveKeyFromMaster(c.grantor, at, EncryptConsentStructure)
          BY PairsAreDistinct
        <5>2. QED
          BY <2>1, <3>2, <4>3, <5>1
      <4>4. CASE c.scheme # "EC" /\ d.scheme = "EC"
        <5>1. DerivePQKeyPair(c.grantor, at, PQDeriveConsent)
                # DeriveKeyFromMaster(d.grantor, at2, EncryptConsentStructure)
          BY PairsAreDistinct
        <5>2. QED
          BY <2>1, <3>2, <4>4, <5>1
      <4>5. QED
        BY <4>1, <4>2, <4>3, <4>4
    <3>4. at.slot = at2.slot /\ at.chain = at2.chain /\ at.no = at2.no
      BY <3>3, KeysAreDistinct
    <3>5. Slot(c) = Slot(d) /\ c.chain = d.chain /\ c.no = d.no
      BY <3>1, <3>4 DEF View
    <3>6. Pair(c) /\ Pair(d)
      BY <1>1 DEF IInv, ConsentsInv
    <3>7. c.grantee = d.grantee
      BY <1>1, <2>1, <3>5, <3>6 DEF IInv, SlotsInv, Pair, Slot
    <3>8. QED
      BY <1>1, <2>1, <3>5, <3>7 DEF IInv, NumbersInv
  <2>2. QED
    BY <2>1 DEF SealingKeysAreFresh
<1>2. QED
  BY <1>1, InductiveInvariant, PTL

-----------------------------------------------------------------------------
(* Opening *)

LEMMA RevocationOpens ==
    ASSUME FailedIsNoRecord, IInv, NEW r \in revocations, NEW q, q = Other(r.revoker, r)
    PROVE  /\ OpenRevocation(r.revoker, r) = r.data
           /\ OpenRevocation(q, r) =
                 IF r.scheme = "EC" /\ identifiers[q][r.revoker] = 0 THEN Failed ELSE r.data
<1>1. PICK s, s2, at, at2, ed:
        /\ s = identifiers[r.revoker][q] /\ s2 = identifiers[q][r.revoker]
        /\ at = View(s, r) /\ at2 = View(s2, r)
        /\ ed = UnmarshalRevocation(r).ed
  OBVIOUS
<1>2. IsRevocation(r, s, s2)
  BY <1>1 DEF IInv, RevocationsInv
<1>3. /\ r.revoker # q /\ Other(q, r) = r.revoker
      /\ IsSealed(ed, r.scheme, r.data, r.revoker, at, q, at2, RevokeUse)
  BY <1>1, <1>2 DEF IsRevocation, Other
<1>4. /\ At(r.revoker, q, r) = at /\ At(q, r.revoker, r) = at2
      /\ at.chain = at2.chain /\ at.no = at2.no /\ at.contract = at2.contract
      /\ at2.slot = s2
  BY <1>1 DEF At, View
<1>5. /\ Opened(ed, r.scheme, r.revoker, at, RevokeUse) = r.data
      /\ Opened(ed, r.scheme, q, at2, RevokeUse) =
            IF r.scheme = "EC" /\ s2 = 0 THEN Failed ELSE r.data
  BY <1>3, <1>4, SealedOpens
<1>6. /\ OpenRevocation(r.revoker, r) = Opened(ed, r.scheme, r.revoker, at, RevokeUse)
      /\ OpenRevocation(q, r) = Opened(ed, r.scheme, q, at2, RevokeUse)
  BY <1>1, <1>3, <1>4 DEF OpenRevocation, Opened, RevokeUse, DecryptRevokeEC, DecryptRevokePQ
<1>7. QED
  BY <1>1, <1>5, <1>6

\* What one party seals both open, however the registries grow: only a receiver that gave
\* the sealer slot 0, and with it the root's extended key, never opens what is sealed for
\* it with ECDH (OnlySlotZeroIsClosed).
THEOREM ClosedOnlyForSlotZero ==
    ASSUME FailedIsNoRecord
    PROVE  Spec => []OnlySlotZeroIsClosed
<1>1. ASSUME IInv
      PROVE  OnlySlotZeroIsClosed
  <2>1. ASSUME NEW c \in consents
        PROVE  /\ Open(Sealer(c), c) = c.data
               /\ Open(Receiver(c), c) = IF SharedTheRoot(c) THEN Failed ELSE c.data
    <3>1. Sealer(c) = c.grantor /\ Receiver(c) = c.grantee
      BY DEF Sealer, Receiver, Other
    <3>2. QED
      BY <1>1, <3>1, ConsentOpens DEF Open, SharedTheRoot
  <2>2. ASSUME NEW r \in revocations
        PROVE  /\ Open(Sealer(r), r) = r.data
               /\ Open(Receiver(r), r) = IF SharedTheRoot(r) THEN Failed ELSE r.data
    <3>1. r \notin consents
      BY <1>1 DEF IInv, ConsentsInv, RevocationsInv, IsConsent, IsRevocation, ConsentFields
    <3>2. PICK q: q = Other(r.revoker, r)
      OBVIOUS
    <3>3. Sealer(r) = r.revoker /\ Receiver(r) = q
      BY <3>1, <3>2 DEF Sealer, Receiver
    <3>4. /\ OpenRevocation(r.revoker, r) = r.data
          /\ OpenRevocation(q, r) =
                IF r.scheme = "EC" /\ identifiers[q][r.revoker] = 0 THEN Failed ELSE r.data
      BY <1>1, <3>2, RevocationOpens
    <3>5. QED
      BY <3>1, <3>3, <3>4 DEF Open, SharedTheRoot
  <2>3. QED
    BY <2>1, <2>2 DEF OnlySlotZeroIsClosed, Records
<1>2. QED
  BY <1>1, InductiveInvariant, PTL

\* The notary block of every record opens with the notary's key, for a consent, and from
\* the wallet of its author (NotaryBlocksOpen).
THEOREM NotaryBlocksAlwaysOpen ==
    ASSUME FailedIsNoRecord
    PROVE  Spec => []NotaryBlocksOpen
<1>1. ASSUME IInv
      PROVE  NotaryBlocksOpen
  <2>1. ASSUME NEW c \in consents, NEW at, at = At(c.grantor, c.grantee, c)
        PROVE  /\ IsNotaryBlock(DecryptConsentNotaryECAsNotary(NotaryKey, SealedNotaryBlock(c), at))
               /\ IsNotaryBlock(DecryptConsentNotaryEC(c.grantor, SealedNotaryBlock(c), at))
    <3>1. at = View(Slot(c), c)
      BY <2>1 DEF At, View, Slot
    <3>2. HasNotaryBlock(UnmarshalFeedPermission(c.data), c.grantor, at,
                         EncryptConsentNotaryBlock)
      BY <1>1, <3>1 DEF IInv, ConsentsInv, IsConsent, IsPermission
    <3>3. Payload(c) = UnmarshalFeedPermission(c.data)
      BY DEF Payload
    <3>4. QED
      BY <3>2, <3>3, NotaryOpens
      DEF SealedNotaryBlock, DecryptConsentNotaryECAsNotary, DecryptConsentNotaryEC
  <2>2. ASSUME NEW r \in revocations
        PROVE  IsNotaryBlock(DecryptRevokeNotaryEC(r.revoker, SealedNotaryBlock(r),
                                                   At(r.revoker, Receiver(r), r)))
    <3>1. r \notin consents
      BY <1>1 DEF IInv, ConsentsInv, RevocationsInv, IsConsent, IsRevocation, ConsentFields
    <3>2. PICK at: at = At(r.revoker, Receiver(r), r)
      OBVIOUS
    <3>3. at = View(identifiers[r.revoker][Other(r.revoker, r)], r)
      BY <3>1, <3>2 DEF At, View, Receiver, Sealer
    <3>4. HasNotaryBlock(UnmarshalFeedRevocation(r.data), r.revoker, at,
                         EncryptRevokeNotaryBlock)
      BY <1>1, <3>3 DEF IInv, RevocationsInv, IsRevocation
    <3>5. Payload(r) = UnmarshalFeedRevocation(r.data)
      BY <3>1 DEF Payload
    <3>6. QED
      BY <3>2, <3>4, <3>5, NotaryOpens DEF SealedNotaryBlock, DecryptRevokeNotaryEC
  <2>3. QED
    BY <2>1, <2>2 DEF NotaryBlocksOpen
<1>2. QED
  BY <1>1, InductiveInvariant, PTL

-----------------------------------------------------------------------------
(* Verification *)

\* A record's block tells where its consent is: no other has the same.
LEMMA BlocksTellConsents ==
    ASSUME IInv, NEW c \in consents, NEW d \in consents, c.scheme = "EC", d.scheme = "EC",
           ConsentBlock(c) = ConsentBlock(d)
    PROVE  Coordinates(c) = Coordinates(d)
<1>1. PICK ed, ed2: ed = UnmarshalRequest(c).ed /\ ed2 = UnmarshalRequest(d).ed
  OBVIOUS
<1>2. PICK at, at2: at = View(Slot(c), c) /\ at2 = View(Slot(d), d)
  OBVIOUS
<1>3. /\ ed = [sd |-> ed.sd, k1 |-> ed.k1, k2 |-> ed.k2]
      /\ ed.k1 = DeriveKeyFromMaster(c.grantor, at, ConsentUse.ec)
      /\ ed.sd.aad.context.contract = at.contract
  <2>1. PICK at3: IsSealed(ed, c.scheme, c.data, c.grantor, at, c.grantee, at3, ConsentUse)
    BY <1>1, <1>2 DEF IInv, ConsentsInv, IsConsent
  <2>2. QED
    BY <2>1, SealedFields
<1>4. /\ ed2 = [sd |-> ed2.sd, k1 |-> ed2.k1, k2 |-> ed2.k2]
      /\ ed2.k1 = DeriveKeyFromMaster(d.grantor, at2, ConsentUse.ec)
      /\ ed2.sd.aad.context.contract = at2.contract
  <2>1. PICK at3: IsSealed(ed2, d.scheme, d.data, d.grantor, at2, d.grantee, at3, ConsentUse)
    BY <1>1, <1>2 DEF IInv, ConsentsInv, IsConsent
  <2>2. QED
    BY <2>1, SealedFields
<1>5. ed = ed2
  <2>1. MarshalConsentEC(ed) = MarshalConsentEC(ed2)
    BY <1>1 DEF ConsentBlock
  <2>2. UnmarshalConsentEC(MarshalConsentEC(ed)) = ed
        /\ UnmarshalConsentEC(MarshalConsentEC(ed2)) = ed2
    BY <1>3, <1>4, SealedEC
  <2>3. QED
    BY <2>1, <2>2
<1>6. /\ c.grantor = d.grantor
      /\ at.slot = at2.slot /\ at.chain = at2.chain /\ at.no = at2.no
  BY <1>3, <1>4, <1>5, KeysAreDistinct
<1>7. /\ Slot(c) = Slot(d) /\ c.chain = d.chain /\ c.no = d.no
      /\ c.contract = d.contract
  BY <1>2, <1>3, <1>4, <1>5, <1>6 DEF View
<1>8. Pair(c) /\ Pair(d)
  BY DEF IInv, ConsentsInv
<1>9. c.grantee = d.grantee
  BY <1>6, <1>7, <1>8 DEF IInv, SlotsInv, Pair, Slot
<1>10. QED
  BY <1>6, <1>7, <1>9 DEF Coordinates

\* Whoever signed a consent can revoke it, and nobody else: a revocation verifies against
\* the consent it names exactly if its maker signed that one, and under the contract both
\* were made for, and under no other (RevocationsVerify).
THEOREM OnlySignersRevoke ==
    ASSUME FailedIsNoRecord
    PROVE  Spec => []RevocationsVerify
<1>1. ASSUME IInv
      PROVE  RevocationsVerify
  <2>1. ASSUME NEW r \in revocations, NEW c \in consents, NEW contract \in Contracts,
               r.scheme = "EC", c.scheme = "EC",
               UnmarshalRevocation(r).ccid = GetCid(ConsentBlock(c))
        PROVE  RevokeSignerWasConsentSigner(UnmarshalRevocation(r), UnmarshalRequest(c), contract)
                 <=> contract = c.contract /\ IsSignedBy(r.revoker, c)
    <3>1. PICK revoke, consent:
            revoke = UnmarshalRevocation(r) /\ consent = UnmarshalRequest(c)
      OBVIOUS
    <3>2. Coordinates(c) = Coordinates(r)
      <4>1. PICK d \in consents: /\ Coordinates(d) = Coordinates(r)
                                 /\ revoke.ccid = GetCid(ConsentBlock(d))
        BY <1>1, <3>1 DEF IInv, RevocationsInv
      <4>2. ConsentBlock(c) = ConsentBlock(d)
        BY <2>1, <3>1, <4>1 DEF GetCid
      <4>3. d.scheme = "EC"
        BY <2>1, <4>1 DEF Coordinates
      <4>4. QED
        BY <1>1, <2>1, <4>1, <4>2, <4>3, BlocksTellConsents
    <3>3. /\ c.grantor = r.grantor /\ c.grantee = r.grantee /\ c.chain = r.chain
          /\ c.no = r.no /\ c.contract = r.contract
      BY <3>2 DEF Coordinates
    <3>4. PICK at, at2, k1, k2:
            /\ at = View(Slot(c), c) /\ at2 = View(identifiers[c.grantee][c.grantor], c)
            /\ k1 = SigningKey(c.grantor, at) /\ k2 = SigningKey(c.grantee, at2)
      OBVIOUS
    <3>5. PICK key: key = IF r.revoker = c.grantor THEN k1 ELSE k2
      OBVIOUS
    <3>6. /\ c.grantor # c.grantee /\ r.revoker \in {c.grantor, c.grantee}
          /\ at.contract = c.contract /\ at2.contract = c.contract
      <4>1. c.grantor # c.grantee
        BY <1>1 DEF IInv, ConsentsInv, IsConsent
      <4>2. r.revoker \in {r.grantor, r.grantee}
        BY <1>1 DEF IInv, RevocationsInv, IsRevocation
      <4>3. QED
        BY <3>3, <3>4, <4>1, <4>2 DEF View
    <3>7. k1 # k2
      BY <3>4, <3>6, KeysAreDistinct DEF SigningKey
    <3>8. revoke.sig = SignRequest(key, c.contract,
                                   <<revoke.ccid, GetCid(VerifiedBlock(revoke))>>)
      <4>1. PICK rat: rat = View(identifiers[r.revoker][Other(r.revoker, r)], r)
        OBVIOUS
      <4>2. revoke = [ccid |-> revoke.ccid, ed |-> revoke.ed,
                      sig |-> Signature(r.revoker, rat,
                                <<revoke.ccid, GetCid(RevokeBlock(revoke.ed, revoke.ccid))>>)]
        BY <1>1, <3>1, <4>1 DEF IInv, RevocationsInv, IsRevocation
      <4>3. revoke.sig = Signature(r.revoker, rat,
                            <<revoke.ccid, GetCid(RevokeBlock(revoke.ed, revoke.ccid))>>)
        BY <4>2
      <4>4. SigningKey(r.revoker, rat) = key /\ rat.contract = c.contract
        BY <3>3, <3>4, <3>5, <3>6, <4>1 DEF View, Other, Slot
      <4>5. QED
        BY <4>3, <4>4 DEF Signature, VerifiedBlock
    <3>9. PICK cids: cids = <<GetCid(MarshalConsentEC(consent.ed))>>
      OBVIOUS
    <3>10. \/ consent.sigs = <<SignRequest(k1, c.contract, cids)>>
           \/ consent.sigs = <<SignRequest(k1, c.contract, cids),
                               SignRequest(k2, c.contract, cids)>>
      <4>1. ConsentBlock(c) = MarshalConsentEC(consent.ed)
        BY <2>1, <3>1 DEF ConsentBlock
      <4>2. \/ consent = [ed |-> consent.ed, sigs |-> <<Signature(c.grantor, at, cids)>>]
            \/ consent = [ed |-> consent.ed, sigs |-> <<Signature(c.grantor, at, cids),
                                                        Signature(c.grantee, at2, cids)>>]
        BY <1>1, <3>1, <3>4, <3>9, <4>1 DEF IInv, ConsentsInv, IsConsent
      <4>3. /\ Signature(c.grantor, at, cids) = SignRequest(k1, c.contract, cids)
            /\ Signature(c.grantee, at2, cids) = SignRequest(k2, c.contract, cids)
        BY <3>4, <3>6 DEF Signature
      <4>4. QED
        BY <4>2, <4>3
    <3>11. CASE consent.sigs = <<SignRequest(k1, c.contract, cids)>>
      <4>1. PICK keys: keys = <<k1>>
        OBVIOUS
      <4>2. /\ DOMAIN consent.sigs = DOMAIN keys
            /\ \A i \in DOMAIN keys: consent.sigs[i] = SignRequest(keys[i], c.contract, cids)
            /\ (\E i \in DOMAIN keys: keys[i] = key) <=> key = k1
        BY <3>11, <4>1
      <4>3. RevokeSignerWasConsentSigner(revoke, consent, contract)
              <=> contract = c.contract /\ \E i \in DOMAIN keys: keys[i] = key
        BY <3>8, <3>9, <4>2, RevokersAreSigners
      <4>4. IsSignedBy(r.revoker, c) <=> r.revoker = c.grantor
        <5>1. ~(Len(consent.sigs) > 1)
          BY <3>11
        <5>2. QED
          BY <3>1, <5>1 DEF IsSignedBy
      <4>5. QED
        BY <3>1, <3>5, <3>7, <4>2, <4>3, <4>4
    <3>12. CASE consent.sigs = <<SignRequest(k1, c.contract, cids),
                                 SignRequest(k2, c.contract, cids)>>
      <4>1. PICK keys: keys = <<k1, k2>>
        OBVIOUS
      <4>2. /\ DOMAIN consent.sigs = DOMAIN keys
            /\ \A i \in DOMAIN keys: consent.sigs[i] = SignRequest(keys[i], c.contract, cids)
            /\ \E i \in DOMAIN keys: keys[i] = key
        BY <3>5, <3>12, <4>1
      <4>3. RevokeSignerWasConsentSigner(revoke, consent, contract)
              <=> contract = c.contract /\ \E i \in DOMAIN keys: keys[i] = key
        BY <3>8, <3>9, <4>2, RevokersAreSigners
      <4>4. IsSignedBy(r.revoker, c)
        <5>1. Len(consent.sigs) > 1
          BY <3>12
        <5>2. QED
          BY <3>1, <5>1 DEF IsSignedBy
      <4>5. QED
        BY <3>1, <4>2, <4>3, <4>4
    <3>13. QED
      BY <3>10, <3>11, <3>12
  <2>2. QED
    BY <2>1 DEF RevocationsVerify
<1>2. QED
  BY <1>1, InductiveInvariant, PTL

-----------------------------------------------------------------------------
(* Detection *)

LEMMA V1Fields ==
    ASSUME NEW c, NEW what, NEW names,
           names = IF c.scheme = "EC"
                   THEN IF what = "consent" THEN ConsentStructure ELSE RevokeStructure
                   ELSE IF what = "consent" THEN ConsentStructureMulti
                                            ELSE RevokeStructureMulti
    PROVE  V1Block(c, what) = Fields(V1Block(c, what), names)
<1> DEFINE ed == UnmarshalRequest(c).ed
           content(f) == CASE f = what -> ed.sd
                           [] f = "key1" -> ed.k1
                           [] f = "key2" -> ed.k2
                           [] f = "keys" -> ed.keys
                           [] f = "grant_ref" -> GetCid(ConsentBlock(c))
<1>1. V1Block(c, what) = [f \in names |-> content(f)]
  BY Zenon DEF V1Block
<1> HIDE DEF content
<1>2. QED
  BY <1>1 DEF Fields

\* What IPFS has of every record is detected as what it is, in its version and scheme, and
\* so is what version 1 would have stored; a consent is never taken for a revocation, nor a
\* revocation for a consent (BlocksAreDetected).
THEOREM EveryBlockIsDetected ==
    ASSUME FailedIsNoRecord
    PROVE  Spec => []BlocksAreDetected
<1>1. ASSUME IInv
      PROVE  BlocksAreDetected
  <2>1. ASSUME NEW c \in consents, NEW ed, ed = UnmarshalRequest(c).ed
        PROVE  /\ DecodeConsent(ConsentBlock(c)) =
                    [kind |-> IF c.scheme = "EC" THEN "V2EC" ELSE "V2PQ", record |-> ed]
               /\ UnmarshalConsent(ConsentBlock(c)) = ed
               /\ DecodeRevoke(ConsentBlock(c)) = Failed
    <3>1. PICK at, at2: IsSealed(ed, c.scheme, c.data, c.grantor, at, c.grantee, at2, ConsentUse)
      BY <1>1, <2>1 DEF IInv, ConsentsInv, IsConsent
    <3>2. CASE c.scheme = "EC"
      <4>1. ed = [sd |-> ed.sd, k1 |-> ed.k1, k2 |-> ed.k2]
        BY <3>1, <3>2, SealedFields
      <4>2. PICK block: block = MarshalConsentEC(ed)
        OBVIOUS
      <4>3. /\ DecodeConsent(block) = [kind |-> "V2EC", record |-> ed]
            /\ UnmarshalConsent(block) = ed
            /\ DecodeRevoke(block) = Failed
        BY <4>1, <4>2, ConsentsAreDetected
      <4>4. QED
        BY <2>1, <3>2, <4>2, <4>3 DEF ConsentBlock
    <3>3. CASE c.scheme # "EC"
      <4>1. ed = [sd |-> ed.sd, keys |-> ed.keys]
        BY <3>1, <3>3, SealedFields
      <4>2. PICK block: block = MarshalConsentPQ(ed)
        OBVIOUS
      <4>3. /\ DecodeConsent(block) = [kind |-> "V2PQ", record |-> ed]
            /\ UnmarshalConsent(block) = ed
            /\ DecodeRevoke(block) = Failed
        BY <4>1, <4>2, ConsentsAreDetected
      <4>4. QED
        BY <2>1, <3>3, <4>2, <4>3 DEF ConsentBlock
    <3>4. QED
      BY <3>2, <3>3
  <2>2. ASSUME NEW c \in consents, NEW kind, kind = IF c.scheme = "EC" THEN "V1EC" ELSE "V1PQ",
               NEW consent, consent = V1Block(c, "consent"),
               NEW revoke, revoke = V1Block(c, "revoke")
        PROVE  /\ DecodeConsent(consent) = [kind |-> kind, record |-> consent]
               /\ DecodeRevoke(consent) = Failed
               /\ DecodeRevoke(revoke) = [kind |-> kind, record |-> revoke]
               /\ DecodeConsent(revoke) = Failed
    <3>1. PICK names, names2:
            /\ names = IF c.scheme = "EC" THEN ConsentStructure ELSE ConsentStructureMulti
            /\ names2 = IF c.scheme = "EC" THEN RevokeStructure ELSE RevokeStructureMulti
      OBVIOUS
    <3>2. consent = Fields(consent, names)
      BY <2>2, <3>1, V1Fields
    <3>3. revoke = Fields(revoke, names2)
      BY <2>2, <3>1, V1Fields
    <3>4. /\ DecodeConsent(consent) = [kind |-> kind, record |-> consent]
          /\ DecodeRevoke(consent) = Failed
      BY <2>2, <3>1, <3>2, VersionOneIsDetected
    <3>5. /\ DecodeRevoke(revoke) = [kind |-> kind, record |-> revoke]
          /\ DecodeConsent(revoke) = Failed
      BY <2>2, <3>1, <3>3, VersionOneIsDetected
    <3>6. QED
      BY <3>4, <3>5
  <2>3. ASSUME NEW r \in revocations, NEW payload, payload = UnmarshalRevoke(RevocationBlock(r))
        PROVE  /\ DecodeRevoke(RevocationBlock(r)) =
                    [kind |-> IF r.scheme = "EC" THEN "V2EC" ELSE "V2PQ", record |-> payload]
               /\ payload.gr = UnmarshalRevocation(r).ccid
               /\ payload.sd = UnmarshalRevocation(r).ed.sd
               /\ DecodeConsent(RevocationBlock(r)) = Failed
    <3>1. PICK ed, ccid, block:
            /\ ed = UnmarshalRevocation(r).ed /\ ccid = UnmarshalRevocation(r).ccid
            /\ block = RevokeBlock(ed, ccid)
      OBVIOUS
    <3>2. RevocationBlock(r) = block
      BY <3>1 DEF RevocationBlock
    <3>3. PICK at, at2, q: IsSealed(ed, r.scheme, r.data, r.revoker, at, q, at2, RevokeUse)
      BY <1>1, <3>1 DEF IInv, RevocationsInv, IsRevocation
    <3>4. CASE r.scheme = "EC"
      <4>1. PICK sd, k1, k2: ed = [sd |-> sd, k1 |-> k1, k2 |-> k2]
        BY <3>3, <3>4, SealedFields
      <4>2. PICK keys: keys # <<>>
        OBVIOUS
      <4>3. /\ UnmarshalRevoke(block) = RevokePayload(ed, ccid)
            /\ RevokePayload(ed, ccid).gr = ccid /\ RevokePayload(ed, ccid).sd = ed.sd
            /\ DecodeConsent(block) = Failed
            /\ DecodeRevoke(block) = [kind |-> "V2EC", record |-> RevokePayload(ed, ccid)]
        BY <3>1, <4>1, <4>2, RevocationsAreDetected
      <4>4. QED
        BY <2>3, <3>1, <3>2, <3>4, <4>3
    <3>5. CASE r.scheme # "EC"
      <4>1. ed = [sd |-> ed.sd, keys |-> ed.keys] /\ ed.keys # <<>>
        BY <3>3, <3>5, SealedFields
      <4>2. /\ UnmarshalRevoke(block) = RevokePayload(ed, ccid)
            /\ RevokePayload(ed, ccid).gr = ccid /\ RevokePayload(ed, ccid).sd = ed.sd
            /\ DecodeConsent(block) = Failed
            /\ DecodeRevoke(block) = [kind |-> "V2PQ", record |-> RevokePayload(ed, ccid)]
        BY <3>1, <4>1, RevocationsAreDetected
      <4>3. QED
        BY <2>3, <3>1, <3>2, <3>5, <4>2
    <3>6. QED
      BY <3>4, <3>5
  <2>4. QED
    BY <2>1, <2>2, <2>3 DEF BlocksAreDetected
<1>2. QED
  BY <1>1, InductiveInvariant, PTL

-----------------------------------------------------------------------------
(* Composition with the registry *)

\* p has given the number n under the key k.
Taken(p, k, n) ==
    \E c \in consents: /\ c.grantor = p
                       /\ <<identifiers[p][c.grantee], c.chain>> = k
                       /\ c.no = n

TimesAre ==
    \A p \in Parties:
        TimesOf(p) = [k \in (0 .. Width - 1) \X Chains |-> [n \in 0 .. Width - 1 |->
                        IF Taken(p, k, n) THEN 1 ELSE 0]]

\* Numbers being taken once, they need not be counted.
LEMMA TimesKnown == IInv => TimesAre
<1> SUFFICES ASSUME IInv, NEW p \in Parties
             PROVE  TimesOf(p) = [k \in (0 .. Width - 1) \X Chains |-> [n \in 0 .. Width - 1 |->
                                    IF Taken(p, k, n) THEN 1 ELSE 0]]
  BY DEF TimesAre
<1> DEFINE records(k, n) == {c \in consents : /\ c.grantor = p
                                              /\ <<identifiers[p][c.grantee], c.chain>> = k
                                              /\ c.no = n}
<1>1. ASSUME NEW k, NEW n
      PROVE  Cardinality(records(k, n)) = IF Taken(p, k, n) THEN 1 ELSE 0
  <2>1. CASE Taken(p, k, n)
    <3>1. PICK c \in records(k, n): TRUE
      BY <2>1 DEF Taken
    <3>2. ASSUME NEW d \in records(k, n)
          PROVE  d = c
      <4>1. Pair(c) /\ Pair(d)
        BY <3>1, <3>2 DEF IInv, ConsentsInv
      <4>2. /\ identifiers[p][c.grantee] = identifiers[p][d.grantee]
            /\ c.chain = d.chain /\ c.no = d.no /\ c.grantor = p /\ d.grantor = p
        BY <3>1, <3>2
      <4>3. c.grantee = d.grantee
        BY <4>1, <4>2 DEF IInv, SlotsInv, Pair
      <4>4. QED
        BY <3>1, <3>2, <4>2, <4>3 DEF IInv, NumbersInv
    <3>3. records(k, n) = {c}
      BY <3>1, <3>2
    <3>4. QED
      BY <2>1, <3>3, FS_Singleton
  <2>2. CASE ~Taken(p, k, n)
    <3>1. records(k, n) = {}
      BY <2>2 DEF Taken
    <3>2. QED
      BY <2>2, <3>1, FS_EmptySet
  <2>3. QED
    BY <2>1, <2>2
<1>2. TimesOf(p) = [k \in (0 .. Width - 1) \X Chains |-> [n \in 0 .. Width - 1 |->
                       Cardinality(records(k, n))]]
  BY DEF TimesOf
<1> HIDE DEF records
<1>3. QED
  BY <1>1, <1>2

LEMMA RegistryInit == Init => \A p \in Parties : Registry(p)!Init
<1> SUFFICES ASSUME Init, NEW p \in Parties PROVE Registry(p)!Init
  OBVIOUS
<1>1. TimesOf(p) = [k \in (0 .. Width - 1) \X Chains |-> [n \in 0 .. Width - 1 |-> 0]]
  <2> DEFINE records(k, n) == {c \in consents : /\ c.grantor = p
                                                /\ <<identifiers[p][c.grantee], c.chain>> = k
                                                /\ c.no = n}
  <2>1. ASSUME NEW k, NEW n
        PROVE  Cardinality(records(k, n)) = 0
    <3>1. records(k, n) = {}
      BY DEF Init
    <3>2. QED
      BY <3>1, FS_EmptySet
  <2>2. TimesOf(p) = [k \in (0 .. Width - 1) \X Chains |-> [n \in 0 .. Width - 1 |->
                         Cardinality(records(k, n))]]
    BY DEF TimesOf
  <2> HIDE DEF records
  <2>3. QED
    BY <2>1, <2>2
<1>2. QED
  BY <1>1 DEF Init, Registry!Init, Registry!UInt32, Registry!Width, Width

\* What the registry of p sees of a step that takes no number of p.
LEMMA TimesStay ==
    ASSUME TimesAre, TimesAre', NEW p \in Parties,
           \A k, n: Taken(p, k, n)' <=> Taken(p, k, n)
    PROVE  TimesOf(p)' = TimesOf(p)
<1>1. TimesOf(p) = [k \in (0 .. Width - 1) \X Chains |-> [n \in 0 .. Width - 1 |->
                       IF Taken(p, k, n) THEN 1 ELSE 0]]
  BY DEF TimesAre
<1>2. TimesOf(p)' = [k \in (0 .. Width - 1) \X Chains |-> [n \in 0 .. Width - 1 |->
                       IF Taken(p, k, n)' THEN 1 ELSE 0]]
  BY DEF TimesAre, Width
<1>3. QED
  BY <1>1, <1>2

\* What a step does in the registry of p, if it does nothing there.
LEMMA RegistryIdle ==
    ASSUME TimesAre, TimesAre', NEW p \in Parties,
           UNCHANGED <<identifiers[p], nextPartyNo[p], consentCounters[p]>>,
           \A k, n: Taken(p, k, n)' <=> Taken(p, k, n)
    PROVE  [Registry(p)!Next]_(Registry(p)!vars)
<1>1. TimesOf(p)' = TimesOf(p)
  BY TimesStay
<1>2. QED
  BY <1>1 DEF Registry!vars

LEMMA LookupRegisters ==
    ASSUME IInv, TimesAre, TimesAre', NEW a \in Parties, NEW i \in Parties \union Others,
           LookupOrCreate(a, i), NEW p \in Parties
    PROVE  [Registry(p)!Next]_(Registry(p)!vars)
<1>1. UNCHANGED <<consentCounters, consents>>
  BY DEF LookupOrCreate
<1>2. \A k, n: Taken(p, k, n)' <=> Taken(p, k, n)
  <2>1. ASSUME NEW c \in consents, c.grantor = p
        PROVE  identifiers'[p][c.grantee] = identifiers[p][c.grantee]
    <3>1. Pair(c)
      BY DEF IInv, ConsentsInv
    <3>2. QED
      BY <2>1, <3>1 DEF Pair, Knows, LookupOrCreate, IInv, TypeOK
  <2>2. QED
    BY <1>1, <2>1 DEF Taken
<1>3. CASE p = a
  <2>1. /\ identifiers[p][i] = Unassigned /\ nextPartyNo[p] <= MaxIndex
        /\ identifiers'[p] = [identifiers[p] EXCEPT ![i] = nextPartyNo[p]]
        /\ nextPartyNo'[p] = nextPartyNo[p] + 1
    BY <1>3 DEF LookupOrCreate, Knows, IInv, TypeOK
  <2>2. (nextPartyNo[p] + 1) % (2 * (MaxIndex + 1)) = nextPartyNo[p] + 1
    <3>1. nextPartyNo[p] \in 0 .. MaxIndex
      BY <2>1, MaxIndexAssumption DEF IInv, TypeOK
    <3>2. QED
      BY <3>1, MaxIndexAssumption
  <2>3. TimesOf(p)' = TimesOf(p)
    BY <1>2, TimesStay
  <2>4. Registry(p)!Create(i)
    BY <1>1, <2>1, <2>2, <2>3 DEF Registry!Create, Registry!Increment, Registry!Width
  <2>5. QED
    BY <2>4 DEF Registry!Next
<1>4. CASE p # a
  <2>1. UNCHANGED <<identifiers[p], nextPartyNo[p], consentCounters[p]>>
    BY <1>1, <1>4 DEF LookupOrCreate, IInv, TypeOK
  <2>2. QED
    BY <1>2, <2>1, RegistryIdle
<1>5. QED
  BY <1>3, <1>4

LEMMA GrantRegisters ==
    ASSUME FailedIsNoRecord, IInv, TimesAre, TimesAre', NEW a \in Parties, NEW q \in Parties,
           NEW chain \in Chains, NEW contract, NEW scheme, NEW withXpub,
           Grant(a, q, chain, contract, scheme, withXpub), NEW p \in Parties
    PROVE  [Registry(p)!Next]_(Registry(p)!vars)
<1>1. PICK key, no: key = <<identifiers[a][q], chain>> /\ no = consentCounters[a][key]
  OBVIOUS
<1>2. PICK new:
        /\ consents' = consents \union {new}
        /\ new.grantor = a /\ new.grantee = q /\ new.chain = chain /\ new.no = no
        /\ Pair(new)
  BY <1>1, Granted
<1>3. UNCHANGED <<identifiers, nextPartyNo>>
  BY DEF Grant
<1>4. /\ no <= MaxIndex
      /\ consentCounters' = [consentCounters EXCEPT ![a][key] = @ + 1]
  BY <1>1 DEF Grant, NextConsentNumber
<1>5. /\ key \in (0 .. MaxIndex) \X Chains /\ key \in (0 .. Width - 1) \X Chains
      /\ no \in 0 .. Width - 1 /\ no \in 0 .. MaxIndex
  <2>1. Slot(new) \in Indices /\ Slot(new) = identifiers[a][q]
    BY <1>2, PathsValid DEF Slot, IInv
  <2>2. key \in (0 .. MaxIndex) \X Chains /\ key \in (0 .. Width - 1) \X Chains
    BY <1>1, <2>1, MaxIndexAssumption DEF Indices, Width
  <2>3. no \in 0 .. MaxIndex + 1
    BY <1>1, <2>2 DEF IInv, TypeOK
  <2>4. QED
    BY <1>4, <2>2, <2>3, MaxIndexAssumption DEF Width
<1>6. \A k, n: Taken(p, k, n)' <=> Taken(p, k, n) \/ (p = a /\ k = key /\ n = no)
  <2>1. \A k, n: Taken(p, k, n)' <=>
           \E c \in consents \union {new}: /\ c.grantor = p
                                           /\ <<identifiers[p][c.grantee], c.chain>> = k
                                           /\ c.no = n
    BY <1>2, <1>3 DEF Taken
  <2>2. QED
    BY <1>1, <1>2, <2>1 DEF Taken
<1>7. CASE p = a
  <2>1. ~Taken(p, key, no)
    <3>1. SUFFICES ASSUME NEW c \in consents, c.grantor = p, c.no = no,
                          <<identifiers[p][c.grantee], c.chain>> = key
                   PROVE  FALSE
      BY DEF Taken
    <3>2. c.no < consentCounters[p][key]
      BY <3>1 DEF IInv, ConsentsInv, Slot
    <3>3. QED
      BY <1>1, <1>5, <1>7, <3>1, <3>2
  <2>2. TimesOf(p) = [k \in (0 .. Width - 1) \X Chains |-> [n \in 0 .. Width - 1 |->
                         IF Taken(p, k, n) THEN 1 ELSE 0]]
    BY DEF TimesAre
  <2>3. TimesOf(p)' = [k \in (0 .. Width - 1) \X Chains |-> [n \in 0 .. Width - 1 |->
                         IF Taken(p, k, n)' THEN 1 ELSE 0]]
    BY DEF TimesAre, Width
  <2>4. TimesOf(p)' = [TimesOf(p) EXCEPT ![key][no] = @ + 1]
    <3>1. PICK t, u: t = TimesOf(p) /\ u = TimesOf(p)'
      OBVIOUS
    <3>2. ASSUME NEW k \in (0 .. Width - 1) \X Chains
          PROVE  u[k] = IF k = key THEN [t[k] EXCEPT ![no] = @ + 1] ELSE t[k]
      <4>1. /\ t[k] = [n \in 0 .. Width - 1 |-> IF Taken(p, k, n) THEN 1 ELSE 0]
            /\ u[k] = [n \in 0 .. Width - 1 |-> IF Taken(p, k, n)' THEN 1 ELSE 0]
        BY <2>2, <2>3, <3>1
      <4>2. CASE k # key
        BY <1>6, <4>1, <4>2
      <4>3. CASE k = key
        <5>1. \A n \in 0 .. Width - 1: u[k][n] = IF n = no THEN t[k][n] + 1 ELSE t[k][n]
          BY <1>6, <1>7, <2>1, <4>1, <4>3
        <5>2. /\ u[k] = [n \in 0 .. Width - 1 |-> u[k][n]]
              /\ DOMAIN t[k] = 0 .. Width - 1
          BY <4>1
        <5>3. [t[k] EXCEPT ![no] = @ + 1]
                = [n \in 0 .. Width - 1 |-> IF n = no THEN t[k][n] + 1 ELSE t[k][n]]
          BY <1>5, <5>2
        <5>4. [n \in 0 .. Width - 1 |-> IF n = no THEN t[k][n] + 1 ELSE t[k][n]]
                = [n \in 0 .. Width - 1 |-> u[k][n]]
          BY <5>1
        <5>5. QED
          BY <4>3, <5>2, <5>3, <5>4, Zenon
      <4>4. QED
        BY <4>2, <4>3
    <3>3. QED
      BY <1>5, <2>2, <2>3, <3>1, <3>2
  <2>5. consentCounters'[p] = [consentCounters[p] EXCEPT ![key] = no + 1]
    BY <1>1, <1>4, <1>7 DEF IInv, TypeOK
  <2>6. (no + 1) % (2 * (MaxIndex + 1)) = no + 1
    BY <1>5, MaxIndexAssumption
  <2>7. Registry(p)!NextConsentNumber(key)
    BY <1>1, <1>3, <1>4, <1>7, <2>4, <2>5, <2>6
    DEF Registry!NextConsentNumber, Registry!Increment, Registry!Width
  <2>8. QED
    BY <1>5, <2>7 DEF Registry!Next, Registry!Slots
<1>8. CASE p # a
  <2>1. UNCHANGED <<identifiers[p], nextPartyNo[p], consentCounters[p]>>
    BY <1>3, <1>4, <1>8 DEF IInv, TypeOK
  <2>2. QED
    BY <1>6, <1>8, <2>1, RegistryIdle
<1>9. QED
  BY <1>7, <1>8

LEMMA RegistryStep ==
    ASSUME FailedIsNoRecord, IInv, TimesAre, TimesAre', [Next]_vars
    PROVE  \A p \in Parties : [Registry(p)!Next]_(Registry(p)!vars)
<1> SUFFICES ASSUME NEW p \in Parties PROVE [Registry(p)!Next]_(Registry(p)!vars)
  OBVIOUS
<1>1. CASE \E a \in Parties, i \in Parties \union Others: LookupOrCreate(a, i)
  BY <1>1, LookupRegisters
<1>2. CASE \E a, q \in Parties, chain \in Chains, contract \in Contracts, scheme \in Schemes,
              withXpub \in BOOLEAN: Grant(a, q, chain, contract, scheme, withXpub)
  BY <1>2, GrantRegisters
<1>3. ASSUME UNCHANGED registry, \A k, n: Taken(p, k, n)' <=> Taken(p, k, n)
      PROVE  [Registry(p)!Next]_(Registry(p)!vars)
  BY <1>3, RegistryIdle DEF registry
<1>4. CASE \E a, q \in Parties: HandleXpubRequest(q, a)
  BY <1>3, <1>4 DEF HandleXpubRequest, registry, Taken
<1>5. CASE \E c \in consents: HandleInboundConsent(c)
  <2>1. PICK c \in consents: HandleInboundConsent(c)
    BY <1>5
  <2>2. PICK d: consents' = (consents \ {c}) \union {d} /\ Coordinates(d) = Coordinates(c)
    BY <2>1, Inbound
  <2>3. d.grantor = c.grantor /\ d.grantee = c.grantee /\ d.chain = c.chain /\ d.no = c.no
    BY <2>2 DEF Coordinates
  <2>4. UNCHANGED registry
    BY <2>1 DEF HandleInboundConsent
  <2>5. \A k, n: Taken(p, k, n)' <=> Taken(p, k, n)
    BY <2>2, <2>3, <2>4 DEF Taken, registry
  <2>6. QED
    BY <1>3, <2>4, <2>5
<1>6. CASE \E c \in consents: \E a \in {c.grantor, c.grantee}: RevokeConsent(a, c)
  BY <1>3, <1>6 DEF RevokeConsent, registry, Taken
<1>7. CASE UNCHANGED vars
  BY <1>3, <1>7 DEF vars, registry, Taken
<1>8. QED
  BY <1>1, <1>2, <1>4, <1>5, <1>6, <1>7 DEF Next

\* Each party uses its registry as the registry's own specification says: what the grants
\* and pairings of all the parties do to one party's registry are steps of MemoryRegistry,
\* and so all that is proved there holds of every party's (KeepsRegistry).
THEOREM RegistriesAreKept ==
    ASSUME FailedIsNoRecord
    PROVE  Spec => KeepsRegistry
<1>1. Init => \A p \in Parties : Registry(p)!Init
  BY RegistryInit
<1>2. IInv => TimesAre
  BY TimesKnown
<1>3. (IInv => TimesAre)'
  BY <1>2, PTL
<1>4. IInv /\ IInv' /\ [Next]_vars
        => \A p \in Parties : [Registry(p)!Next]_(Registry(p)!vars)
  BY <1>2, <1>3, RegistryStep
<1>5. IInv /\ IInv' /\ [Next]_vars
        => [\A p \in Parties : [Registry(p)!Next]_(Registry(p)!vars)]_vars
  BY <1>4
<1>6. Spec => []IInv
  BY InductiveInvariant
<1>7. QED
  BY <1>1, <1>5, <1>6, PTL DEF Spec, KeepsRegistry

-----------------------------------------------------------------------------
(* The example programs *)

\* What the proofs about them need of a run.
IsRun(x) ==
    /\ x.alice # x.bob
    /\ x.aliceAt.chain = x.bobAt.chain /\ x.aliceAt.no = x.bobAt.no
    /\ x.aliceAt.contract = x.bobAt.contract

LEMMA RunsAreRuns ==
    ASSUME NEW x \in Runs
    PROVE  IsRun(x)
<1>1. PICK pq \in Parties \X Parties, c \in [chain : Chains, contract : Contracts, no : {0}]:
        /\ pq[1] # pq[2]
        /\ x = [alice |-> pq[1], bob |-> pq[2],
                aliceAt |-> At(pq[1], pq[2], c), bobAt |-> At(pq[2], pq[1], c)]
  BY DEF Runs
<1>2. QED
  BY <1>1 DEF IsRun, At

\* A key that signs is recovered from its own signature.
LEMMA SignerRecovered ==
    ASSUME NEW p, NEW at, NEW cids
    PROVE  GetSigningAddress(Signature(p, at, cids), at.contract, cids)
             = [key |-> SigningKey(p, at)]
BY DEF GetSigningAddress, Signature, SignRequest

LEMMA AddressesOf ==
    ASSUME NEW x, IsRun(x), NEW cids, NEW sigs,
           sigs = <<Signature(x.alice, x.aliceAt, cids), Signature(x.bob, x.bobAt, cids)>>
    PROVE  [i \in DOMAIN sigs |-> GetSigningAddress(sigs[i], x.aliceAt.contract, cids)]
             = TheirAddresses(x)
<1>1. PICK s1, s2, a1, a2:
        /\ s1 = Signature(x.alice, x.aliceAt, cids) /\ s2 = Signature(x.bob, x.bobAt, cids)
        /\ a1 = [key |-> SigningKey(x.alice, x.aliceAt)]
        /\ a2 = [key |-> SigningKey(x.bob, x.bobAt)]
  OBVIOUS
<1>2. /\ GetSigningAddress(s1, x.aliceAt.contract, cids) = a1
      /\ GetSigningAddress(s2, x.aliceAt.contract, cids) = a2
  BY <1>1, SignerRecovered DEF IsRun
<1>3. TheirAddresses(x) = <<a1, a2>>
  BY <1>1 DEF TheirAddresses
<1>4. sigs = <<s1, s2>>
  BY <1>1
<1>5. QED
  BY <1>2, <1>3, <1>4

LEMMA ECRun ==
    ASSUME FailedIsNoRecord, NEW x, IsRun(x)
    PROVE  /\ ECDecryptedByAlice(x) = ConsentData
           /\ ECDecryptedByBob(x) = IF x.bobAt.slot = 0 THEN Failed ELSE ConsentData
           /\ ECSignerAddresses(x) = TheirAddresses(x)
           /\ ECAuthorised(x)
<1>1. PICK ed, cids, s1, s2, request:
        /\ ed = EncryptEC(x.alice, ConsentData, BobPubKey(x, EncryptConsentStructure),
                          EncryptConsentStructure, x.aliceAt)
        /\ cids = <<GetCid(MarshalConsentEC(ed))>>
        /\ s1 = Signature(x.alice, x.aliceAt, cids) /\ s2 = Signature(x.bob, x.bobAt, cids)
        /\ request = [ed |-> ed, sigs |-> <<s1, s2>>]
  OBVIOUS
<1>2. ECSealed(x) = [ed |-> ed, sigs |-> <<s1>>]
  <2>1. PICK block: block = MarshalConsentEC(ed)
    OBVIOUS
  <2>2. SignConsentRequest(x.alice, [ed |-> ed, sigs |-> <<>>], block, x.aliceAt)
          = [ed |-> ed, sigs |-> Append(<<>>, s1)]
    BY <1>1, <2>1, Signed
  <2>3. ECSealed(x) = SignConsentRequest(x.alice, [ed |-> ed, sigs |-> <<>>], block, x.aliceAt)
    BY <1>1, <2>1 DEF ECSealed, EncryptSignConsentEC
  <2>4. QED
    BY <2>2, <2>3, Appended
<1>3. ECConsentRequest(x) = request
  <2>1. PICK sigs, sealed, block:
          /\ sigs = <<s1>> /\ sealed = [ed |-> ed, sigs |-> sigs]
          /\ block = MarshalConsentEC(ed)
    OBVIOUS
  <2>2. sealed.ed = ed /\ sealed.sigs = <<s1>>
    BY <2>1
  <2>3. SignConsentRequest(x.bob, sealed, block, x.bobAt)
          = [ed |-> ed, sigs |-> Append(sigs, s2)]
    <3>1. SignConsentRequest(x.bob, [ed |-> ed, sigs |-> sigs], block, x.bobAt)
            = [ed |-> ed,
               sigs |-> Append(sigs, Signature(x.bob, x.bobAt, <<GetCid(block)>>))]
      BY Signed
    <3>2. QED
      BY <1>1, <2>1, <3>1
  <2>4. ECSealed(x) = sealed /\ MarshalConsentEC(sealed.ed) = block
    BY <1>2, <2>1, <2>2
  <2>5. ECConsentRequest(x) = SignConsentRequest(x.bob, sealed, block, x.bobAt)
    BY <2>4 DEF ECConsentRequest
  <2>6. QED
    BY <1>1, <2>1, <2>3, <2>5, Appended
<1>4. /\ request.ed = ed
      /\ request.sigs = <<s1, s2>>
  BY <1>1
<1>5. /\ ECDecryptedByAlice(x) = ConsentData
      /\ ECDecryptedByBob(x) = IF x.bobAt.slot = 0 THEN Failed ELSE ConsentData
  <2>1. IsSealed(ed, "EC", ConsentData, x.alice, x.aliceAt, x.bob, x.bobAt, ConsentUse)
    BY <1>1 DEF IsSealed, BobPubKey, ConsentUse
  <2>2. /\ Opened(ed, "EC", x.alice, x.aliceAt, ConsentUse) = ConsentData
        /\ Opened(ed, "EC", x.bob, x.bobAt, ConsentUse) =
              IF x.bobAt.slot = 0 THEN Failed ELSE ConsentData
    BY <2>1, SealedOpens DEF IsRun
  <2>3. QED
    BY <1>3, <1>4, <2>2
    DEF ECDecryptedByAlice, ECDecryptedByBob, DecryptConsentEC, Opened, ConsentUse
<1>6. ECSignerAddresses(x) = TheirAddresses(x)
  <2>1. ECSignerAddresses(x)
          = [i \in DOMAIN request.sigs |->
               GetSigningAddress(request.sigs[i], x.aliceAt.contract, cids)]
    BY <1>1, <1>3, <1>4 DEF ECSignerAddresses, ConsentSigners
  <2>2. QED
    BY <1>1, <1>4, <2>1, AddressesOf
<1>7. ECAuthorised(x)
  <2>1. PICK red, ccid, sig, revoke:
          /\ red = EncryptEC(x.alice, RevokeData, BobPubKey(x, EncryptRevokeStructure),
                             EncryptRevokeStructure, x.aliceAt)
          /\ ccid = GetCid(MarshalConsentEC(ed))
          /\ sig = SignRequest(SigningKey(x.alice, x.aliceAt), x.aliceAt.contract,
                               <<ccid, GetCid(RevokeBlock(red, ccid))>>)
          /\ revoke = [ccid |-> ccid, ed |-> red, sig |-> sig]
    OBVIOUS
  <2>2. ECRevokeRequest(x) = revoke
    BY <1>3, <1>4, <2>1 DEF ECRevokeRequest, EncryptSignRevokeEC, SignRevokeRequest
  <2>3. PICK key, keys, contract:
          /\ key = SigningKey(x.alice, x.aliceAt)
          /\ keys = <<key, SigningKey(x.bob, x.bobAt)>>
          /\ contract = x.aliceAt.contract
    OBVIOUS
  <2>4. revoke.sig = SignRequest(key, contract,
                                 <<revoke.ccid, GetCid(VerifiedBlock(revoke))>>)
    BY <2>1, <2>3 DEF VerifiedBlock
  <2>5. DOMAIN request.sigs = DOMAIN keys /\ \E i \in DOMAIN keys: keys[i] = key
    BY <1>4, <2>3
  <2>6. \A i \in DOMAIN keys: request.sigs[i] =
           SignRequest(keys[i], contract, <<GetCid(MarshalConsentEC(request.ed))>>)
    BY <1>1, <1>4, <2>3 DEF Signature, IsRun
  <2>7. RevokeSignerWasConsentSigner(revoke, request, contract)
    BY <2>4, <2>5, <2>6, RevokersAreSigners
  <2>8. QED
    BY <1>3, <2>2, <2>3, <2>7 DEF ECAuthorised
<1>8. QED
  BY <1>5, <1>6, <1>7

\* The EC program shows what it says of any two parties, slots, chain and contract, but for
\* a Bob that has given Alice slot 0 (examples/ec_encrypt_decrypt_sign, ECExampleAuthorises).
THEOREM ECExampleHolds ==
    ASSUME FailedIsNoRecord
    PROVE  Spec => []ECExampleAuthorises
<1>1. ECExampleAuthorises
  BY RunsAreRuns, ECRun DEF ECExampleAuthorises
<1>2. QED
  BY <1>1, PTL

LEMMA PQRun ==
    ASSUME FailedIsNoRecord, NEW x, IsRun(x)
    PROVE  /\ PQDecryptedByAlice(x) = ConsentData /\ PQDecryptedByBob(x) = ConsentData
           /\ PQSignerAddresses(x) = TheirAddresses(x)
           /\ ~PQAuthorised(x)
           /\ LET request == PQRevokeRequest(x) IN
                GetSigningAddress(request.sig, x.aliceAt.contract,
                                  <<request.ccid, GetCid(VerifiedBlock(request))>>)
                  = PQSignerAddresses(x)[1]
<1>1. PICK ed, ccid, s1, s2, request:
        /\ ed = EncryptPQ(1, ConsentData, PQPubKeys(x, PQDeriveConsent), SymmetricConsent,
                          x.aliceAt)
        /\ ccid = GetCid(MarshalConsentPQ(ed))
        /\ s1 = Signature(x.alice, x.aliceAt, <<ccid>>)
        /\ s2 = Signature(x.bob, x.bobAt, <<ccid>>)
        /\ request = [ed |-> ed, sigs |-> <<s1, s2>>]
  OBVIOUS
<1>2. PQSealed(x) = [ed |-> ed, sigs |-> <<s1>>]
  <2>1. PICK block: block = MarshalConsentPQ(ed)
    OBVIOUS
  <2>2. SignConsentRequest(x.alice, [ed |-> ed, sigs |-> <<>>], block, x.aliceAt)
          = [ed |-> ed, sigs |-> Append(<<>>, s1)]
    BY <1>1, <2>1, Signed
  <2>3. PQSealed(x) = SignConsentRequest(x.alice, [ed |-> ed, sigs |-> <<>>], block, x.aliceAt)
    BY <1>1, <2>1 DEF PQSealed, EncryptSignConsentPQ
  <2>4. QED
    BY <2>2, <2>3, Appended
<1>3. PQConsentRequest(x) = request
  <2>1. PICK sigs, sealed, block:
          /\ sigs = <<s1>> /\ sealed = [ed |-> ed, sigs |-> sigs]
          /\ block = MarshalConsentPQ(ed)
    OBVIOUS
  <2>2. sealed.ed = ed /\ sealed.sigs = <<s1>>
    BY <2>1
  <2>3. SignConsentRequest(x.bob, sealed, block, x.bobAt)
          = [ed |-> ed, sigs |-> Append(sigs, s2)]
    <3>1. SignConsentRequest(x.bob, [ed |-> ed, sigs |-> sigs], block, x.bobAt)
            = [ed |-> ed,
               sigs |-> Append(sigs, Signature(x.bob, x.bobAt, <<GetCid(block)>>))]
      BY Signed
    <3>2. QED
      BY <1>1, <2>1, <3>1
  <2>4. PQSealed(x) = sealed /\ MarshalConsentPQ(sealed.ed) = block
    BY <1>2, <2>1, <2>2
  <2>5. PQConsentRequest(x) = SignConsentRequest(x.bob, sealed, block, x.bobAt)
    BY <2>4 DEF PQConsentRequest
  <2>6. QED
    BY <1>1, <2>1, <2>3, <2>5, Appended
<1>4. request.ed = ed /\ request.sigs = <<s1, s2>> /\ PQConsentCid(x) = ccid
  BY <1>1, <1>3 DEF PQConsentCid
<1>5. PQDecryptedByAlice(x) = ConsentData /\ PQDecryptedByBob(x) = ConsentData
  <2>1. ed.keys[1].ekk.seed = 1
    BY <1>1, Encapsulated DEF PQPubKeys
  <2>2. IsSealed(ed, "PQ", ConsentData, x.alice, x.aliceAt, x.bob, x.bobAt, ConsentUse)
    BY <1>1, <2>1 DEF IsSealed, PQPubKeys, ConsentUse
  <2>3. /\ Opened(ed, "PQ", x.alice, x.aliceAt, ConsentUse) = ConsentData
        /\ Opened(ed, "PQ", x.bob, x.bobAt, ConsentUse) = ConsentData
    BY <2>2, SealedOpens DEF IsRun
  <2>4. QED
    BY <1>3, <1>4, <2>3
    DEF PQDecryptedByAlice, PQDecryptedByBob, DecryptConsentPQ, Opened, ConsentUse
<1>6. PQSignerAddresses(x) = TheirAddresses(x)
  <2>1. PQSignerAddresses(x)
          = [i \in DOMAIN request.sigs |->
               GetSigningAddress(request.sigs[i], x.aliceAt.contract, <<ccid>>)]
    BY <1>3, <1>4 DEF PQSignerAddresses
  <2>2. QED
    BY <1>1, <1>4, <2>1, AddressesOf
<1>7. PICK key: key = SigningKey(x.alice, x.aliceAt)
  OBVIOUS
<1>8. PQSignerAddresses(x)[1] = [key |-> key]
  BY <1>6, <1>7 DEF TheirAddresses
<1>9. PICK red, block, sig, revoke:
        /\ red = EncryptPQ(2, RevokeData, PQPubKeys(x, PQDeriveRevoke), SymmetricRevoke,
                           x.aliceAt)
        /\ block = RevokeBlock(red, ccid)
        /\ sig = SignRequest(key, x.aliceAt.contract, <<ccid, GetCid(block)>>)
        /\ revoke = [ccid |-> ccid, ed |-> red, sig |-> sig]
  OBVIOUS
<1>10. PQRevokeRequest(x) = revoke
  BY <1>4, <1>7, <1>9 DEF PQRevokeRequest, EncryptSignRevokePQ, SignRevokeRequest
<1>11. revoke.ccid = ccid /\ revoke.ed = red /\ revoke.sig = sig /\ VerifiedBlock(revoke) = block
  BY <1>9 DEF VerifiedBlock
<1>12. GetSigningAddress(sig, x.aliceAt.contract, <<ccid, GetCid(block)>>) = [key |-> key]
  BY <1>9 DEF GetSigningAddress, SignRequest
<1>13. ~PQAuthorised(x)
  <2>1. MarshalConsentPQ(red) # block
    <3>1. red = [sd |-> red.sd, keys |-> red.keys] /\ red.keys # <<>>
      BY <1>9, Encapsulated DEF PQPubKeys
    <3>2. DecodeConsent(MarshalConsentPQ(red)) = [kind |-> "V2PQ", record |-> red]
      BY <3>1, ConsentsAreDetected
    <3>3. DecodeConsent(block) = Failed
      <4>1. PICK sd, keys: red = [sd |-> sd, keys |-> keys] /\ keys # <<>>
        BY <3>1
      <4>2. QED
        BY <1>9, <4>1, RevocationsAreDetected
    <3>4. [kind |-> "V2PQ", record |-> red] # Failed
      <4>1. [kind |-> "V2PQ", record |-> red]
              = Fields([kind |-> "V2PQ", record |-> red], {"kind", "record"})
        BY DEF Fields
      <4>2. QED
        BY <4>1, FieldsSucceed
    <3>5. QED
      BY <3>2, <3>3, <3>4
  <2>2. PICK contract, cid, cid2:
          /\ contract = x.aliceAt.contract
          /\ cid = GetCid(block) /\ cid2 = GetCid(MarshalConsentPQ(red))
    OBVIOUS
  <2>3. cid # cid2
    BY <2>1, <2>2 DEF GetCid
  <2>4. /\ BuildMessage(contract, <<ccid, cid>>) = <<contract, ccid, cid>>
        /\ BuildMessage(contract, <<ccid, cid2>>) = <<contract, ccid, cid2>>
    BY Messages
  <2>5. BuildMessage(contract, <<ccid, cid>>) # BuildMessage(contract, <<ccid, cid2>>)
    BY <2>3, <2>4
  <2>6. sig = SignRequest(key, contract, <<ccid, cid>>)
    BY <1>9, <2>2
  <2>7. GetSigningAddress(sig, contract, <<ccid, cid2>>) # [key |-> key]
    BY <2>5, <2>6, Recovery
  <2>8. PQRevokeAddress(x) = GetSigningAddress(sig, contract, <<ccid, cid2>>)
    BY <1>10, <1>11, <2>2 DEF PQRevokeAddress
  <2>9. QED
    BY <1>8, <2>7, <2>8 DEF PQAuthorised
<1>14. QED
  BY <1>5, <1>6, <1>8, <1>10, <1>11, <1>12, <1>13

\* The PQ program turns a signer of the consent away, whoever the parties are: its last
\* step asks for a signature of a block that was never signed
\* (examples/pq_encrypt_decrypt_sign, PQExampleTurnsSignerAway).
THEOREM PQExampleHolds ==
    ASSUME FailedIsNoRecord
    PROVE  Spec => []PQExampleTurnsSignerAway
<1>1. PQExampleTurnsSignerAway
  BY RunsAreRuns, PQRun DEF PQExampleTurnsSignerAway
<1>2. QED
  BY <1>1, PTL

=============================================================================
