--------------------------- MODULE ConsentExchange ---------------------------
(***************************************************************************)
(* Parties that grant each other consents and revoke them.  Each has a     *)
(* wallet and a registry of its own, gives counterparties slots and        *)
(* consents numbers as it needs them, and knows others by their extended   *)
(* keys.  The grantor numbers a consent; the grantee finds its own keys    *)
(* under that number in the slot it has given the grantor.                 *)
(*                                                                         *)
(* The module composes the registry with the wallet, sealing, signing and  *)
(* the codecs.  The grantor's side, and all of PQ, is an application's:    *)
(* here it calls the library as the examples do.  The grantee's side of EC *)
(* is the engine's; what becomes of a record there, and what a repeated    *)
(* delivery does to it, is ConsentEngine's subject.                        *)
(***************************************************************************)
EXTENDS SignedRequests, FiniteSets

CONSTANTS
    Parties,         \* owners of wallets
    Others,          \* counterparties whose wallets play no part
    Notary,          \* the owner of the notary's key
    Chains,
    Contracts,
    Schemes,         \* some of "EC" and "PQ"
    Unassigned,
    MaxGrants,       \* bound: consents granted
    MaxRevocations   \* bound: revocations made

ASSUME MaxIndexAssumption == MaxIndex \in Nat
ASSUME ChainsAssumption == Chains \subseteq Indices
ASSUME UnassignedAssumption == Unassigned \notin Int
ASSUME FailedAssumption == Failed \notin Int

VARIABLES
    identifiers,      \* the registry of each party (see MemoryRegistry)
    nextPartyNo,
    consentCounters,
    xpubs,            \* the extended keys that each party knows
    consents,         \* the consents granted, with the request as last signed
    revocations       \* the revocations made

registry == <<identifiers, nextPartyNo, consentCounters>>
vars == <<identifiers, nextPartyNo, consentCounters, xpubs, consents, revocations>>

Width == 2 * (MaxIndex + 1)
NotaryKey == MasterKey(Notary)

Init ==
    /\ identifiers = [p \in Parties |-> [i \in Parties \union Others |-> Unassigned]]
    /\ nextPartyNo = [p \in Parties |-> 0]
    /\ consentCounters = [p \in Parties |-> [k \in (0 .. Width - 1) \X Chains |-> 0]]
    /\ xpubs = [p \in Parties |-> [q \in Parties |-> Failed]]
    /\ consents = {}
    /\ revocations = {}

-----------------------------------------------------------------------------

Knows(p, i) == identifiers[p][i] # Unassigned

\* A consent as p sees it, whose counterparty is q.
At(p, q, c) ==
    [slot |-> identifiers[p][q], chain |-> c.chain, no |-> c.no, contract |-> c.contract]

Other(p, c) == IF p = c.grantor THEN c.grantee ELSE c.grantor

\* Random bytes that nobody drew before.
Entropy == Cardinality(consents) + Cardinality(revocations)

\* The key of q that p derives from the extended key it has.
PublicKeyOf(p, q, at, purpose) == DerivePublicKeyFromParent(xpubs[p][q], at, purpose)

\* ML-KEM keys cannot be derived from an extended key: q sends p its public key.
PQKeys(p, q, c, purpose) ==
    <<DerivePQKeyPair(p, At(p, q, c), purpose), DerivePQKeyPair(q, At(q, p, c), purpose)>>

\* p can name a key of q for the scheme.
CanSealFor(p, q, scheme) ==
    /\ Knows(p, q)
    /\ IF scheme = "EC" THEN xpubs[p][q] # Failed ELSE Knows(q, p)

NotaryBlock == MarshalNotaryBlock([ts |-> Entropy])

-----------------------------------------------------------------------------
(* Pairing *)

\* Slip: a known identifier gets another slot.
CreateAgain(p, i) ==
    /\ i # p
    /\ nextPartyNo[p] <= MaxIndex
    /\ identifiers' = [identifiers EXCEPT ![p][i] = nextPartyNo[p]]
    /\ nextPartyNo' = [nextPartyNo EXCEPT ![p] = @ + 1]
    /\ UNCHANGED <<consentCounters, xpubs, consents, revocations>>

\* LookupOrCreate of an identifier that is not known yet.
LookupOrCreate(p, i) ==
    /\ i # p
    /\ ~Knows(p, i)
    /\ nextPartyNo[p] <= MaxIndex
    /\ identifiers' = [identifiers EXCEPT ![p][i] = nextPartyNo[p]]
    /\ nextPartyNo' = [nextPartyNo EXCEPT ![p] = @ + 1]
    /\ UNCHANGED <<consentCounters, xpubs, consents, revocations>>

\* q answers p's request for its extended key, and p keeps it.
HandleXpubRequest(q, p) ==
    /\ p # q
    /\ Knows(q, p)
    /\ xpubs' = [xpubs EXCEPT ![p][q] = DeriveOtherPartyKey(q, identifiers[q][p])]
    /\ UNCHANGED <<registry, consents, revocations>>

-----------------------------------------------------------------------------
(* Consents *)

\* The payload holds a notary block and, if p likes, its extended key.
Permission(p, at, withXpub) ==
    LET nb == EncryptConsentNotaryEC(p, NotaryBlock, NotaryKey, at)
        mandatory == [cn |-> at.no, en |-> nb.sd, nk1 |-> nb.k1, nk2 |-> nb.k2]
    IN MarshalFeedPermission(
         [f \in DOMAIN mandatory \union (IF withXpub THEN {"gx"} ELSE {}) |->
            IF f = "gx" THEN DeriveOtherPartyKey(p, at.slot) ELSE mandatory[f]])

SealConsent(p, q, c, data) ==
    LET at == At(p, q, c) IN
    IF c.scheme = "EC"
    THEN MarshalConsentRequestEC(
           EncryptSignConsentEC(p, data, PublicKeyOf(p, q, at, EncryptConsentStructure), at))
    ELSE MarshalConsentRequestPQ(
           EncryptSignConsentPQ(p, Entropy, data, PQKeys(p, q, c, PQDeriveConsent), at))

UnmarshalRequest(c) ==
    IF c.scheme = "EC" THEN UnmarshalConsentRequestEC(c.request)
                       ELSE UnmarshalConsentRequestPQ(c.request)

OpenConsent(p, c) ==
    LET at == At(p, Other(p, c), c) IN
    IF c.scheme = "EC" THEN DecryptConsentEC(p, UnmarshalRequest(c), at)
                       ELSE DecryptConsentPQ(p, UnmarshalRequest(c), at)

\* The block that goes to IPFS, and whose CID is the consent's.
ConsentBlock(c) ==
    IF c.scheme = "EC" THEN MarshalConsentEC(UnmarshalRequest(c).ed)
                       ELSE MarshalConsentPQ(UnmarshalRequest(c).ed)

\* Slip: the number taken is not stored.
NextConsentNumberUnstored(p, k) ==
    /\ consentCounters[p][k] <= MaxIndex
    /\ UNCHANGED consentCounters

NextConsentNumber(p, k) ==
    /\ consentCounters[p][k] <= MaxIndex
    /\ consentCounters' = [consentCounters EXCEPT ![p][k] = @ + 1]

\* p takes a number, seals a consent for q and signs it.
Grant(p, q, chain, contract, scheme, withXpub) ==
    LET k == <<identifiers[p][q], chain>>
        c == [grantor |-> p, grantee |-> q, chain |-> chain, contract |-> contract,
              no |-> consentCounters[p][k], scheme |-> scheme]
        data == Permission(p, At(p, q, c), withXpub)
    IN /\ p # q
       /\ Cardinality(consents) < MaxGrants
       /\ CanSealFor(p, q, scheme)
       /\ NextConsentNumber(p, k)
       /\ ValidPath(At(p, q, c))
       /\ consents' = consents \union
            {[f \in DOMAIN c \union {"data", "request"} |->
                IF f = "data" THEN data
                ELSE IF f = "request" THEN SealConsent(p, q, c, data) ELSE c[f]]}
       /\ UNCHANGED <<identifiers, nextPartyNo, xpubs, revocations>>

IsSignedBy(p, c) == p = c.grantor \/ Len(UnmarshalRequest(c).sigs) > 1

CounterSign(c) ==
    LET at == At(c.grantee, c.grantor, c)
        request == SignConsentRequest(c.grantee, UnmarshalRequest(c), ConsentBlock(c), at)
    IN IF c.scheme = "EC" THEN MarshalConsentRequestEC(request)
                          ELSE MarshalConsentRequestPQ(request)

\* The grantee opens the consent, keeps an extended key that comes with it, and signs
\* as well. A consent it cannot open or read is refused.
HandleInboundConsent(c) ==
    LET q == c.grantee
        payload == UnmarshalFeedPermission(OpenConsent(q, c))
    IN /\ ~IsSignedBy(q, c)
       /\ OpenConsent(q, c) # Failed
       /\ payload # Failed
       /\ xpubs' = IF "gx" \in DOMAIN payload
                   THEN [xpubs EXCEPT ![q][c.grantor] = payload.gx] ELSE xpubs
       /\ consents' = (consents \ {c}) \union {[c EXCEPT !.request = CounterSign(c)]}
       /\ UNCHANGED <<registry, revocations>>

-----------------------------------------------------------------------------
(* Revocations *)

Revocation(p, c, at) ==
    LET nb == EncryptRevokeNotaryEC(p, NotaryBlock, NotaryKey, at) IN
    MarshalFeedRevocation([gcid |-> GetCid(ConsentBlock(c)),
                           en |-> nb.sd, nk1 |-> nb.k1, nk2 |-> nb.k2])

SealRevocation(p, q, c, data) ==
    LET at == At(p, q, c)
        ccid == GetCid(ConsentBlock(c))
    IN IF c.scheme = "EC"
       THEN MarshalRevokeRequestEC(
              EncryptSignRevokeEC(p, data, PublicKeyOf(p, q, at, EncryptRevokeStructure),
                                  at, ccid))
       ELSE MarshalRevokeRequestPQ(
              EncryptSignRevokePQ(p, Entropy, data, PQKeys(p, q, c, PQDeriveRevoke),
                                  at, ccid))

UnmarshalRevocation(r) ==
    IF r.scheme = "EC" THEN UnmarshalRevokeRequestEC(r.request)
                       ELSE UnmarshalRevokeRequestPQ(r.request)

OpenRevocation(p, r) ==
    LET at == At(p, Other(p, r), r) IN
    IF r.scheme = "EC" THEN DecryptRevokeEC(p, UnmarshalRevocation(r), at)
                       ELSE DecryptRevokePQ(p, UnmarshalRevocation(r), at)

\* Either party revokes a consent that it can open. Whether it signed the consent is
\* the engine's concern, and that of whoever verifies the revocation.
RevokeConsent(p, c) ==
    LET q == Other(p, c)
        data == Revocation(p, c, At(p, q, c))
    IN /\ Cardinality(revocations) < MaxRevocations
       /\ OpenConsent(p, c) # Failed
       /\ CanSealFor(p, q, c.scheme)
       /\ revocations' = revocations \union
            {[revoker |-> p, grantor |-> c.grantor, grantee |-> c.grantee,
              chain |-> c.chain, contract |-> c.contract, no |-> c.no, scheme |-> c.scheme,
              data |-> data, request |-> SealRevocation(p, q, c, data)]}
       /\ UNCHANGED <<registry, xpubs, consents>>

Next ==
    \/ \E p \in Parties, i \in Parties \union Others : LookupOrCreate(p, i)
    \/ \E p, q \in Parties : HandleXpubRequest(q, p)
    \/ \E p, q \in Parties, chain \in Chains, contract \in Contracts, scheme \in Schemes,
          withXpub \in BOOLEAN : Grant(p, q, chain, contract, scheme, withXpub)
    \/ \E c \in consents : HandleInboundConsent(c)
    \/ \E c \in consents : \E p \in {c.grantor, c.grantee} : RevokeConsent(p, c)

Spec == Init /\ [][Next]_vars

-----------------------------------------------------------------------------
(* Properties *)

\* Slots and numbers are in range, records name known parties, and the extended key
\* a party holds is one that was made for it.
TypeOK ==
    /\ identifiers \in [Parties -> [Parties \union Others -> Indices \union {Unassigned}]]
    /\ nextPartyNo \in [Parties -> 0 .. MaxIndex + 1]
    /\ consentCounters \in
         [Parties -> [(0 .. Width - 1) \X Chains -> 0 .. MaxIndex + 1]]
    /\ \A p, q \in Parties :
         xpubs[p][q] # Failed =>
            Knows(q, p) /\ xpubs[p][q] = DeriveOtherPartyKey(q, identifiers[q][p])
    /\ \A c \in consents \union revocations :
         c.grantor \in Parties /\ c.grantee \in Parties /\ ValidPath(At(c.grantor, c.grantee, c))

Records == consents \union revocations
Open(p, c) == IF c \in consents THEN OpenConsent(p, c) ELSE OpenRevocation(p, c)
Sealer(c) == IF c \in consents THEN c.grantor ELSE c.revoker
Receiver(c) == Other(Sealer(c), c)

\* The receiver gave the sealer slot 0, so that the extended key it shared was the root.
SharedTheRoot(c) == c.scheme = "EC" /\ identifiers[Receiver(c)][Sealer(c)] = 0

\* Counterparties get an extended key so that they "can derive consent encryption keys"
\* (engine.go:46): what one party seals, both open, however the wallets grow. There is
\* one slot whose extended key is the root's, the first that a registry gives out: what is
\* sealed under that one with ECDH is closed to its receiver.
OnlySlotZeroIsClosed ==
    \A c \in Records :
        /\ Open(Sealer(c), c) = c.data
        /\ Open(Receiver(c), c) = IF SharedTheRoot(c) THEN Failed ELSE c.data

\* The payload that is sealed in a record, and the notary block in it.
Payload(c) == IF c \in consents THEN UnmarshalFeedPermission(c.data)
                                ELSE UnmarshalFeedRevocation(c.data)
SealedNotaryBlock(c) ==
    LET payload == Payload(c) IN [sd |-> payload.en, k1 |-> payload.nk1, k2 |-> payload.nk2]

IsNotaryBlock(data) == data # Failed /\ UnmarshalNotaryBlock(data) # Failed

\* The notary opens every notary block with its own key and the consent's coordinates,
\* and its author opens it from the wallet.
NotaryBlocksOpen ==
    /\ \A c \in consents :
         LET at == At(c.grantor, c.grantee, c) IN
         /\ IsNotaryBlock(DecryptConsentNotaryECAsNotary(NotaryKey, SealedNotaryBlock(c), at))
         /\ IsNotaryBlock(DecryptConsentNotaryEC(c.grantor, SealedNotaryBlock(c), at))
    /\ \A r \in revocations :
         IsNotaryBlock(DecryptRevokeNotaryEC(r.revoker, SealedNotaryBlock(r),
                                             At(r.revoker, Receiver(r), r)))

\* A revocation verifies against the consent it names exactly if its maker signed that
\* consent, and under no contract but the one both were made for.
RevocationsVerify ==
    \A r \in revocations, c \in consents, contract \in Contracts :
        /\ r.scheme = "EC" /\ c.scheme = "EC"
        /\ UnmarshalRevocation(r).ccid = GetCid(ConsentBlock(c))
        => (RevokeSignerWasConsentSigner(UnmarshalRevocation(r), UnmarshalRequest(c), contract)
              <=> contract = c.contract /\ IsSignedBy(r.revoker, c))

\* The key of its grantor that a consent is sealed with.
SealingKey(c) ==
    LET ed == UnmarshalRequest(c).ed IN
    IF c.scheme = "EC" THEN ed.k1 ELSE ed.keys[1].fp

\* No party seals two consents with the same key.
SealingKeysAreFresh ==
    \A c, d \in consents : c.grantor = d.grantor /\ SealingKey(c) = SealingKey(d) => c = d

\* The block that goes to IPFS for a revocation.
RevocationBlock(r) ==
    RevokeBlock(UnmarshalRevocation(r).ed, UnmarshalRevocation(r).ccid)

\* The contents of a block as version 1 would have stored them.
V1Block(c, what) ==
    LET ed == UnmarshalRequest(c).ed
        names == IF c.scheme = "EC"
                 THEN IF what = "consent" THEN ConsentStructure ELSE RevokeStructure
                 ELSE IF what = "consent" THEN ConsentStructureMulti ELSE RevokeStructureMulti
    IN [f \in names |-> CASE f = what -> ed.sd
                          [] f = "key1" -> ed.k1
                          [] f = "key2" -> ed.k2
                          [] f = "keys" -> ed.keys
                          [] f = "grant_ref" -> GetCid(ConsentBlock(c))]

\* A block of either version is detected for what it is and read back as it was, and a
\* consent is never taken for a revocation or the other way round.
BlocksAreDetected ==
    /\ \A c \in consents :
         /\ DecodeConsent(ConsentBlock(c)) =
              [kind |-> IF c.scheme = "EC" THEN "V2EC" ELSE "V2PQ",
               record |-> UnmarshalRequest(c).ed]
         /\ UnmarshalConsent(ConsentBlock(c)) = UnmarshalRequest(c).ed
         /\ DecodeRevoke(ConsentBlock(c)) = Failed
         /\ LET kind == IF c.scheme = "EC" THEN "V1EC" ELSE "V1PQ"
                consent == V1Block(c, "consent")
                revoke == V1Block(c, "revoke")
            IN /\ DecodeConsent(consent) = [kind |-> kind, record |-> consent]
               /\ DecodeRevoke(consent) = Failed
               /\ DecodeRevoke(revoke) = [kind |-> kind, record |-> revoke]
               /\ DecodeConsent(revoke) = Failed
    /\ \A r \in revocations :
         LET payload == UnmarshalRevoke(RevocationBlock(r)) IN
         /\ DecodeRevoke(RevocationBlock(r)) =
              [kind |-> IF r.scheme = "EC" THEN "V2EC" ELSE "V2PQ", record |-> payload]
         /\ payload.gr = UnmarshalRevocation(r).ccid
         /\ payload.sd = UnmarshalRevocation(r).ed.sd
         /\ DecodeConsent(RevocationBlock(r)) = Failed

-----------------------------------------------------------------------------
(* Composition *)

\* How often p gave out each number, which is what the registry's history counts.
TimesOf(p) ==
    [k \in (0 .. Width - 1) \X Chains |-> [n \in 0 .. Width - 1 |->
        Cardinality({c \in consents : /\ c.grantor = p
                                      /\ <<identifiers[p][c.grantee], c.chain>> = k
                                      /\ c.no = n})]]

Registry(p) == INSTANCE MemoryRegistry WITH
    Identifiers <- Parties \union Others,
    identifiers <- identifiers[p],
    nextPartyNo <- nextPartyNo[p],
    consentCounters <- consentCounters[p],
    times <- TimesOf(p)

\* Each party uses its registry as the registry's own specification says.
KeepsRegistry ==
    /\ \A p \in Parties : Registry(p)!Init
    /\ [][\A p \in Parties : [Registry(p)!Next]_(Registry(p)!vars)]_vars

=============================================================================
