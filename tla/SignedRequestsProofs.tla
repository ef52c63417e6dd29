------------------------- MODULE SignedRequestsProofs -------------------------
(***************************************************************************)
(* What holds of blocks, signatures and sealed requests whatever they are  *)
(* made of: a request is read back as it was written.                      *)
(***************************************************************************)
EXTENDS SignedRequests, RecordEncryptionProofs, SequenceTheorems

\* An error is not a record of any kind (in Go, the nil beside the error).
FailedIsNoRecord == \A S, T: Failed \notin [S -> T]

-----------------------------------------------------------------------------
(* Blocks *)

LEMMA FieldsSucceed ==
    ASSUME FailedIsNoRecord, NEW r, NEW names
    PROVE  Fields(r, names) # Failed
<1>1. Fields(r, names) \in [names -> {r[f] : f \in names}]
  BY DEF Fields
<1>2. Failed \notin [names -> {r[f] : f \in names}]
  BY Zenon DEF FailedIsNoRecord
<1>3. QED
  BY <1>1, <1>2

\* What was encoded is decoded again, as far as its fields are concerned.
LEMMA DecodeEncode ==
    ASSUME NEW type, NEW names, NEW r, {"t", "v"} \intersect names = {}
    PROVE  /\ Decode(type, names, Encode(type, names, r)) = Fields(r, names)
           /\ \A f \in names: Encode(type, names, r)[f] = r[f]
<1> DEFINE block == Encode(type, names, r)
<1>1. /\ DOMAIN block = names \union {"t", "v"}
      /\ block["t"] = type /\ block["v"] = 1
      /\ \A f \in names: block[f] = r[f]
  BY DEF Encode
<1>2. Fields(block, names) = Fields(r, names)
  BY <1>1 DEF Fields
<1> HIDE DEF block
<1>3. QED
  BY <1>1, <1>2 DEF Decode, block

\* What was encoded as one type is no other.
LEMMA DecodeOther ==
    ASSUME NEW type, NEW names, NEW r, NEW other, NEW others, other # type
    PROVE  Decode(other, others, Encode(type, names, r)) = Failed
<1> DEFINE block == Encode(type, names, r)
<1>1. block["t"] = type
  BY DEF Encode
<1> HIDE DEF block
<1>2. QED
  BY <1>1 DEF Decode, block

LEMMA SealedEC ==
    ASSUME NEW sd, NEW k1, NEW k2, NEW ed, ed = [sd |-> sd, k1 |-> k1, k2 |-> k2]
    PROVE  UnmarshalConsentEC(MarshalConsentEC(ed)) = ed
<1>1. Fields(ed, ECFields) = ed
  BY DEF Fields, ECFields
<1>2. {"t", "v"} \intersect ECFields = {}
  BY DEF ECFields
<1>3. QED
  BY <1>1, <1>2, DecodeEncode DEF UnmarshalConsentEC, MarshalConsentEC

LEMMA SealedPQ ==
    ASSUME NEW sd, NEW keys, NEW ed, ed = [sd |-> sd, keys |-> keys]
    PROVE  UnmarshalConsentPQ(MarshalConsentPQ(ed)) = ed
<1>1. Fields(ed, PQFields) = ed
  BY DEF Fields, PQFields
<1>2. {"t", "v"} \intersect PQFields = {}
  BY DEF PQFields
<1>3. QED
  BY <1>1, <1>2, DecodeEncode DEF UnmarshalConsentPQ, MarshalConsentPQ

-----------------------------------------------------------------------------
(* Requests *)

\* A sealed record that travels in a request is read back with the rest of it.
LEMMA NestedConsent ==
    ASSUME FailedIsNoRecord, NEW type, NEW ed, ed # Failed, NEW sigs, NEW block,
           NEW wire, wire = [ed |-> block, sigs |-> sigs]
    PROVE  /\ Decode(type, {"ed", "sigs"}, Encode(type, {"ed", "sigs"}, wire)) = wire
           /\ Unnest(wire, ed) = [ed |-> ed, sigs |-> sigs]
<1> DEFINE names == {"ed", "sigs"}
<1>1. Fields(wire, names) = wire
  BY DEF Fields
<1>2. {"t", "v"} \intersect names = {}
  OBVIOUS
<1>3. wire # Failed
  BY <1>1, FieldsSucceed
<1>4. [wire EXCEPT !.ed = ed] = [ed |-> ed, sigs |-> sigs]
  OBVIOUS
<1>5. QED
  BY <1>1, <1>2, <1>3, <1>4, DecodeEncode DEF Unnest

\* As is that of a revocation.
LEMMA NestedRevoke ==
    ASSUME FailedIsNoRecord, NEW type, NEW ed, ed # Failed, NEW ccid, NEW sig, NEW block,
           NEW wire, wire = [ccid |-> ccid, ed |-> block, sig |-> sig]
    PROVE  /\ Decode(type, {"ccid", "ed", "sig"}, Encode(type, {"ccid", "ed", "sig"}, wire)) = wire
           /\ Unnest(wire, ed) = [ccid |-> ccid, ed |-> ed, sig |-> sig]
<1> DEFINE names == {"ccid", "ed", "sig"}
<1>1. Fields(wire, names) = wire
  BY DEF Fields
<1>2. {"t", "v"} \intersect names = {}
  OBVIOUS
<1>3. wire # Failed
  BY <1>1, FieldsSucceed
<1>4. [wire EXCEPT !.ed = ed] = [ccid |-> ccid, ed |-> ed, sig |-> sig]
  OBVIOUS
<1>5. QED
  BY <1>1, <1>2, <1>3, <1>4, DecodeEncode DEF Unnest

LEMMA SealedSucceeds ==
    ASSUME FailedIsNoRecord, NEW sd
    PROVE  /\ \A k1, k2: [sd |-> sd, k1 |-> k1, k2 |-> k2] # Failed
           /\ \A keys: [sd |-> sd, keys |-> keys] # Failed
<1>1. ASSUME NEW k1, NEW k2
      PROVE  [sd |-> sd, k1 |-> k1, k2 |-> k2] # Failed
  <2>1. Fields([sd |-> sd, k1 |-> k1, k2 |-> k2], ECFields) = [sd |-> sd, k1 |-> k1, k2 |-> k2]
    BY DEF Fields, ECFields
  <2>2. QED
    BY <2>1, FieldsSucceed
<1>2. ASSUME NEW keys
      PROVE  [sd |-> sd, keys |-> keys] # Failed
  <2>1. Fields([sd |-> sd, keys |-> keys], PQFields) = [sd |-> sd, keys |-> keys]
    BY DEF Fields, PQFields
  <2>2. QED
    BY <2>1, FieldsSucceed
<1>3. QED
  BY <1>1, <1>2

\* A consent is read back with its signatures (ipfs/cbor_request.go).
THEOREM ConsentRequestsRoundTrip ==
    ASSUME FailedIsNoRecord, NEW ed, NEW sigs, NEW sd, NEW k1, NEW k2, NEW keys,
           NEW request, request = [ed |-> ed, sigs |-> sigs]
    PROVE  /\ ed = [sd |-> sd, k1 |-> k1, k2 |-> k2] =>
                 UnmarshalConsentRequestEC(MarshalConsentRequestEC(request)) = request
           /\ ed = [sd |-> sd, keys |-> keys] =>
                 UnmarshalConsentRequestPQ(MarshalConsentRequestPQ(request)) = request
<1>1. ASSUME ed = [sd |-> sd, k1 |-> k1, k2 |-> k2]
      PROVE  UnmarshalConsentRequestEC(MarshalConsentRequestEC(request)) = request
  <2>1. ed # Failed /\ UnmarshalConsentEC(MarshalConsentEC(ed)) = ed
    BY <1>1, SealedSucceeds, SealedEC
  <2>2. PICK wire: wire = [ed |-> MarshalConsentEC(ed), sigs |-> sigs]
    OBVIOUS
  <2>3. [request EXCEPT !.ed = MarshalConsentEC(@)] = wire
    BY <2>2
  <2>4. /\ Decode("consent-ec", {"ed", "sigs"},
                  Encode("consent-ec", {"ed", "sigs"}, wire)) = wire
        /\ Unnest(wire, ed) = request
    BY <2>1, <2>2, NestedConsent
  <2>5. wire.ed = MarshalConsentEC(ed)
    BY <2>2
  <2>6. QED
    BY <2>1, <2>3, <2>4, <2>5 DEF UnmarshalConsentRequestEC, MarshalConsentRequestEC
<1>2. ASSUME ed = [sd |-> sd, keys |-> keys]
      PROVE  UnmarshalConsentRequestPQ(MarshalConsentRequestPQ(request)) = request
  <2>1. ed # Failed /\ UnmarshalConsentPQ(MarshalConsentPQ(ed)) = ed
    BY <1>2, SealedSucceeds, SealedPQ
  <2>2. PICK wire: wire = [ed |-> MarshalConsentPQ(ed), sigs |-> sigs]
    OBVIOUS
  <2>3. [request EXCEPT !.ed = MarshalConsentPQ(@)] = wire
    BY <2>2
  <2>4. /\ Decode("consent-pq", {"ed", "sigs"},
                  Encode("consent-pq", {"ed", "sigs"}, wire)) = wire
        /\ Unnest(wire, ed) = request
    BY <2>1, <2>2, NestedConsent
  <2>5. wire.ed = MarshalConsentPQ(ed)
    BY <2>2
  <2>6. QED
    BY <2>1, <2>3, <2>4, <2>5 DEF UnmarshalConsentRequestPQ, MarshalConsentRequestPQ
<1>3. QED
  BY <1>1, <1>2

\* A revocation is read back with its signature and its grant reference.
THEOREM RevokeRequestsRoundTrip ==
    ASSUME FailedIsNoRecord, NEW ed, NEW ccid, NEW sig, NEW sd, NEW k1, NEW k2, NEW keys,
           NEW request, request = [ccid |-> ccid, ed |-> ed, sig |-> sig]
    PROVE  /\ ed = [sd |-> sd, k1 |-> k1, k2 |-> k2] =>
                 UnmarshalRevokeRequestEC(MarshalRevokeRequestEC(request)) = request
           /\ ed = [sd |-> sd, keys |-> keys] =>
                 UnmarshalRevokeRequestPQ(MarshalRevokeRequestPQ(request)) = request
<1>1. ASSUME ed = [sd |-> sd, k1 |-> k1, k2 |-> k2]
      PROVE  UnmarshalRevokeRequestEC(MarshalRevokeRequestEC(request)) = request
  <2>1. ed # Failed /\ UnmarshalConsentEC(MarshalConsentEC(ed)) = ed
    BY <1>1, SealedSucceeds, SealedEC
  <2>2. PICK wire: wire = [ccid |-> ccid, ed |-> MarshalConsentEC(ed), sig |-> sig]
    OBVIOUS
  <2>3. [request EXCEPT !.ed = MarshalConsentEC(@)] = wire
    BY <2>2
  <2>4. /\ Decode("revoke-ec", {"ccid", "ed", "sig"},
                  Encode("revoke-ec", {"ccid", "ed", "sig"}, wire)) = wire
        /\ Unnest(wire, ed) = request
    BY <2>1, <2>2, NestedRevoke
  <2>5. wire.ed = MarshalConsentEC(ed)
    BY <2>2
  <2>6. QED
    BY <2>1, <2>3, <2>4, <2>5 DEF UnmarshalRevokeRequestEC, MarshalRevokeRequestEC
<1>2. ASSUME ed = [sd |-> sd, keys |-> keys]
      PROVE  UnmarshalRevokeRequestPQ(MarshalRevokeRequestPQ(request)) = request
  <2>1. ed # Failed /\ UnmarshalConsentPQ(MarshalConsentPQ(ed)) = ed
    BY <1>2, SealedSucceeds, SealedPQ
  <2>2. PICK wire: wire = [ccid |-> ccid, ed |-> MarshalConsentPQ(ed), sig |-> sig]
    OBVIOUS
  <2>3. [request EXCEPT !.ed = MarshalConsentPQ(@)] = wire
    BY <2>2
  <2>4. /\ Decode("revoke-pq", {"ccid", "ed", "sig"},
                  Encode("revoke-pq", {"ccid", "ed", "sig"}, wire)) = wire
        /\ Unnest(wire, ed) = request
    BY <2>1, <2>2, NestedRevoke
  <2>5. wire.ed = MarshalConsentPQ(ed)
    BY <2>2
  <2>6. QED
    BY <2>1, <2>3, <2>4, <2>5 DEF UnmarshalRevokeRequestPQ, MarshalRevokeRequestPQ
<1>3. QED
  BY <1>1, <1>2

-----------------------------------------------------------------------------
(* Signatures *)

\* The signer is recovered from what was signed and from nothing else.
LEMMA Recovery ==
    ASSUME NEW key, NEW contract, NEW cids, NEW other, NEW others
    PROVE  LET address == GetSigningAddress(SignRequest(key, contract, cids), other, others)
           IN IF BuildMessage(contract, cids) = BuildMessage(other, others)
              THEN address = [key |-> key]
              ELSE /\ \A k: address # [key |-> k]
                   /\ address.message = BuildMessage(other, others)
<1>1. ASSUME NEW k, NEW s, NEW m
      PROVE  [signature |-> s, message |-> m] # [key |-> k]
  <2>1. DOMAIN [signature |-> s, message |-> m] # DOMAIN [key |-> k]
    OBVIOUS
  <2>2. QED
    BY <2>1
<1>2. QED
  BY <1>1 DEF GetSigningAddress, SignRequest

\* The packed message of a consent, and of a revocation.
LEMMA Messages ==
    /\ \A a, b: BuildMessage(a, <<b>>) = <<a, b>>
    /\ \A a, b, d: BuildMessage(a, <<b, d>>) = <<a, b, d>>
<1>1. ASSUME NEW a, NEW b
      PROVE  BuildMessage(a, <<b>>) = <<a, b>>
  <2>1. <<a>> \in Seq({a, b}) /\ <<b>> \in Seq({a, b}) /\ <<a, b>> \in Seq({a, b})
    OBVIOUS
  <2>2. /\ <<a>> \o <<b>> \in Seq({a, b}) /\ Len(<<a>> \o <<b>>) = 2
        /\ \A i \in 1 .. 2: (<<a>> \o <<b>>)[i] = IF i <= 1 THEN a ELSE <<b>>[i - 1]
    BY <2>1, ConcatProperties
  <2>3. \A i \in 1 .. 2: (<<a>> \o <<b>>)[i] = <<a, b>>[i]
    BY <2>2
  <2>4. <<a>> \o <<b>> = <<a, b>>
    BY <2>1, <2>2, <2>3, SeqEqual
  <2>5. QED
    BY <2>4 DEF BuildMessage
<1>2. ASSUME NEW a, NEW b, NEW d
      PROVE  BuildMessage(a, <<b, d>>) = <<a, b, d>>
  <2>1. /\ <<a>> \in Seq({a, b, d}) /\ <<b, d>> \in Seq({a, b, d})
        /\ <<a, b, d>> \in Seq({a, b, d})
    OBVIOUS
  <2>2. /\ <<a>> \o <<b, d>> \in Seq({a, b, d}) /\ Len(<<a>> \o <<b, d>>) = 3
        /\ \A i \in 1 .. 3: (<<a>> \o <<b, d>>)[i] = IF i <= 1 THEN a ELSE <<b, d>>[i - 1]
    BY <2>1, ConcatProperties
  <2>3. \A i \in 1 .. 3: (<<a>> \o <<b, d>>)[i] = <<a, b, d>>[i]
    BY <2>2
  <2>4. <<a>> \o <<b, d>> = <<a, b, d>>
    BY <2>1, <2>2, <2>3, SeqEqual
  <2>5. QED
    BY <2>4 DEF BuildMessage
<1>3. QED
  BY <1>1, <1>2

-----------------------------------------------------------------------------
(* Detection of what a block is *)

LEMMA FirstOfTwo ==
    ASSUME NEW a, NEW b
    PROVE  FirstOf(<<a, b>>) = IF a # Failed THEN a ELSE b
<1> DEFINE attempts == <<a, b>>
           good == {i \in DOMAIN attempts : attempts[i] # Failed}
<1>1. DOMAIN attempts = 1 .. 2 /\ attempts[1] = a /\ attempts[2] = b
  OBVIOUS
<1>2. FirstOf(attempts) = IF good = {} THEN Failed
                          ELSE attempts[CHOOSE i \in good : \A j \in good : i <= j]
  BY DEF FirstOf
<1> HIDE DEF attempts
<1>3. CASE \E i \in good : \A j \in good : i <= j
  <2>1. PICK i \in good : \A j \in good : i <= j
    BY <1>3
  <2>2. (CHOOSE m \in good : \A j \in good : m <= j) = i
    <3>1. \A m \in good : (\A j \in good : m <= j) => m = i
      BY <1>1, <2>1
    <3>2. QED
      BY <2>1, <3>1
  <2>3. FirstOf(attempts) = attempts[i]
    BY <1>2, <2>1, <2>2
  <2>4. QED
    BY <1>1, <2>1, <2>3 DEF attempts
<1>4. CASE ~ \E i \in good : \A j \in good : i <= j
  <2>1. 1 \notin good /\ 2 \notin good
    BY <1>1, <1>4
  <2>2. QED
    BY <1>1, <1>2, <2>1 DEF attempts
<1>5. QED
  BY <1>3, <1>4

LEMMA FirstOfFour ==
    ASSUME NEW a, NEW b, NEW c, NEW d
    PROVE  FirstOf(<<a, b, c, d>>) = IF a # Failed THEN a ELSE IF b # Failed THEN b
                                     ELSE IF c # Failed THEN c ELSE d
<1> DEFINE attempts == <<a, b, c, d>>
           good == {i \in DOMAIN attempts : attempts[i] # Failed}
<1>1. /\ DOMAIN attempts = 1 .. 4
      /\ attempts[1] = a /\ attempts[2] = b /\ attempts[3] = c /\ attempts[4] = d
  OBVIOUS
<1>2. FirstOf(attempts) = IF good = {} THEN Failed
                          ELSE attempts[CHOOSE i \in good : \A j \in good : i <= j]
  BY DEF FirstOf
<1> HIDE DEF attempts
<1>3. CASE \E i \in good : \A j \in good : i <= j
  <2>1. PICK i \in good : \A j \in good : i <= j
    BY <1>3
  <2>2. (CHOOSE m \in good : \A j \in good : m <= j) = i
    <3>1. \A m \in good : (\A j \in good : m <= j) => m = i
      BY <1>1, <2>1
    <3>2. QED
      BY <2>1, <3>1
  <2>3. FirstOf(attempts) = attempts[i]
    BY <1>2, <2>1, <2>2
  <2>4. QED
    BY <1>1, <2>1, <2>3 DEF attempts
<1>4. CASE ~ \E i \in good : \A j \in good : i <= j
  <2>1. 1 \notin good /\ 2 \notin good /\ 3 \notin good /\ 4 \notin good
    BY <1>1, <1>4
  <2>2. QED
    BY <1>1, <1>2, <2>1 DEF attempts
<1>5. QED
  BY <1>3, <1>4

\* A block that names its type is none of version 1; one that does not is none of version 2.
LEMMA Versions ==
    ASSUME NEW type, NEW names, NEW block
    PROVE  /\ "t" \in DOMAIN block => DecodeV1(names, block) = Failed
           /\ "t" \notin DOMAIN block => Decode(type, names, block) = Failed
BY DEF DecodeV1, Decode

\* A sealed consent is detected as what it is, and read back as it was.
THEOREM ConsentsAreDetected ==
    ASSUME FailedIsNoRecord, NEW sd, NEW k1, NEW k2, NEW keys, NEW ed
    PROVE  /\ ed = [sd |-> sd, k1 |-> k1, k2 |-> k2] =>
                 LET block == MarshalConsentEC(ed) IN
                 /\ DecodeConsent(block) = [kind |-> "V2EC", record |-> ed]
                 /\ UnmarshalConsent(block) = ed
                 /\ DecodeRevoke(block) = Failed
           /\ ed = [sd |-> sd, keys |-> keys] =>
                 LET block == MarshalConsentPQ(ed) IN
                 /\ DecodeConsent(block) = [kind |-> "V2PQ", record |-> ed]
                 /\ UnmarshalConsent(block) = ed
                 /\ DecodeRevoke(block) = Failed
<1>1. ASSUME NEW kind, NEW r
      PROVE  [kind |-> kind, record |-> r] # Failed
  <2>1. Fields([kind |-> kind, record |-> r], {"kind", "record"})
          = [kind |-> kind, record |-> r]
    BY DEF Fields
  <2>2. QED
    BY <2>1, FieldsSucceed
<1>2. ASSUME NEW kind
      PROVE  Decoded(kind, Failed) = Failed
  BY DEF Decoded
<1>3. ASSUME ed = [sd |-> sd, k1 |-> k1, k2 |-> k2], NEW block, block = MarshalConsentEC(ed)
      PROVE  /\ DecodeConsent(block) = [kind |-> "V2EC", record |-> ed]
             /\ UnmarshalConsent(block) = ed
             /\ DecodeRevoke(block) = Failed
  <2>1. UnmarshalConsentEC(block) = ed /\ ed # Failed
    BY <1>3, SealedEC, SealedSucceeds
  <2>2. "t" \in DOMAIN block
    BY <1>3 DEF MarshalConsentEC, Encode
  <2>3. /\ UnmarshalConsentPQ(block) = Failed
        /\ UnmarshalRevokeEC(block) = Failed /\ UnmarshalRevokePQ(block) = Failed
    BY <1>3, DecodeOther DEF MarshalConsentEC, UnmarshalConsentPQ, UnmarshalRevokeEC,
       UnmarshalRevokePQ
  <2>4. /\ UnmarshalV1ConsentEC(block) = Failed /\ UnmarshalV1ConsentPQ(block) = Failed
        /\ UnmarshalV1RevokeEC(block) = Failed /\ UnmarshalV1RevokePQ(block) = Failed
    BY <2>2, Versions DEF UnmarshalV1ConsentEC, UnmarshalV1ConsentPQ, UnmarshalV1RevokeEC,
       UnmarshalV1RevokePQ
  <2>5. Decoded("V2EC", ed) = [kind |-> "V2EC", record |-> ed]
    BY <2>1 DEF Decoded
  <2>6. QED
    BY <1>1, <1>2, <2>1, <2>3, <2>4, <2>5, FirstOfTwo, FirstOfFour
    DEF DecodeConsent, UnmarshalConsent, DecodeRevoke
<1>4. ASSUME ed = [sd |-> sd, keys |-> keys], NEW block, block = MarshalConsentPQ(ed)
      PROVE  /\ DecodeConsent(block) = [kind |-> "V2PQ", record |-> ed]
             /\ UnmarshalConsent(block) = ed
             /\ DecodeRevoke(block) = Failed
  <2>1. UnmarshalConsentPQ(block) = ed /\ ed # Failed
    BY <1>4, SealedPQ, SealedSucceeds
  <2>2. "t" \in DOMAIN block
    BY <1>4 DEF MarshalConsentPQ, Encode
  <2>3. /\ UnmarshalConsentEC(block) = Failed
        /\ UnmarshalRevokeEC(block) = Failed /\ UnmarshalRevokePQ(block) = Failed
    BY <1>4, DecodeOther DEF MarshalConsentPQ, UnmarshalConsentEC, UnmarshalRevokeEC,
       UnmarshalRevokePQ
  <2>4. /\ UnmarshalV1ConsentEC(block) = Failed /\ UnmarshalV1ConsentPQ(block) = Failed
        /\ UnmarshalV1RevokeEC(block) = Failed /\ UnmarshalV1RevokePQ(block) = Failed
    BY <2>2, Versions DEF UnmarshalV1ConsentEC, UnmarshalV1ConsentPQ, UnmarshalV1RevokeEC,
       UnmarshalV1RevokePQ
  <2>5. Decoded("V2PQ", ed) = [kind |-> "V2PQ", record |-> ed]
    BY <2>1 DEF Decoded
  <2>6. QED
    BY <1>1, <1>2, <2>1, <2>3, <2>4, <2>5, FirstOfTwo, FirstOfFour
    DEF DecodeConsent, UnmarshalConsent, DecodeRevoke
<1>5. QED
  BY <1>3, <1>4

\* The block of a revocation is the sealed record with the grant reference in it.
RevokePayload(ed, ccid) == [f \in DOMAIN ed \union {"gr"} |-> IF f = "gr" THEN ccid ELSE ed[f]]

\* A sealed revocation is detected as what it is, and read back with its grant reference.
THEOREM RevocationsAreDetected ==
    ASSUME FailedIsNoRecord, NEW sd, NEW k1, NEW k2, NEW keys, keys # <<>>, NEW ed, NEW ccid
    PROVE  LET block == RevokeBlock(ed, ccid)
               payload == RevokePayload(ed, ccid)
           IN /\ \/ ed = [sd |-> sd, k1 |-> k1, k2 |-> k2]
                 \/ ed = [sd |-> sd, keys |-> keys]
                 => /\ UnmarshalRevoke(block) = payload
                    /\ payload.gr = ccid /\ payload.sd = ed.sd
                    /\ DecodeConsent(block) = Failed
              /\ ed = [sd |-> sd, k1 |-> k1, k2 |-> k2] =>
                    DecodeRevoke(block) = [kind |-> "V2EC", record |-> payload]
              /\ ed = [sd |-> sd, keys |-> keys] =>
                    DecodeRevoke(block) = [kind |-> "V2PQ", record |-> payload]
<1> DEFINE payload == RevokePayload(ed, ccid)
<1>1. ASSUME NEW kind
      PROVE  Decoded(kind, Failed) = Failed
  BY DEF Decoded
<1>2. ASSUME NEW kind, NEW r
      PROVE  [kind |-> kind, record |-> r] # Failed
  <2>1. Fields([kind |-> kind, record |-> r], {"kind", "record"})
          = [kind |-> kind, record |-> r]
    BY DEF Fields
  <2>2. QED
    BY <2>1, FieldsSucceed
<1>3. ASSUME ed = [sd |-> sd, k1 |-> k1, k2 |-> k2], NEW block, block = RevokeBlock(ed, ccid)
      PROVE  /\ UnmarshalRevoke(block) = payload
             /\ payload.gr = ccid /\ payload.sd = ed.sd
             /\ DecodeConsent(block) = Failed
             /\ DecodeRevoke(block) = [kind |-> "V2EC", record |-> payload]
  <2>1. /\ DOMAIN payload = ECFields \union {"gr"} /\ payload.gr = ccid /\ payload.sd = ed.sd
        /\ payload = Fields(payload, ECFields \union {"gr"})
    BY <1>3 DEF RevokePayload, ECFields, Fields
  <2>2. block = MarshalRevokeEC(payload)
    <3>1. RevokeBlock(ed, ccid) = MarshalRevoke(payload)
      BY DEF RevokeBlock, RevokePayload
    <3> HIDE DEF payload
    <3>2. QED
      BY <1>3, <2>1, <3>1 DEF MarshalRevoke, IsMultiKey, HasBothKeys, ECFields
  <2> HIDE DEF payload
  <2>3. {"t", "v"} \intersect (ECFields \union {"gr"}) = {}
    BY DEF ECFields
  <2>4. UnmarshalRevokeEC(block) = payload /\ payload # Failed
    BY <2>1, <2>2, <2>3, DecodeEncode, FieldsSucceed DEF MarshalRevokeEC, UnmarshalRevokeEC
  <2>5. "t" \in DOMAIN block
    BY <2>2 DEF MarshalRevokeEC, Encode
  <2>6. /\ UnmarshalConsentEC(block) = Failed /\ UnmarshalConsentPQ(block) = Failed
        /\ UnmarshalRevokePQ(block) = Failed
    BY <2>2, DecodeOther DEF MarshalRevokeEC, UnmarshalConsentEC, UnmarshalConsentPQ,
       UnmarshalRevokePQ
  <2>7. /\ UnmarshalV1ConsentEC(block) = Failed /\ UnmarshalV1ConsentPQ(block) = Failed
        /\ UnmarshalV1RevokeEC(block) = Failed /\ UnmarshalV1RevokePQ(block) = Failed
    BY <2>5, Versions DEF UnmarshalV1ConsentEC, UnmarshalV1ConsentPQ, UnmarshalV1RevokeEC,
       UnmarshalV1RevokePQ
  <2>8. Decoded("V2EC", payload) = [kind |-> "V2EC", record |-> payload]
    BY <2>4 DEF Decoded
  <2>9. QED
    BY <1>1, <1>2, <2>1, <2>4, <2>6, <2>7, <2>8, FirstOfTwo, FirstOfFour
    DEF DecodeConsent, UnmarshalRevoke, DecodeRevoke
<1>4. ASSUME ed = [sd |-> sd, keys |-> keys], NEW block, block = RevokeBlock(ed, ccid)
      PROVE  /\ UnmarshalRevoke(block) = payload
             /\ payload.gr = ccid /\ payload.sd = ed.sd
             /\ DecodeConsent(block) = Failed
             /\ DecodeRevoke(block) = [kind |-> "V2PQ", record |-> payload]
  <2>1. /\ DOMAIN payload = PQFields \union {"gr"} /\ payload.gr = ccid /\ payload.sd = ed.sd
        /\ payload.keys = keys /\ payload = Fields(payload, PQFields \union {"gr"})
    BY <1>4 DEF RevokePayload, PQFields, Fields
  <2>2. block = MarshalRevokePQ(payload)
    <3>1. RevokeBlock(ed, ccid) = MarshalRevoke(payload)
      BY DEF RevokeBlock, RevokePayload
    <3> HIDE DEF payload
    <3>2. QED
      BY <1>4, <2>1, <3>1 DEF MarshalRevoke, IsMultiKey, PQFields
  <2> HIDE DEF payload
  <2>3. {"t", "v"} \intersect (PQFields \union {"gr"}) = {}
    BY DEF PQFields
  <2>4. UnmarshalRevokePQ(block) = payload /\ payload # Failed
    BY <2>1, <2>2, <2>3, DecodeEncode, FieldsSucceed DEF MarshalRevokePQ, UnmarshalRevokePQ
  <2>5. "t" \in DOMAIN block
    BY <2>2 DEF MarshalRevokePQ, Encode
  <2>6. /\ UnmarshalConsentEC(block) = Failed /\ UnmarshalConsentPQ(block) = Failed
        /\ UnmarshalRevokeEC(block) = Failed
    BY <2>2, DecodeOther DEF MarshalRevokePQ, UnmarshalConsentEC, UnmarshalConsentPQ,
       UnmarshalRevokeEC
  <2>7. /\ UnmarshalV1ConsentEC(block) = Failed /\ UnmarshalV1ConsentPQ(block) = Failed
        /\ UnmarshalV1RevokeEC(block) = Failed /\ UnmarshalV1RevokePQ(block) = Failed
    BY <2>5, Versions DEF UnmarshalV1ConsentEC, UnmarshalV1ConsentPQ, UnmarshalV1RevokeEC,
       UnmarshalV1RevokePQ
  <2>8. Decoded("V2PQ", payload) = [kind |-> "V2PQ", record |-> payload]
    BY <2>4 DEF Decoded
  <2>9. QED
    BY <1>1, <1>2, <2>1, <2>4, <2>6, <2>7, <2>8, FirstOfTwo, FirstOfFour
    DEF DecodeConsent, UnmarshalRevoke, DecodeRevoke
<1>5. QED
  BY <1>3, <1>4

\* A block of version 1 is detected by its fields alone, and as nothing else.
THEOREM VersionOneIsDetected ==
    ASSUME FailedIsNoRecord, NEW block, NEW names, block = Fields(block, names)
    PROVE  /\ names = ConsentStructure =>
                 /\ DecodeConsent(block) = [kind |-> "V1EC", record |-> block]
                 /\ DecodeRevoke(block) = Failed
           /\ names = ConsentStructureMulti =>
                 /\ DecodeConsent(block) = [kind |-> "V1PQ", record |-> block]
                 /\ DecodeRevoke(block) = Failed
           /\ names = RevokeStructure =>
                 /\ DecodeRevoke(block) = [kind |-> "V1EC", record |-> block]
                 /\ DecodeConsent(block) = Failed
           /\ names = RevokeStructureMulti =>
                 /\ DecodeRevoke(block) = [kind |-> "V1PQ", record |-> block]
                 /\ DecodeConsent(block) = Failed
<1>1. DOMAIN block = names
  BY DEF Fields
<1>2. block # Failed
  BY FieldsSucceed
<1>3. ASSUME NEW kind, NEW r
      PROVE  /\ [kind |-> kind, record |-> r] # Failed
             /\ Decoded(kind, Failed) = Failed
             /\ Decoded(kind, block) = [kind |-> kind, record |-> block]
  <2>1. Fields([kind |-> kind, record |-> r], {"kind", "record"})
          = [kind |-> kind, record |-> r]
    BY DEF Fields
  <2>2. QED
    BY <1>2, <2>1, FieldsSucceed DEF Decoded
<1>4. ASSUME NEW kinds, kinds \in {ConsentStructure, ConsentStructureMulti, RevokeStructure,
                                   RevokeStructureMulti},
             names \in {ConsentStructure, ConsentStructureMulti, RevokeStructure,
                        RevokeStructureMulti}
      PROVE  DecodeV1(kinds, block) = IF kinds = names THEN block ELSE Failed
  <2>1. "t" \notin DOMAIN block /\ (kinds \subseteq names <=> kinds = names)
    BY <1>1, <1>4 DEF ConsentStructure, ConsentStructureMulti, RevokeStructure,
       RevokeStructureMulti
  <2>2. QED
    BY <1>1, <2>1 DEF DecodeV1
<1>5. ASSUME "t" \notin names
      PROVE  /\ UnmarshalConsentEC(block) = Failed /\ UnmarshalConsentPQ(block) = Failed
             /\ UnmarshalRevokeEC(block) = Failed /\ UnmarshalRevokePQ(block) = Failed
  BY <1>1, <1>5, Versions DEF UnmarshalConsentEC, UnmarshalConsentPQ, UnmarshalRevokeEC,
     UnmarshalRevokePQ
<1>6. /\ ConsentStructure # ConsentStructureMulti /\ ConsentStructure # RevokeStructure
      /\ ConsentStructure # RevokeStructureMulti /\ ConsentStructureMulti # RevokeStructure
      /\ ConsentStructureMulti # RevokeStructureMulti /\ RevokeStructure # RevokeStructureMulti
      /\ \A s \in {ConsentStructure, ConsentStructureMulti, RevokeStructure,
                   RevokeStructureMulti}: "t" \notin s
  BY DEF ConsentStructure, ConsentStructureMulti, RevokeStructure, RevokeStructureMulti
<1>7. QED
  BY <1>3, <1>4, <1>5, <1>6, FirstOfFour
  DEF DecodeConsent, DecodeRevoke, UnmarshalV1ConsentEC, UnmarshalV1ConsentPQ,
      UnmarshalV1RevokeEC, UnmarshalV1RevokePQ

-----------------------------------------------------------------------------
(* Payloads *)

\* A permission is read back with the extended key that it may hold, and so are the payload
\* of a revocation and a notary block (ipfs/cbor_feed*.go, cbor_notary.go).
THEOREM PayloadsRoundTrip ==
    ASSUME FailedIsNoRecord, NEW p
    PROVE  /\ /\ p = Fields(p, DOMAIN p)
              /\ \/ DOMAIN p = PermissionFields
                 \/ DOMAIN p = PermissionFields \union {"gx"}
              => /\ UnmarshalFeedPermission(MarshalFeedPermission(p)) = p
                 /\ p # Failed
           /\ p = Fields(p, RevocationFields) =>
                 /\ UnmarshalFeedRevocation(MarshalFeedRevocation(p)) = p
                 /\ p # Failed
           /\ p = Fields(p, {"ts"}) =>
                 /\ UnmarshalNotaryBlock(MarshalNotaryBlock(p)) = p
                 /\ MarshalNotaryBlock(p) # Failed
                 /\ p # Failed
<1>1. ASSUME p = Fields(p, DOMAIN p),
             \/ DOMAIN p = PermissionFields
             \/ DOMAIN p = PermissionFields \union {"gx"}
      PROVE  UnmarshalFeedPermission(MarshalFeedPermission(p)) = p /\ p # Failed
  <2>1. PICK names: names = PermissionFields \union Optional("gx", p)
    OBVIOUS
  <2>2. names = DOMAIN p
    BY <1>1, <2>1 DEF Optional, PermissionFields
  <2>3. {"t", "v"} \intersect names = {}
    BY <2>1 DEF Optional, PermissionFields
  <2>4. PICK block: block = MarshalFeedPermission(p)
    OBVIOUS
  <2>5. block = Encode("feed-permission", names, p)
    BY <2>1, <2>4 DEF MarshalFeedPermission
  <2>6. PermissionFields \union Optional("gx", block) = names
    BY <2>1, <2>5 DEF Encode, Optional, PermissionFields
  <2>7. UnmarshalFeedPermission(block) = Fields(p, names)
    BY <2>3, <2>5, <2>6, DecodeEncode DEF UnmarshalFeedPermission
  <2>8. QED
    BY <1>1, <2>2, <2>4, <2>7, FieldsSucceed
<1>2. ASSUME p = Fields(p, RevocationFields)
      PROVE  UnmarshalFeedRevocation(MarshalFeedRevocation(p)) = p /\ p # Failed
  <2>1. {"t", "v"} \intersect RevocationFields = {}
    BY DEF RevocationFields
  <2>2. QED
    BY <1>2, <2>1, DecodeEncode, FieldsSucceed DEF UnmarshalFeedRevocation, MarshalFeedRevocation
<1>3. ASSUME p = Fields(p, {"ts"})
      PROVE  /\ UnmarshalNotaryBlock(MarshalNotaryBlock(p)) = p
             /\ MarshalNotaryBlock(p) # Failed
             /\ p # Failed
  <2>1. {"t", "v"} \intersect {"ts"} = {}
    OBVIOUS
  <2>2. UnmarshalNotaryBlock(MarshalNotaryBlock(p)) = p /\ p # Failed
    BY <1>3, <2>1, DecodeEncode, FieldsSucceed DEF UnmarshalNotaryBlock, MarshalNotaryBlock
  <2>3. PICK block: block = MarshalNotaryBlock(p)
    OBVIOUS
  <2>4. block = Fields(block, {"ts", "t", "v"})
    BY <2>3 DEF MarshalNotaryBlock, Encode, Fields
  <2>5. QED
    BY <2>2, <2>3, <2>4, FieldsSucceed
<1>4. QED
  BY <1>1, <1>2, <1>3

-----------------------------------------------------------------------------
(* Verification *)

\* A revocation verifies against a consent exactly if one of the keys that signed the
\* consent signed the revocation, and under the contract both were signed for, whatever
\* contract the verifier has (RevokeSignerWasConsentSigner).
THEOREM RevokersAreSigners ==
    ASSUME NEW revoke, NEW consent, NEW contract, NEW signed, NEW key, NEW keys,
           revoke.sig = SignRequest(key, signed, <<revoke.ccid, GetCid(VerifiedBlock(revoke))>>),
           DOMAIN consent.sigs = DOMAIN keys,
           \A i \in DOMAIN keys: consent.sigs[i] =
               SignRequest(keys[i], signed, <<GetCid(MarshalConsentEC(consent.ed))>>)
    PROVE  RevokeSignerWasConsentSigner(revoke, consent, contract)
             <=> contract = signed /\ \E i \in DOMAIN keys: keys[i] = key
<1> DEFINE cid == GetCid(MarshalConsentEC(consent.ed))
           rcid == GetCid(VerifiedBlock(revoke))
           revoker == GetSigningAddress(revoke.sig, contract, <<revoke.ccid, rcid>>)
           signer(i) == GetSigningAddress(consent.sigs[i], contract, <<cid>>)
<1>1. RevokeSignerWasConsentSigner(revoke, consent, contract)
        <=> \E i \in DOMAIN keys: signer(i) = revoker
  BY DEF RevokeSignerWasConsentSigner, ConsentSigners
<1>2. /\ contract = signed => revoker = [key |-> key]
      /\ contract # signed => revoker.message = BuildMessage(contract, <<revoke.ccid, rcid>>)
  <2>1. BuildMessage(signed, <<revoke.ccid, rcid>>) = BuildMessage(contract, <<revoke.ccid, rcid>>)
          <=> contract = signed
    <3>1. \A a: BuildMessage(a, <<revoke.ccid, rcid>>) = <<a, revoke.ccid, rcid>>
      BY Messages
    <3>2. QED
      BY <3>1
  <2>2. QED
    BY <2>1, Recovery
<1>3. ASSUME NEW i \in DOMAIN keys
      PROVE  /\ contract = signed => signer(i) = [key |-> keys[i]]
             /\ contract # signed => signer(i).message = BuildMessage(contract, <<cid>>)
  <2>1. BuildMessage(signed, <<cid>>) = BuildMessage(contract, <<cid>>) <=> contract = signed
    <3>1. \A a: BuildMessage(a, <<cid>>) = <<a, cid>>
      BY Messages
    <3>2. QED
      BY <3>1
  <2>2. consent.sigs[i] = SignRequest(keys[i], signed, <<cid>>)
    OBVIOUS
  <2>3. QED
    BY <2>1, <2>2, Recovery
<1>4. BuildMessage(contract, <<cid>>) # BuildMessage(contract, <<revoke.ccid, rcid>>)
  <2>1. /\ BuildMessage(contract, <<cid>>) = <<contract, cid>>
        /\ BuildMessage(contract, <<revoke.ccid, rcid>>) = <<contract, revoke.ccid, rcid>>
    BY Messages
  <2>2. Len(<<contract, cid>>) # Len(<<contract, revoke.ccid, rcid>>)
    OBVIOUS
  <2>3. QED
    BY <2>1, <2>2
<1>5. \A a, b: [key |-> a] = [key |-> b] <=> a = b
  OBVIOUS
<1> HIDE DEF cid, rcid, revoker, signer
<1>6. QED
  BY <1>1, <1>2, <1>3, <1>4, <1>5

=============================================================================
