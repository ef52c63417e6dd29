----------------------------- MODULE RecordCodec -----------------------------
(***************************************************************************)
(* The blocks that go to IPFS (package ipfs): records are DAG-CBOR maps.   *)
(* Since version 2 a map names its type in "t" and its version in "v";     *)
(* version 1 had neither, and its records are still read.  The model keeps *)
(* the maps and their keys and leaves out the bytes.  An optional field    *)
(* that is empty is one that is absent.                                    *)
(***************************************************************************)
EXTENDS Integers, Sequences

CONSTANT Failed  \* what an operation that returns an error has for a result

Fields(r, names) == [f \in names |-> r[f]]

Encode(type, names, r) ==
    [f \in names \union {"t", "v"} |->
        IF f = "t" THEN type ELSE IF f = "v" THEN 1 ELSE r[f]]

\* Slip: a record is told by its fields alone.
DecodeByFields(type, names, block) ==
    IF names \union {"t", "v"} \subseteq DOMAIN block THEN Fields(block, names) ELSE Failed

Decode(type, names, block) ==
    IF /\ names \union {"t", "v"} \subseteq DOMAIN block
       /\ block.t = type
       /\ block.v = 1
    THEN Fields(block, names)
    ELSE Failed

\* Without a type a record is told by its fields.
DecodeV1(names, block) ==
    IF "t" \notin DOMAIN block /\ names \subseteq DOMAIN block
    THEN Fields(block, names)
    ELSE Failed

\* The first of several attempts that succeeds.
FirstOf(attempts) ==
    LET good == {i \in DOMAIN attempts : attempts[i] # Failed} IN
    IF good = {} THEN Failed ELSE attempts[CHOOSE i \in good : \A j \in good : i <= j]

\* A CID is the hash of a block, and no two blocks have the same.
GetCid(block) == [cid |-> block]

-----------------------------------------------------------------------------
(* Sealed records *)

ECFields == {"sd", "k1", "k2"}
PQFields == {"sd", "keys"}

MarshalConsentEC(r) == Encode("ec", ECFields, r)
UnmarshalConsentEC(block) == Decode("ec", ECFields, block)

MarshalConsentPQ(r) == Encode("pq", PQFields, r)
UnmarshalConsentPQ(block) == Decode("pq", PQFields, block)

MarshalRevokeEC(p) == Encode("rev-ec", ECFields \union {"gr"}, p)
UnmarshalRevokeEC(block) == Decode("rev-ec", ECFields \union {"gr"}, block)

MarshalRevokePQ(p) == Encode("rev-pq", PQFields \union {"gr"}, p)
UnmarshalRevokePQ(block) == Decode("rev-pq", PQFields \union {"gr"}, block)

IsMultiKey(p) == "keys" \in DOMAIN p /\ p.keys # <<>>

HasBothKeys(p) == {"k1", "k2"} \subseteq DOMAIN p

MarshalConsent(p) ==
    IF IsMultiKey(p) THEN MarshalConsentPQ(p)
    ELSE IF HasBothKeys(p) THEN MarshalConsentEC(p) ELSE Failed

MarshalRevoke(p) ==
    IF IsMultiKey(p) THEN MarshalRevokePQ(p)
    ELSE IF HasBothKeys(p) THEN MarshalRevokeEC(p) ELSE Failed

UnmarshalConsent(block) == FirstOf(<<UnmarshalConsentEC(block), UnmarshalConsentPQ(block)>>)
UnmarshalRevoke(block) == FirstOf(<<UnmarshalRevokeEC(block), UnmarshalRevokePQ(block)>>)

-----------------------------------------------------------------------------
(* Version 1 *)

ConsentStructure == {"consent", "key1", "key2"}
RevokeStructure == {"revoke", "key1", "key2", "grant_ref"}
ConsentStructureMulti == {"consent", "keys"}
RevokeStructureMulti == {"revoke", "keys", "grant_ref"}

MarshalV1ConsentEC(c) == Fields(c, ConsentStructure)
UnmarshalV1ConsentEC(block) == DecodeV1(ConsentStructure, block)

MarshalV1RevokeEC(r) == Fields(r, RevokeStructure)
UnmarshalV1RevokeEC(block) == DecodeV1(RevokeStructure, block)

MarshalV1ConsentPQ(c) == Fields(c, ConsentStructureMulti)
UnmarshalV1ConsentPQ(block) == DecodeV1(ConsentStructureMulti, block)

MarshalV1RevokePQ(r) == Fields(r, RevokeStructureMulti)
UnmarshalV1RevokePQ(block) == DecodeV1(RevokeStructureMulti, block)

-----------------------------------------------------------------------------
(* Detection of version and scheme *)

Decoded(kind, r) == IF r = Failed THEN Failed ELSE [kind |-> kind, record |-> r]

DecodeConsent(block) ==
    FirstOf(<<Decoded("V2EC", UnmarshalConsentEC(block)),
              Decoded("V2PQ", UnmarshalConsentPQ(block)),
              Decoded("V1EC", UnmarshalV1ConsentEC(block)),
              Decoded("V1PQ", UnmarshalV1ConsentPQ(block))>>)

DecodeRevoke(block) ==
    FirstOf(<<Decoded("V2EC", UnmarshalRevokeEC(block)),
              Decoded("V2PQ", UnmarshalRevokePQ(block)),
              Decoded("V1EC", UnmarshalV1RevokeEC(block)),
              Decoded("V1PQ", UnmarshalV1RevokePQ(block))>>)

-----------------------------------------------------------------------------
(* Requests: a sealed record, as a block of its own, with its signatures *)

Unnest(r, ed) ==
    IF r = Failed \/ ed = Failed THEN Failed ELSE [r EXCEPT !.ed = ed]

MarshalConsentRequestEC(p) ==
    Encode("consent-ec", {"ed", "sigs"}, [p EXCEPT !.ed = MarshalConsentEC(@)])
UnmarshalConsentRequestEC(block) ==
    LET r == Decode("consent-ec", {"ed", "sigs"}, block) IN Unnest(r, UnmarshalConsentEC(r.ed))

MarshalConsentRequestPQ(p) ==
    Encode("consent-pq", {"ed", "sigs"}, [p EXCEPT !.ed = MarshalConsentPQ(@)])
UnmarshalConsentRequestPQ(block) ==
    LET r == Decode("consent-pq", {"ed", "sigs"}, block) IN Unnest(r, UnmarshalConsentPQ(r.ed))

\* The sealed part of a revocation travels without its grant reference, which is "ccid".
MarshalRevokeRequestEC(p) ==
    Encode("revoke-ec", {"ccid", "ed", "sig"}, [p EXCEPT !.ed = MarshalConsentEC(@)])
UnmarshalRevokeRequestEC(block) ==
    LET r == Decode("revoke-ec", {"ccid", "ed", "sig"}, block) IN Unnest(r, UnmarshalConsentEC(r.ed))

MarshalRevokeRequestPQ(p) ==
    Encode("revoke-pq", {"ccid", "ed", "sig"}, [p EXCEPT !.ed = MarshalConsentPQ(@)])
UnmarshalRevokeRequestPQ(block) ==
    LET r == Decode("revoke-pq", {"ccid", "ed", "sig"}, block) IN Unnest(r, UnmarshalConsentPQ(r.ed))

-----------------------------------------------------------------------------
(* Payloads, with the fields that other parts depend on *)

MarshalNotaryBlock(n) == Encode("notary", {"ts"}, n)
UnmarshalNotaryBlock(block) == Decode("notary", {"ts"}, block)

PermissionFields == {"cn", "en", "nk1", "nk2"}
Optional(name, r) == {name} \intersect DOMAIN r

MarshalFeedPermission(p) ==
    Encode("feed-permission", PermissionFields \union Optional("gx", p), p)
UnmarshalFeedPermission(block) ==
    Decode("feed-permission", PermissionFields \union Optional("gx", block), block)

RevocationFields == {"en", "nk1", "nk2", "gcid"}

MarshalFeedRevocation(p) == Encode("feed-revocation", RevocationFields, p)
UnmarshalFeedRevocation(block) == Decode("feed-revocation", RevocationFields, block)

=============================================================================
